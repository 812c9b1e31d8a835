---- MODULE MCWizard ----
(***************************************************************************)
(* Wizard on small runs: v1 and v0 were published before the installed v2, *)
(* v3 after it.                                                            *)
(***************************************************************************)
EXTENDS Wizard

MCOlder == {"v0", "v1"}
MCNewer == {"v3"}
MCNoRelease == "no release"

Fresh == [kind |-> "fresh", carried |-> "v3", online |-> {}, folder |-> {}, asks |-> 0,
          rows |-> 1, before |-> {}, mishaps |-> 2, tries |-> 5]
Looking == [Fresh EXCEPT !.carried = MCNoRelease, !.online = {"v3", MCNoRelease},
                         !.folder = {"v3"}, !.tries = 3, !.mishaps = 1, !.rows = 0]
Upgrade == [kind |-> "upgrade", carried |-> MCNoRelease, online |-> {"v1", "v3", MCNoRelease},
            folder |-> {"v0", "v1"}, asks |-> 2, rows |-> 2, before |-> {}, mishaps |-> 1,
            tries |-> 3]
Carried == [Upgrade EXCEPT !.carried = "v1", !.mishaps = 2, !.asks = 1, !.rows = 1]
Resources == [Carried EXCEPT !.kind = "resources"]
MCDesks == {Fresh, Looking, Upgrade, Carried, Resources}

\* A root whose Startup folder and Start menu hold files from before.
Occupied == [Fresh EXCEPT !.before = {"launcher"}, !.mishaps = 1]
OccupiedDesks == {Occupied}
====
