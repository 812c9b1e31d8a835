---- MODULE MCInstall ----
(***************************************************************************)
(* Install on small installations: v0 is a release of the old root layout  *)
(* with the cold protocol, v1 reads a provider manifest, v2 and v3 read    *)
(* model folders.                                                          *)
(***************************************************************************)
EXTENDS Install

MCReleases == {"v0", "v1", "v2", "v3"}
MCPredates == {"v0", "v1"}
MCColds == {"v0"}
MCTools == {"adb", "probe", "ocr"}
MCNone == "none"
MCSlots == {"A", "B"}
MCContent ==
    [r \in MCReleases |->
       CASE r = "v0" -> [adb |-> "none", probe |-> "p0", ocr |-> "o"]
         [] r = "v1" -> [adb |-> "none", probe |-> "none", ocr |-> "none"]
         [] r = "v2" -> [adb |-> "a", probe |-> "p2", ocr |-> "none"]
         [] r = "v3" -> [adb |-> "a", probe |-> "p3", ocr |-> "none"]]

MadeBy(slot, r, shape) ==
    <<[slot |-> slot, rel |-> r, shape |-> shape, from |-> 0, ready |-> TRUE]>>
FixedRoot(r) == [runtime |-> Entry(r), ui |-> Entry(r), config |-> Nothing,
                 identity |-> Manager(r), program |-> Manager(r)]
OldRoot == [runtime |-> Programs("v0"), ui |-> Programs("v0"), config |-> Config,
            identity |-> Nothing, program |-> Nothing]
BareRoot == [n \in Places |-> Nothing]
RunsOn(g) == [NoHost EXCEPT !.owner = 1, !.gen = g]

Bare == [active |-> 0, made |-> <<>>, slots |-> [A |-> "none", B |-> "none"],
         tools |-> [adb |-> "none", probe |-> "none", ocr |-> "none"],
         root |-> BareRoot, host |-> NoHost, shape |-> "plain", used |-> FALSE,
         ops |-> {"crash"}, wants |-> {"v2"}, gens |-> 2, owners |-> 4, mishaps |-> 1]
\* An A/B installation of r, its Runtime running.
Ab(r, shape) ==
    [Bare EXCEPT !.active = 1, !.made = MadeBy("A", r, shape),
                 !.slots = [A |-> r, B |-> "none"], !.tools = MCContent[r],
                 !.root = FixedRoot(r), !.host = RunsOn(1), !.used = TRUE]

Old == [Bare EXCEPT !.root = OldRoot, !.tools = MCContent["v0"],
                    !.host = RunsOn(0), !.shape = "manifest", !.used = TRUE,
                    !.gens = 2, !.ops = {"crash", "settings"}, !.mishaps = 3]
Fresh == [Bare EXCEPT !.gens = 3, !.mishaps = 2]
Upgrading == [Ab("v2", "vision") EXCEPT !.wants = {"v3"}, !.gens = 8,
                            !.owners = 8, !.mishaps = 3]
Backing == [Ab("v1", "manifest") EXCEPT !.gens = 4, !.mishaps = 1,
                 !.ops = {"rollback", "edit", "crash"}]
Editing == [Ab("v2", "plain") EXCEPT !.wants = {"v3"}, !.gens = 4, !.mishaps = 1,
                 !.ops = {"edit", "resources"}]

MCDesks == {Old, Fresh, Upgrading, Backing, Editing}
====
