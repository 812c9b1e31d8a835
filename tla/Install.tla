------------------------------ MODULE Install ------------------------------
(***************************************************************************)
(* acsetup's transactions on one installation root: a fresh install, an    *)
(* A/B upgrade, a rollback, the first migration from the old root layout,  *)
(* a change of configuration with and without a restart.  Each runs under  *)
(* the writer lock as a sequence of stages; any stage may fail, the        *)
(* process may end at any stage, and the Runtime, the console and the      *)
(* person act in between.                                                  *)
(***************************************************************************)
EXTENDS Lifecycle, Sequences, FiniteSets, SequencesExt

CONSTANTS Releases,  \* the releases a slot may hold
          None,      \* no release, no file
          Predates,  \* those whose Runtime reads a provider manifest
          Colds,     \* those that speak the cold protocol alone
          Tools,     \* the installer's files under tools\
          Content,   \* [Releases -> [Tools -> what the release brings]]
          Slots,     \* A and B
          First,     \* slot A
          Desks      \* the installations the runs begin with

\* What may stand at a place of the root.
Things == {t \in [is : {"none", "programs", "entry", "manager", "config"},
                  rel : Releases \union {None}] : t.is = "none" => t.rel = None}
Places == {"runtime", "ui", "config", "identity", "program"}
Shapes == {"plain", "manifest", "vision"}
\* What may lie under the name of a tool.
FilesOf(n) == {None} \union {Content[r][n] : r \in Releases}
\* The shape a slot's Runtime reads.
Fits(shape, r) == IF r \in Predates THEN shape # "vision" ELSE shape # "manifest"

\* An installation: its selection, if it has one, and all it made are whole.
DeskTypes ==
    {d \in [active : Nat,
            made : Seq([slot : Slots, rel : Releases \union {None}, shape : Shapes,
                        from : Nat, ready : BOOLEAN]),
            slots : [Slots -> Releases \union {None}],
            tools : [Tools -> UNION {FilesOf(n) : n \in Tools}], root : [Places -> Things],
            host : [owner : Nat, gen : Nat, phase : {"open"}, trans : {0}],
            shape : Shapes, used : BOOLEAN,
            ops : SUBSET {"crash", "settings", "rollback", "edit", "resources"},
            wants : SUBSET Releases, gens : Nat, owners : Nat, mishaps : Nat] :
        /\ d.active # 0 =>
              /\ d.active \in 1..Len(d.made) /\ d.made[d.active].ready
              /\ d.slots[d.made[d.active].slot] = d.made[d.active].rel
        /\ \A g \in 1..Len(d.made) :
              Fits(d.made[g].shape, d.made[g].rel) /\ d.made[g].from \in 0..Len(d.made)
        /\ \A n \in Tools : d.tools[n] \in FilesOf(n)}

ASSUME InstallAssumption ==
    /\ None \notin Releases /\ Predates \subseteq Releases /\ Colds \subseteq Releases
    /\ First \in Slots /\ Cardinality(Slots) = 2 /\ IsFiniteSet(Tools)
    /\ Desks \subseteq DeskTypes

VARIABLES desk,      \* which installation this is, and what may be done to it
          active,    \* install/active.json: the selected generation, or 0
          gens,      \* install/generations: what was prepared, by number
          temps,     \* active-<g>.json and restore-<g>.json left by a commit
          slots,     \* the release each slot holds
          tools,     \* the root's own tools
          kept,      \* tools moved out, by the generation that moved them
          parts,     \* unfinished copies, `<name>.acsetup-new`
          root,      \* the root's fixed places
          store,     \* what was moved out of them into a backup
          settings,  \* the console's settings file: whose it is
          seen,      \* the generation the open console was started with
          wish,      \* what an acsetup decided before it took the lock
          txn        \* the transaction that holds the writer lock

diskVars == <<active, gens, temps, slots, tools, kept, parts, root, store, settings>>
vars == <<desk, diskVars, seen, wish, txn, lifeVars>>

Nothing == [is |-> "none", rel |-> None]
Programs(r) == [is |-> "programs", rel |-> r]
Entry(r) == [is |-> "entry", rel |-> r]
Manager(r) == [is |-> "manager", rel |-> r]
Config == [is |-> "config", rel |-> None]

NoWish == [kind |-> "none", rel |-> None, agreed |-> None]
NoBefore == [tools |-> [n \in Tools |-> None], root |-> [n \in Places |-> Nothing],
             settings |-> "before"]
NoTxn == [op |-> "none", at |-> "rest", rel |-> None, base |-> 0, gen |-> 0,
          slot |-> First, prior |-> None, how |-> "cold", todo |-> <<>>,
          done |-> <<>>, moved |-> <<>>, clean |-> <<>>, ok |-> {}, well |-> TRUE,
          committed |-> FALSE, wrote |-> FALSE, before |-> NoBefore]

Other(s) == CHOOSE o \in Slots : o # s
ControlOf(r) == IF r \in Colds THEN "cold" ELSE "transition"

\* Snapshot::read: the selection's inputs are the ones it was made from.
Loads(g) == /\ g \in 1..Len(gens) /\ gens[g].ready
            /\ slots[gens[g].slot] = gens[g].rel
ManagerHolds == root["identity"].is = "manager" /\ root["program"] = root["identity"]

\* What `upgrade::installed` finds without a selection.
OldLayout == /\ root["runtime"].is = "programs" /\ root["ui"].is = "programs"
             /\ root["config"].is = "config"
NoLayout == root["runtime"].is # "programs" /\ root["config"].is = "none"
\* The release whose Runtime is replaced.
Previous == IF active # 0 THEN slots[gens[active].slot] ELSE root["runtime"].rel

\* The behaviour's bounds on generations and on Runtimes started.
Room == Len(gens) < desk.gens /\ owners < desk.owners

StateUsable == ~desk.used /\ owners = 0
\* Mutant: any Runtime at all keeps a slot in use.
InUseByAny(s) == s \in Slots /\ (Up \/ boots.pid # 0)

\* A Runtime or its start uses the programs of slot s, or the root's.
InUse(s) == \E g \in {IF Up THEN host.gen ELSE 0, boots.gen} \ {0} : gens[g].slot = s
RootInUse == (Up /\ host.gen = 0) \/ (boots.pid # 0 /\ boots.gen = 0)

Locked == txn.at # "rest"
At(s) == txn.at = s
Go(s) == txn' = [txn EXCEPT !.at = s]
Do(s, list) == txn' = [txn EXCEPT !.at = s, !.todo = list]
Still == UNCHANGED <<host, boots, life, owners>> /\ Well

----------------------------------------------------------------------------
(* An error: what the operation takes back at this stage, in order. *)

Applying == {"apply", "copy", "place"}
Committing == {"temp", "swap", "said"}
CleanUp ==
    CASE txn.op \in {"upgrade", "fresh"} /\ txn.at \in Applying -> <<"undo">>
      [] txn.op = "upgrade" /\ txn.at \in Committing -> <<"undo", "takeback">>
      [] txn.op \in {"rollback", "resources"} /\ txn.at \in Committing -> <<"takeback">>
      [] txn.op = "migrate" /\ txn.at \in Applying ->
            <<"undo", "takeback", "unmanage", "putback", "unset">>
      [] txn.op = "migrate" /\ txn.at \in {"move", "fix", "manage", "settings", "write"} \union Committing ->
            <<"takeback", "undo", "unmanage", "putback", "unset">>
      [] OTHER -> <<>>

Stopped == [txn EXCEPT !.at = "clean", !.clean = CleanUp, !.todo = <<>>]
Stop == txn' = Stopped
\* A stage that can fail fails: a rename refused, a disk full, a check not met.
Fails == Stop /\ UNCHANGED <<host, boots, life, owners>> /\ Mishap

----------------------------------------------------------------------------
(* before the lock *)

\* `acsetup --yes` or the window: what is installed decides what is run, and
\* the interfaces of the release are agreed with the Runtime found there.
Wish(r) ==
    /\ wish.kind = "none" /\ r \in desk.wants /\ Room
    \* an abandoned transition has ended, an unfinished copy was moved away
    /\ host.phase \in {"open", "expired", "released"} /\ parts = {}
    /\ \/ /\ active # 0 /\ Previous # r
          /\ wish' = [kind |-> "upgrade", rel |-> r, agreed |-> Previous]
       \/ /\ active = 0 /\ OldLayout
          /\ wish' = [kind |-> "upgrade", rel |-> r, agreed |-> Previous]
       \/ /\ active = 0 /\ NoLayout /\ StateUsable
          /\ wish' = [kind |-> "fresh", rel |-> r, agreed |-> None]
    /\ UNCHANGED <<desk, diskVars, seen, txn, host, boots, life, owners>> /\ Well

\* The Runtime agreed on is still the one there (`confirm_previous`).
Confirmed == wish.agreed = Previous

Opening(op) == [NoTxn EXCEPT !.op = op, !.base = active,
                  !.before = [tools |-> tools, root |-> root, settings |-> settings]]

BeginInstall ==
    /\ ~Locked /\ wish.kind # "none" /\ Room
    /\ wish' = NoWish
    /\ txn' = LET begun == [Opening("fresh") EXCEPT !.rel = wish.rel,
                              !.at = "retain", !.how = ControlOf(wish.agreed)] IN
              CASE wish.kind = "fresh" /\ StateUsable -> begun
                [] wish.kind = "upgrade" /\ Confirmed /\ active # 0 /\ ManagerHolds ->
                     [begun EXCEPT !.op = "upgrade", !.slot = Other(gens[active].slot)]
                [] wish.kind = "upgrade" /\ Confirmed /\ active = 0
                     /\ root["config"].is = "config" ->
                     [begun EXCEPT !.op = "migrate"]
                [] OTHER -> txn
    /\ UNCHANGED <<desk, diskVars, seen>> /\ Still

\* The console that stays open keeps the selection it was started with.
ConsoleOpens ==
    /\ "edit" \in desk.ops /\ active # 0 /\ seen # active
    /\ seen' = active
    /\ UNCHANGED <<desk, diskVars, wish, txn>> /\ Still

\* What a configuration change is built on is still selected.
Unchanged(base) == active = base

\* `--commit-config`: the console's document replaces the one it saw.
BeginEdit ==
    /\ ~Locked /\ "edit" \in desk.ops /\ seen # 0 /\ Room
    /\ Unchanged(seen) /\ Loads(seen)
    /\ txn' = [Opening("edit") EXCEPT !.base = seen, !.slot = gens[seen].slot,
                  !.rel = gens[seen].rel, !.at = "number"]
    /\ UNCHANGED <<desk, diskVars, seen, wish>> /\ Still

\* New resource packs: the same programs, a new configuration, a restart.
BeginResources ==
    /\ ~Locked /\ "resources" \in desk.ops /\ active # 0 /\ Loads(active)
    /\ Room
    /\ txn' = [Opening("resources") EXCEPT !.slot = gens[active].slot,
                  !.rel = gens[active].rel, !.how = ControlOf(gens[active].rel),
                  !.at = "number"]
    /\ UNCHANGED <<desk, diskVars, seen, wish>> /\ Still

\* `--rollback` from the fixed manager: the other slot's own programs.
BeginRollback ==
    /\ ~Locked /\ "rollback" \in desk.ops /\ active # 0 /\ Loads(active) /\ ManagerHolds
    /\ slots[Other(gens[active].slot)] # None /\ Room
    /\ txn' = [Opening("rollback") EXCEPT !.slot = Other(gens[active].slot),
                  !.rel = slots[Other(gens[active].slot)],
                  !.how = ControlOf(Previous), !.at = "pick"]
    /\ UNCHANGED <<desk, diskVars, seen, wish>> /\ Still

Begin == BeginInstall \/ BeginEdit \/ BeginResources \/ BeginRollback

----------------------------------------------------------------------------
(* the spare slot *)

\* The slot that may be replaced: not the selected one, and unused.
Spare == ~InUse(txn.slot) /\ (active # 0 => gens[active].slot # txn.slot)

Retain ==
    /\ At("retain")
    /\ \/ /\ Spare /\ Still
          /\ slots' = [slots EXCEPT ![txn.slot] = None]
          /\ txn' = [txn EXCEPT !.at = "lay", !.prior = slots[txn.slot]]
       \/ ~Spare /\ Stop /\ Still /\ slots' = slots
       \/ Fails /\ slots' = slots
    /\ UNCHANGED <<desk, active, gens, temps, tools, kept, parts, root, store,
                   settings, seen, wish>>

\* Mutant: the candidate always takes slot A's name.
LayInFirst ==
    /\ At("lay")
    /\ \/ /\ slots' = [slots EXCEPT ![First] = txn.rel]
          /\ Go("plan") /\ Still
       \/ /\ \E r \in {txn.prior, None} : slots' = [slots EXCEPT ![txn.slot] = r]
          /\ Fails
    /\ UNCHANGED <<desk, active, gens, temps, tools, kept, parts, root, store,
                   settings, seen, wish>>

\* The candidate takes the slot's name; refused, the former programs return
\* to it, or stay where they were retained.
Lay ==
    /\ At("lay")
    /\ \/ /\ slots' = [slots EXCEPT ![txn.slot] = txn.rel]
          /\ Go("plan") /\ Still
       \/ /\ \E r \in {txn.prior, None} : slots' = [slots EXCEPT ![txn.slot] = r]
          /\ Fails
    /\ UNCHANGED <<desk, active, gens, temps, tools, kept, parts, root, store,
                   settings, seen, wish>>

----------------------------------------------------------------------------
(* the root's tools *)

Brings(n) == Content[txn.rel][n]
Missing == {n \in Tools : Brings(n) # None /\ tools[n] = None}
Retired == {n \in Tools : Brings(n) = None /\ tools[n] # None}
Differing == {n \in Tools : Brings(n) # None /\ tools[n] \notin {None, Brings(n)}}


\* The added names are copied in before the new slot's configuration is
\* checked, each through a part file that must not be there yet.
Plan ==
    /\ At("plan")
    /\ \/ Do("add", SetToSeq(Missing)) /\ Still
       \/ Fails
    /\ UNCHANGED <<desk, diskVars, seen, wish>>

Name == Head(txn.todo)
Rest == Tail(txn.todo)

\* A copy that fails half-way leaves its part file behind.
CopyIn(at, next) ==
    /\ At(at) /\ txn.todo # <<>>
    /\ \/ Name \notin parts /\ parts' = parts \union {Name} /\ Go(next) /\ Still
       \/ Name \in parts /\ parts' = parts /\ Stop /\ Still
       \/ parts' \in {parts, parts \union {Name}} /\ Fails
    /\ UNCHANGED <<desk, active, gens, temps, slots, tools, kept, root, store,
                   settings, seen, wish>>

PlaceIn(at, next, done) ==
    /\ At(at)
    /\ \/ /\ tools' = [tools EXCEPT ![Name] = Brings(Name)]
          /\ parts' = parts \ {Name}
          /\ txn' = [txn EXCEPT !.at = next, !.todo = Rest, !.done = done]
          /\ Still
       \/ tools' = tools /\ parts' = parts /\ Fails
    /\ UNCHANGED <<desk, active, gens, temps, slots, kept, root, store, settings,
                   seen, wish>>

Add == CopyIn("add", "addplace") \/ PlaceIn("addplace", "add", txn.done)

Added ==
    /\ At("add") /\ txn.todo = <<>>
    /\ Go("number")
    /\ UNCHANGED <<desk, diskVars, seen, wish>> /\ Still

\* Mutant: a tool the release no longer brings is removed and not kept.
KeepReplaced ==
    /\ At("apply") /\ txn.todo # <<>>
    /\ \/ /\ Still
          /\ kept' = IF Brings(Name) = None THEN kept
                     ELSE kept \union {[name |-> Name, was |-> tools[Name], gen |-> txn.gen]}
          /\ tools' = [tools EXCEPT ![Name] = None]
          /\ txn' = [txn EXCEPT
                !.done = IF Brings(Name) = None THEN @ ELSE <<<<"kept", Name>>>> \o @,
                !.at = IF Brings(Name) = None THEN "apply" ELSE "copy",
                !.todo = IF Brings(Name) = None THEN Rest ELSE @]
       \/ Fails /\ kept' = kept /\ tools' = tools
    /\ UNCHANGED <<desk, active, gens, temps, slots, parts, root, store, settings,
                   seen, wish>>

\* `apply`: what the release replaces or no longer brings is kept under this
\* generation's name first, the change noted for the undo.
Keep ==
    /\ At("apply") /\ txn.todo # <<>>
    /\ \/ /\ Still
          /\ kept' = kept \union {[name |-> Name, was |-> tools[Name], gen |-> txn.gen]}
          /\ tools' = [tools EXCEPT ![Name] = None]
          /\ txn' = [txn EXCEPT
                !.done = <<<<"kept", Name>>>> \o @,
                !.at = IF Brings(Name) = None THEN "apply" ELSE "copy",
                !.todo = IF Brings(Name) = None THEN Rest ELSE @]
       \/ Fails /\ kept' = kept /\ tools' = tools
    /\ UNCHANGED <<desk, active, gens, temps, slots, parts, root, store, settings,
                   seen, wish>>

\* Mutant: the undo's list is kept oldest first.
PlaceOldestFirst == PlaceIn("place", "apply", txn.done \o <<<<"placed", Name>>>>)

Place == PlaceIn("place", "apply", <<<<"placed", Name>>>> \o txn.done)

\* Every tool is in place.  The line that names where the former ones are kept
\* is said last: when it cannot be, `apply` fails without its undo.
Applied ==
    /\ At("apply") /\ txn.todo = <<>>
    /\ \/ IF txn.op = "upgrade" THEN Go("temp") /\ Still
          ELSE Do("fix", <<"runtime", "ui">>) /\ Still
       \/ /\ txn.done # <<>> /\ Mishap /\ UNCHANGED <<host, boots, life, owners>>
          /\ txn' = [Stopped EXCEPT !.clean = Tail(CleanUp)]
    /\ UNCHANGED <<desk, diskVars, seen, wish>>

Change == SetToSeq(Retired) \o SetToSeq(Differing)

ToolStep == Plan \/ Add \/ Added \/ Keep \/ CopyIn("copy", "place") \/ Place \/ Applied

----------------------------------------------------------------------------
(* the generation *)

\* A manifest is migrated for a slot that reads model folders.
Migrated(shape) == IF shape = "manifest" THEN "vision" ELSE shape
Shape ==
    CASE txn.op = "fresh" -> "plain"
      [] txn.op = "migrate" -> Migrated(desk.shape)
      [] txn.op \in {"upgrade", "rollback"} -> Migrated(gens[txn.base].shape)
      [] OTHER -> gens[txn.base].shape

\* The newest generation prepared for these very programs.
Own == {g \in 1..Len(gens) : gens[g].ready /\ gens[g].slot = txn.slot
                               /\ gens[g].rel = txn.rel}
Newest(S) == CHOOSE g \in S : \A o \in S : o =< g
Manifest == gens[txn.base].shape = "manifest"

Pick ==
    /\ At("pick")
    /\ \/ /\ Still
          /\ IF txn.rel \in Predates \/ Manifest
             THEN IF Own # {} THEN txn' = [txn EXCEPT !.gen = Newest(Own), !.at = "close"]
                  ELSE IF txn.rel \in Predates THEN Stop ELSE Go("number")
             ELSE Go("number")
       \/ Fails
    /\ UNCHANGED <<desk, diskVars, seen, wish>>

\* A fresh generation: its configuration first, the shape its slot reads.
Number ==
    /\ At("number")
    /\ \/ /\ Unchanged(txn.base) /\ Fits(Shape, slots[txn.slot]) /\ Still
          /\ gens' = Append(gens, [slot |-> txn.slot, rel |-> slots[txn.slot],
                                   shape |-> Shape, from |-> txn.base, ready |-> FALSE])
          /\ txn' = [txn EXCEPT !.gen = Len(gens) + 1, !.at = "seal"]
       \/ /\ ~(Unchanged(txn.base) /\ Fits(Shape, slots[txn.slot])) /\ Still
          /\ Stop /\ gens' = gens
       \/ Fails /\ gens' = gens
    /\ UNCHANGED <<desk, active, temps, slots, tools, kept, parts, root, store,
                   settings, seen, wish>>

\* ... and its selection last, once the slot's own actingd accepts it.
Seal ==
    /\ At("seal")
    /\ \/ /\ gens' = [gens EXCEPT ![txn.gen].ready = TRUE] /\ Still
          /\ CASE txn.op = "edit" -> Go("temp")
               [] txn.op = "fresh" -> Do("apply", Change)
               [] OTHER -> Go("close")
       \/ Fails /\ gens' = gens
    /\ UNCHANGED <<desk, active, temps, slots, tools, kept, parts, root, store,
                   settings, seen, wish>>

----------------------------------------------------------------------------
(* the Runtime closed, and started again *)

CloseRuntime ==
    /\ At("close") /\ life.at = "rest"
    /\ Close(txn.how, txn.gen)
    /\ UNCHANGED <<desk, diskVars, seen, wish, txn>>

Closing ==
    /\ At("close")
    /\ CloseStep
    /\ UNCHANGED <<desk, diskVars, seen, wish, txn>>

\* Mutant: a close that failed is taken for one that was made.
RuntimeThoughtClosed ==
    /\ At("close") /\ life.at \in {"closed", "failed"}
    /\ IF txn.op = "resources" THEN Go("temp") ELSE Go("gate")
    /\ UNCHANGED <<desk, diskVars, seen, wish>> /\ Still

RuntimeClosed ==
    /\ At("close") /\ life.at \in {"closed", "failed"}
    /\ IF life.at = "failed" THEN Stop
       ELSE IF txn.op = "resources" THEN Go("temp") ELSE Go("gate")
    /\ UNCHANGED <<desk, diskVars, seen, wish>> /\ Still

\* The target's own verification of the closed data.
Gate ==
    /\ At("gate")
    /\ \/ /\ GateOpen /\ Still
          /\ CASE txn.op = "upgrade" -> Do("apply", Change)
               [] txn.op = "migrate" -> Do("move", <<"runtime", "ui", "config">>)
               [] OTHER -> Go("temp")
       \/ ~GateOpen /\ Stop /\ Still
       \/ Fails
    /\ UNCHANGED <<desk, diskVars, seen, wish>>

StartRuntime ==
    /\ At("start") /\ life.at = "closed"
    /\ Start(txn.gen, ControlOf(gens[txn.gen].rel))
    /\ UNCHANGED <<desk, diskVars, seen, wish, txn>>

Starting ==
    /\ At("start")
    /\ StartStep
    /\ UNCHANGED <<desk, diskVars, seen, wish, txn>>

Stale(n) == root[n] # Entry(txn.rel)

RuntimeStarted ==
    /\ At("start") /\ life.at \in {"started", "stopped", "failed"}
    /\ CASE life.at = "failed" -> Stop
         [] life.at # "failed" /\ txn.op = "upgrade" ->
              Do("entries", SetToSeq({n \in {"runtime", "ui"} : Stale(n)}))
         [] OTHER -> Go("end")
    /\ UNCHANGED <<desk, diskVars, seen, wish>> /\ Still

RuntimeStep == CloseRuntime \/ Closing \/ RuntimeClosed \/ Gate
                 \/ StartRuntime \/ Starting \/ RuntimeStarted

----------------------------------------------------------------------------
(* the root's places: original programs out, fixed entries and manager in *)

\* The fixed manager's program lies in ui\, and goes where ui goes.
Within(n) == IF n = "ui" THEN {"ui", "program"} ELSE {n}
Out(n) == [m \in Places |-> IF m \in Within(n) THEN Nothing ELSE root[m]]
\* What this transaction moved out, under its generation's name.
Was(n) == (CHOOSE k \in store : k.name = n /\ k.gen = txn.gen).was
Back(n) == [m \in Places |-> IF m \in Within(n) THEN Was(m) ELSE root[m]]
MovedOut(n) == [name |-> n, was |-> root[n], gen |-> txn.gen]
Stored(n) == store \union {MovedOut(m) : m \in Within(n)}
Emptied(n) == {k \in store : ~(k.gen = txn.gen /\ k.name \in Within(n))}

RootKept == UNCHANGED <<desk, active, gens, temps, slots, tools, kept, parts,
                        seen, wish>>

\* A directory with a file in use under it does not move, nor one not there.
Movable(n) == root[n].is # "none" /\ (n = "config" \/ ~RootInUse)

Move ==
    /\ At("move") /\ txn.todo # <<>>
    /\ \/ /\ Movable(Name) /\ Still
          /\ root' = Out(Name) /\ store' = Stored(Name)
          /\ txn' = [txn EXCEPT !.todo = Rest, !.moved = <<Name>> \o @]
       \/ ~Movable(Name) /\ root' = root /\ store' = store /\ Stop /\ Still
       \/ root' = root /\ store' = store /\ Fails
    /\ RootKept /\ settings' = settings

Moved ==
    /\ At("move") /\ txn.todo = <<>>
    /\ Do("apply", Change)
    /\ UNCHANGED <<desk, diskVars, seen, wish>> /\ Still

\* stable_entries: a fresh directory each, the new slot's acforward in it.
Fix ==
    /\ At("fix") /\ txn.todo # <<>>
    /\ \/ /\ root[Name].is = "none" /\ Still
          /\ root' = [root EXCEPT ![Name] = Entry(txn.rel)]
          /\ txn' = [txn EXCEPT !.todo = Rest]
       \/ root[Name].is # "none" /\ root' = root /\ Stop /\ Still
       \/ /\ root' \in {root} \union {[root EXCEPT ![Name] = Entry(None)] :
                                        m \in {n \in {Name} : root[n].is = "none"}}
          /\ Fails
    /\ RootKept /\ UNCHANGED <<store, settings>>

Fixed ==
    /\ At("fix") /\ txn.todo = <<>>
    /\ Do("manage", <<"identity", "program">>)
    /\ UNCHANGED <<desk, diskVars, seen, wish>> /\ Still

\* install_manager: a manager already there must verify; the first migration
\* accepts none.
Identified == txn.todo = <<"identity", "program">> /\ root["identity"].is # "none"

Manage ==
    /\ At("manage") /\ txn.todo # <<>>
    /\ \/ /\ ~Identified /\ root[Name].is = "none" /\ Still
          /\ root' = [root EXCEPT ![Name] = Manager(txn.rel)]
          /\ txn' = [txn EXCEPT !.todo = Rest]
       \/ /\ Identified /\ txn.op = "fresh" /\ ManagerHolds /\ Still
          /\ root' = root /\ txn' = [txn EXCEPT !.todo = <<>>]
       \/ /\ IF Identified THEN ~(txn.op = "fresh" /\ ManagerHolds)
             ELSE root[Name].is # "none"
          /\ root' = root /\ Stop /\ Still
       \/ root' = root /\ Fails
    /\ RootKept /\ UNCHANGED <<store, settings>>

Managed ==
    /\ At("manage") /\ txn.todo = <<>>
    /\ Go("settings")
    /\ UNCHANGED <<desk, diskVars, seen, wish>> /\ Still

\* The console's settings name the fixed entries; the first migration writes
\* over the bytes it backed up, and over no others.
SettingsStand == txn.op = "fresh" \/ settings = txn.before.settings

CompareSettings ==
    /\ At("settings")
    /\ \/ SettingsStand /\ Go("write") /\ Still
       \/ ~SettingsStand /\ Stop /\ Still
       \/ Fails
    /\ RootKept /\ UNCHANGED <<root, store, settings>>

WriteSettings ==
    /\ At("write")
    /\ \/ settings' = "ours" /\ Still
          /\ txn' = [txn EXCEPT !.at = "temp", !.wrote = TRUE]
       \/ settings' \in {settings, "torn"} /\ Fails
    /\ RootKept /\ UNCHANGED <<root, store>>

RootStep == Move \/ Moved \/ Fix \/ Fixed \/ Manage \/ Managed
              \/ CompareSettings \/ WriteSettings

----------------------------------------------------------------------------
(* the commit *)

\* The candidate is written beside active.json under its own number, with the
\* selection it replaces compared before and after.
Temp ==
    /\ At("temp")
    /\ \/ /\ Unchanged(txn.base) /\ Loads(txn.gen) /\ txn.gen \notin temps /\ Still
          /\ temps' = temps \union {txn.gen}
          /\ Go("swap")
       \/ /\ ~(Unchanged(txn.base) /\ Loads(txn.gen) /\ txn.gen \notin temps)
          /\ temps' = temps /\ Stop /\ Still
       \/ temps' \in {temps, temps \union {txn.gen}} /\ Fails
    /\ UNCHANGED <<desk, active, gens, slots, tools, kept, parts, root, store,
                   settings, seen, wish>>

Swap ==
    /\ At("swap")
    /\ \/ /\ Unchanged(txn.base) /\ Still
          /\ active' = txn.gen /\ temps' = temps \ {txn.gen}
          /\ txn' = [txn EXCEPT !.at = "said", !.committed = TRUE]
       \/ ~Unchanged(txn.base) /\ Stop /\ Still /\ UNCHANGED <<active, temps>>
       \/ Fails /\ UNCHANGED <<active, temps>>
    /\ UNCHANGED <<desk, gens, slots, tools, kept, parts, root, store, settings,
                   seen, wish>>

\* The log line that ends the commit may fail, the selection already made.
Said ==
    /\ At("said")
    /\ \/ IF txn.op \in {"fresh", "edit"} THEN Go("end") /\ Still
          ELSE Go("start") /\ Still
       \/ Fails
    /\ UNCHANGED <<desk, diskVars, seen, wish>>

CommitStep == Temp \/ Swap \/ Said

----------------------------------------------------------------------------
(* what is taken back *)

Task == IF txn.clean = <<>> THEN "none" ELSE Head(txn.clean)
Cleaning(t) == At("clean") /\ Task = t
\* A task is over; `well` says whether it took back all it had to.
Done(t, well) == txn' = [txn EXCEPT !.clean = Tail(@), !.well = TRUE,
                                     !.ok = IF well THEN @ \union {t} ELSE @]

\* Newest first: a placed tool moves aside, a kept one returns over whatever
\* lies there; one that cannot move is passed over.
Undo ==
    /\ Cleaning("undo") /\ txn.done # <<>>
    /\ LET placed == txn.done[1][1] = "placed"
           n == txn.done[1][2]
           its == {k \in kept : k.name = n /\ k.gen = txn.gen}
       IN \/ /\ tools' = [tools EXCEPT
                   ![n] = IF placed THEN None ELSE (CHOOSE k \in its : TRUE).was]
             /\ kept' = IF placed THEN kept ELSE kept \ its
             /\ txn' = [txn EXCEPT !.done = Tail(@)] /\ Still
          \/ /\ UNCHANGED <<tools, kept, host, boots, life, owners>> /\ Mishap
             /\ txn' = [txn EXCEPT !.done = Tail(@), !.well = FALSE]
    /\ UNCHANGED <<desk, active, gens, temps, slots, parts, root, store, settings,
                   seen, wish>>

Undone ==
    /\ Cleaning("undo") /\ txn.done = <<>>
    /\ Done("undo", txn.well)
    /\ UNCHANGED <<desk, diskVars, seen, wish>> /\ Still

\* A migration whose selection does not come back takes nothing else back.
Stuck == IF txn.op = "migrate" THEN txn' = [txn EXCEPT !.clean = <<>>]
         ELSE Done("takeback", FALSE)

\* restore_before_start: nothing was committed; or the first selection is
\* retained; or the previous one is written again, beside and then over it.
TakeBack ==
    /\ Cleaning("takeback")
    /\ \/ /\ ~txn.committed /\ Still /\ UNCHANGED <<active, temps>>
          /\ IF Unchanged(txn.base) THEN Done("takeback", TRUE) ELSE Stuck
       \/ /\ txn.committed /\ txn.base = 0 /\ active = txn.gen /\ Still
          /\ active' = 0 /\ temps' = temps
          /\ Done("takeback", TRUE)
       \/ /\ txn.committed /\ txn.base # 0 /\ active = txn.gen /\ Still
          /\ Loads(txn.base) /\ -txn.gen \notin temps
          /\ temps' = temps \union {-txn.gen} /\ active' = active
          /\ Go("restore")
       \/ /\ txn.committed /\ Still /\ Stuck /\ UNCHANGED <<active, temps>>
          /\ \/ active # txn.gen
             \/ txn.base # 0 /\ ~(Loads(txn.base) /\ -txn.gen \notin temps)
       \/ /\ txn.committed /\ Mishap /\ Stuck
          /\ UNCHANGED <<host, boots, life, owners>>
          /\ active' \in IF txn.base = 0 /\ active = txn.gen THEN {active, 0} ELSE {active}
          /\ temps' \in IF txn.base = 0 THEN {temps}
                        ELSE {temps, temps \union {-txn.gen}}
    /\ UNCHANGED <<desk, gens, slots, tools, kept, parts, root, store, settings,
                   seen, wish>>

Restore ==
    /\ At("restore")
    /\ LET clean == [txn EXCEPT !.at = "clean"] IN
       \/ /\ active' = txn.base /\ temps' = temps \ {-txn.gen} /\ Still
          /\ txn' = [clean EXCEPT !.committed = FALSE, !.clean = Tail(@),
                                  !.ok = @ \union {"takeback"}]
       \/ /\ UNCHANGED <<host, boots, life, owners>> /\ Mishap
          /\ \/ UNCHANGED <<active, temps>>
             \/ active' = txn.base /\ temps' = temps \ {-txn.gen}
          /\ txn' = [clean EXCEPT !.clean = Tail(@)]
    /\ UNCHANGED <<desk, gens, slots, tools, kept, parts, root, store, settings,
                   seen, wish>>

\* The manager identity this migration made is retained in the backup.
Made == txn.before.root["identity"].is = "none"
Unmanage ==
    /\ Cleaning("unmanage")
    /\ \/ /\ root' = IF Made THEN [root EXCEPT !["identity"] = Nothing] ELSE root
          /\ Done("unmanage", TRUE) /\ Still
       \/ root' = root /\ Done("unmanage", FALSE)
          /\ UNCHANGED <<host, boots, life, owners>> /\ Mishap
    /\ RootKept /\ UNCHANGED <<store, settings>>

\* What stands where an original stood goes aside, the original returns.
PutBack ==
    /\ Cleaning("putback") /\ txn.moved # <<>>
    /\ LET n == Head(txn.moved)
           left == [txn EXCEPT !.moved = Tail(@)]
       IN \/ /\ root' = Back(n) /\ store' = Emptied(n)
             /\ txn' = left /\ Still
          \/ /\ root' \in {root, Out(n)} /\ store' = store /\ Mishap
             /\ txn' = [left EXCEPT !.well = FALSE]
             /\ UNCHANGED <<host, boots, life, owners>>
    /\ RootKept /\ settings' = settings

AllBack ==
    /\ Cleaning("putback") /\ txn.moved = <<>>
    /\ Done("putback", txn.well)
    /\ UNCHANGED <<desk, diskVars, seen, wish>> /\ Still

\* The console's settings, unless somebody wrote them since.
Unset ==
    /\ Cleaning("unset")
    /\ \/ /\ settings = (IF txn.wrote THEN "ours" ELSE txn.before.settings) /\ Still
          /\ settings' = txn.before.settings
          /\ Done("unset", TRUE)
       \/ /\ settings # (IF txn.wrote THEN "ours" ELSE txn.before.settings) /\ Still
          /\ settings' = settings /\ Done("unset", FALSE)
       \/ /\ settings' \in {settings, "torn"} /\ Done("unset", FALSE)
          /\ UNCHANGED <<host, boots, life, owners>> /\ Mishap
    /\ RootKept /\ UNCHANGED <<root, store>>

CleanStep == Undo \/ Undone \/ TakeBack \/ Restore \/ Unmanage \/ PutBack
               \/ AllBack \/ Unset

----------------------------------------------------------------------------
(* after an upgrade: the fixed entries, the fixed manager *)

EntriesEnd == txn' = [txn EXCEPT !.at = "manager", !.todo = <<>>]

\* Each entry that differs: copied beside, moved aside, replaced.  An error
\* takes back this run's own copy and leaves the entries after it alone.
CopyEntry ==
    /\ At("entries")
    /\ \/ txn.todo = <<>> /\ EntriesEnd /\ parts' = parts /\ Still
       \/ /\ txn.todo # <<>> /\ Still
          /\ IF root[Name].is = "entry" /\ Name \notin parts
             THEN parts' = parts \union {Name} /\ Go("easide")
             ELSE parts' = parts /\ EntriesEnd
       \/ /\ txn.todo # <<>> /\ Mishap /\ EntriesEnd
          /\ parts' \in {parts, parts \union {Name}}
          /\ UNCHANGED <<host, boots, life, owners>>
    /\ UNCHANGED <<desk, active, gens, temps, slots, tools, kept, root, store,
                   settings, seen, wish>>

MoveEntry ==
    /\ At("easide")
    /\ \/ /\ root' = [root EXCEPT ![Name] = Nothing] /\ parts' = parts
          /\ Go("eplace") /\ Still
       \/ /\ root' = root /\ parts' = parts \ {Name} /\ EntriesEnd /\ Mishap
          /\ UNCHANGED <<host, boots, life, owners>>
    /\ UNCHANGED <<desk, active, gens, temps, slots, tools, kept, store, settings,
                   seen, wish>>

PlaceEntry ==
    /\ At("eplace")
    /\ parts' = parts \ {Name}
    /\ \/ /\ root' = [root EXCEPT ![Name] = Entry(txn.rel)]
          /\ txn' = [txn EXCEPT !.at = "entries", !.todo = Rest] /\ Still
       \/ /\ root' \in {root, [root EXCEPT ![Name] = txn.before.root[Name]]}
          /\ EntriesEnd /\ Mishap
          /\ UNCHANGED <<host, boots, life, owners>>
    /\ UNCHANGED <<desk, active, gens, temps, slots, tools, kept, store, settings,
                   seen, wish>>

\* An older manager is replaced, unless it is the program that runs here.
RefreshManager ==
    /\ At("manager")
    /\ \/ /\ Go("end") /\ Still /\ UNCHANGED <<root, store>>
       \/ /\ ManagerHolds /\ root["program"] # Manager(txn.rel) /\ Still
          /\ root' = [root EXCEPT !["program"] = Nothing]
          /\ store' = store \union {MovedOut("program")}
          /\ Go("midentity")
    /\ RootKept /\ settings' = settings

MoveIdentity ==
    /\ At("midentity")
    /\ \/ /\ root' = [root EXCEPT !["identity"] = Nothing]
          /\ store' = store \union {MovedOut("identity")}
          /\ Do("mnew", <<"identity", "program">>) /\ Still
       \/ /\ root' \in {root, [root EXCEPT !["program"] = Was("program")]}
          /\ store' = store /\ Go("end") /\ Mishap
          /\ UNCHANGED <<host, boots, life, owners>>
    /\ RootKept /\ settings' = settings

NewManager ==
    /\ At("mnew")
    /\ \/ /\ txn.todo # <<>> /\ Still
          /\ root' = [root EXCEPT ![Name] = Manager(txn.rel)]
          /\ txn' = [txn EXCEPT !.todo = Rest]
       \/ txn.todo = <<>> /\ Go("end") /\ root' = root /\ Still
       \/ /\ txn.todo # <<>> /\ Mishap /\ Go("end")
          /\ UNCHANGED <<host, boots, life, owners>>
          /\ \E p \in {Nothing, Was("program")}, i \in {Nothing, Was("identity")} :
               root' = [root EXCEPT !["program"] = p, !["identity"] = i]
    /\ RootKept /\ UNCHANGED <<store, settings>>

AfterStep == CopyEntry \/ MoveEntry \/ PlaceEntry \/ RefreshManager
               \/ MoveIdentity \/ NewManager

----------------------------------------------------------------------------
(* the end; the process; the others *)

Over == At("end") \/ (At("clean") /\ txn.clean = <<>>)

End ==
    /\ Over
    /\ txn' = NoTxn /\ life' = AtRest
    /\ UNCHANGED <<desk, diskVars, seen, wish, host, boots, owners>> /\ Well

\* The process ends: the lock is free, everything else stays as it is.
Crash ==
    /\ Locked /\ "crash" \in desk.ops
    /\ txn' = NoTxn /\ life' = AtRest
    /\ UNCHANGED <<desk, diskVars, seen, wish, host, boots, owners>> /\ Mishap

TxnStep ==
    \/ Retain \/ Lay \/ ToolStep \/ Pick \/ Number \/ Seal \/ RuntimeStep
    \/ RootStep \/ CommitStep \/ CleanStep \/ AfterStep \/ End

Runtime ==
    /\ \/ HostStep
       \/ active # 0 /\ Loads(active) /\ OtherStarts(active)
       \/ active = 0 /\ OldLayout /\ OtherStarts(0)
    /\ UNCHANGED <<desk, diskVars, seen, wish, txn>>

\* The console's own settings page.
ConsoleSaves ==
    /\ "settings" \in desk.ops /\ settings # "theirs" /\ Mishap
    /\ settings' = "theirs"
    /\ RootKept /\ UNCHANGED <<root, store, txn, host, boots, life, owners>>

\* The person does what an error names: moves an unfinished copy away, puts
\* the manager back from its backup.
PersonClears ==
    /\ ~Locked /\ parts # {}
    /\ parts' = {}
    /\ UNCHANGED <<desk, active, gens, temps, slots, tools, kept, root, store,
                   settings, seen, wish, txn>> /\ Still

PersonRepairs ==
    /\ ~Locked /\ active # 0 /\ ~ManagerHolds
    /\ \E k \in {o \in store : o.was.is = "manager" /\ o.name = "program"} :
         root' = [root EXCEPT !["program"] = k.was, !["identity"] = k.was]
    /\ RootKept /\ UNCHANGED <<store, settings, txn>> /\ Still

\* A Runtime of programs no longer selected keeps their slot in use.
PersonStops ==
    /\ ~Locked /\ Up /\ active # 0 /\ host.gen # active
    /\ host' = NoHost
    /\ UNCHANGED <<desk, diskVars, seen, wish, txn, boots, life, owners>> /\ Well

Person == PersonClears \/ PersonRepairs \/ PersonStops

Idle == ~Locked /\ UNCHANGED vars

Next ==
    \/ \E r \in Releases : Wish(r)
    \/ Begin \/ TxnStep \/ Crash \/ Runtime
    \/ ConsoleOpens \/ ConsoleSaves \/ Person
    \/ Idle

Init ==
    /\ desk \in Desks
    /\ active = desk.active /\ gens = desk.made /\ slots = desk.slots
    /\ tools = desk.tools /\ root = desk.root /\ host = desk.host
    /\ temps = {} /\ kept = {} /\ parts = {} /\ settings = "before"
    /\ store = {}
    /\ seen = 0 /\ wish = NoWish /\ txn = NoTxn
    /\ boots = NoBoot /\ life = AtRest
    /\ owners = desk.host.owner /\ mishaps = desk.mishaps

Spec == Init /\ [][Next]_vars
Fairness ==
    /\ WF_vars(TxnStep) /\ WF_vars(Begin)
    /\ WF_vars(\E r \in Releases : Wish(r))
    /\ WF_vars(HostStep /\ UNCHANGED <<desk, diskVars, seen, wish, txn>>)
    /\ SF_vars(PersonClears) /\ SF_vars(PersonRepairs) /\ SF_vars(PersonStops)
FairSpec == Spec /\ Fairness

----------------------------------------------------------------------------
(* properties *)

TypeOK ==
    /\ active \in 0..Len(gens)
    /\ \A g \in 1..Len(gens) : gens[g].slot \in Slots /\ gens[g].from \in 0..Len(gens)
                                 /\ gens[g].ready \in BOOLEAN
    /\ temps \subseteq -Len(gens)..Len(gens)
    /\ slots \in [Slots -> Releases \union {None}]
    /\ \A n \in Tools : tools[n] = None \/ \E r \in Releases : tools[n] = Content[r][n]
    /\ seen \in 0..Len(gens)
    /\ txn.gen \in 0..Len(gens) /\ txn.base \in 0..Len(gens)

\* At every instant, a crash's instant included, the selection names programs
\* that are whole in their slot and a configuration those programs read.
SelectionLoads == active # 0 => Loads(active) /\ Fits(gens[active].shape, gens[active].rel)

\* The Runtime an operation met when it began to close is gone before the
\* selection, the root's places or its tools are changed under it.
SwitchIsCold ==
    [][ (txn.op \in {"upgrade", "migrate", "rollback", "resources"}
         /\ (active' # active \/ kept' # kept \/ \E n \in {"runtime", "ui"} : root'[n] # root[n]))
        => ~(Up /\ host.owner = life.met) ]_vars

\* What an operation took back is as it was when it began (undo, take_back, restore): the
\* selection; the tools, where it undid them - one whose last tool line failed does not; the root
\* and its configuration, which "original installation restored" is said of.
RestoredIsOriginal ==
    At("clean") /\ txn.clean = <<>> =>
      /\ "takeback" \in txn.ok => active = txn.base
      /\ "undo" \in txn.ok => \A n \in Tools : txn.before.tools[n] # None
                                  => tools[n] = txn.before.tools[n]
      /\ {"takeback", "unmanage", "putback", "unset"} \subseteq txn.ok
           => root = txn.before.root /\ settings \in {txn.before.settings, "theirs"}

\* What the root held when acsetup first came to it, tools and first layout,
\* is in its place or was moved out of it, never overwritten.
NothingLost ==
    /\ \A n \in Tools : LET was == desk.tools[n] IN
         was = None \/ tools[n] = was \/ \E k \in kept : k.name = n /\ k.was = was
    /\ \A n \in {"runtime", "ui", "config"} : desk.root[n].is \in {"programs", "config"}
         => root[n] = desk.root[n] \/ \E k \in store : k.name = n /\ k.was = desk.root[n]

\* An upgrade that is asked for again after each failure and each crash is
\* in the end committed, and stays.
Settled == active # 0 /\ gens[active].rel \in desk.wants
UpgradeSettles == (desk.active # 0 /\ desk.ops \subseteq {"crash"}) => <>[]Settled
=============================================================================
