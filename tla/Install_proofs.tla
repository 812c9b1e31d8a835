---------------------------- MODULE Install_proofs ----------------------------
(***************************************************************************)
(* For any installation and any sequence of acsetup's operations on it,    *)
(* whichever stages fail and wherever the process ends: the selection      *)
(* always loads, nothing of the root is lost, what is said to be restored  *)
(* is, and nothing is switched under a Runtime that runs.                  *)
(***************************************************************************)
EXTENDS Install, FiniteSetTheorems, SequenceTheorems, TLAPS

-----------------------------------------------------------------------------
(* What every variable is. *)

Ops == {"none", "fresh", "upgrade", "migrate", "rollback", "resources", "edit"}
Making == {"fresh", "upgrade", "migrate"}
\* Those that replace a selection.
Replacing == {"upgrade", "rollback", "resources", "edit"}
\* The stages of an operation; the ones of `Laying` come first and touch no file in use.
Laying == {"retain", "lay", "plan", "add", "addplace", "number", "seal"}
Tooling == {"apply", "copy", "place"}
Managing == {"fix", "manage", "settings", "write"}
Selecting == {"temp", "swap", "said"}
Refreshing == {"entries", "easide", "eplace", "manager", "midentity", "mnew"}
Ending == {"end", "clean", "restore"}
Stages == {"rest", "pick", "close", "gate", "move", "start"} \union Laying \union Tooling
            \union Managing \union Selecting \union Refreshing \union Ending
Course(op) ==
    CASE op = "fresh" -> Laying \union Tooling \union Managing \union Selecting \union Ending
      [] op = "upgrade" -> Laying \union {"close", "gate", "start"} \union Tooling \union Selecting
                             \union Refreshing \union Ending
      [] op = "migrate" -> Laying \union {"close", "gate", "move", "start"} \union Tooling
                             \union Managing \union Selecting \union Ending
      [] op = "rollback" -> {"pick", "number", "seal", "close", "gate", "start"}
                              \union Selecting \union Ending
      [] op = "resources" -> {"number", "seal", "close", "start"} \union Selecting \union Ending
      [] op = "edit" -> {"number", "seal"} \union Selecting \union Ending
      [] OTHER -> {"rest"}
\* The stages in which nothing was moved out of the root yet.
Early == {"rest", "pick", "close", "gate"} \union Laying
\* Those in which the generation has no number yet, or may have none.
Numberless == {"rest", "pick", "clean", "restore"} \union (Laying \ {"seal"})

Tasks == {"undo", "takeback", "unmanage", "putback", "unset"}
\* What may be left to take back.
Chains == {<<>>, <<"undo">>, <<"takeback">>, <<"undo", "takeback">>,
           <<"undo", "takeback", "unmanage", "putback", "unset">>,
           <<"takeback", "undo", "unmanage", "putback", "unset">>,
           <<"takeback", "unmanage", "putback", "unset">>,
           <<"undo", "unmanage", "putback", "unset">>,
           <<"unmanage", "putback", "unset">>, <<"putback", "unset">>, <<"unset">>}
Items(s) == {s[i] : i \in 1 .. Len(s)}
Left(t) == t \in Items(txn.clean)

\* What a first migration moved out, newest first.
MoveLists == {<<>>, <<"runtime">>, <<"ui", "runtime">>, <<"config", "ui", "runtime">>}
MovePlans == {<<<<"runtime", "ui", "config">>, <<>>>>, <<<<"ui", "config">>, <<"runtime">>>>,
              <<<<"config">>, <<"ui", "runtime">>>>, <<<<>>, <<"config", "ui", "runtime">>>>}

Settings == {"before", "ours", "theirs", "torn"}
AllFiles == UNION {FilesOf(n) : n \in Tools}
Befores == [tools : [Tools -> AllFiles], root : [Places -> Things],
            settings : Settings]
Txns == [op : Ops, at : Stages, rel : Releases \union {None}, base : Nat, gen : Nat,
         slot : Slots, prior : Releases \union {None}, how : {"cold", "transition"},
         todo : Seq(Tools \union Places), done : Seq({"kept", "placed"} \X Tools),
         moved : MoveLists, clean : Chains, ok : SUBSET Tasks, well : BOOLEAN,
         committed : BOOLEAN, wrote : BOOLEAN, before : Befores]
Generations == [slot : Slots, rel : Releases \union {None}, shape : Shapes, from : Nat,
                ready : BOOLEAN]
Wishes == [kind : {"none", "upgrade", "fresh"}, rel : Releases \union {None},
           agreed : Releases \union {None}]

DiskTypes ==
    /\ desk \in DeskTypes
    /\ gens \in Seq(Generations) /\ \A g \in 1 .. Len(gens) : gens[g].from \in 0 .. Len(gens)
    /\ active \in 0 .. Len(gens) /\ temps \subseteq (-Len(gens)) .. Len(gens)
    /\ slots \in [Slots -> Releases \union {None}]
    /\ tools \in [Tools -> AllFiles] /\ \A n \in Tools : tools[n] \in FilesOf(n)
    /\ root \in [Places -> Things] /\ settings \in Settings
WishTypes ==
    /\ seen \in 0 .. Len(gens) /\ wish \in Wishes
    /\ wish.kind # "none" => wish.rel \in Releases
TxnTypes ==
    /\ txn \in Txns
    /\ txn.gen \in 0 .. Len(gens) /\ txn.base \in 0 .. Len(gens)
    /\ txn.op \in Making => txn.rel \in Releases
    /\ txn.op \in Replacing => txn.base # 0
    /\ txn.at \in Course(txn.op)
    /\ txn.at \notin Numberless => txn.gen # 0
Types == DiskTypes /\ WishTypes /\ TxnTypes

-----------------------------------------------------------------------------
(* The selection. *)

SelectionRight ==
    /\ \A g \in 1 .. Len(gens) : Fits(gens[g].shape, gens[g].rel)
    /\ active # 0 => Loads(active)
    /\ txn.at = "lay" /\ active # 0 => gens[active].slot # txn.slot
    /\ txn.at = "swap" => Loads(txn.gen)
    /\ txn.at = "restore" => Loads(txn.base)

-----------------------------------------------------------------------------
(* The Runtime met. *)

Hosts == [owner : Nat, gen : Nat, trans : Nat,
          phase : {"open", "expired", "released", "draining", "drained", "held", "preparing"}]
BootTypes == [pid : Nat, gen : Nat, trans : Nat, how : {"cold", "transition"}]
LifeStages == {"rest", "status", "shutdown", "begin", "gate", "failed", "beginquery", "drain",
               "commit", "closed", "stopped", "discover", "probe", "held", "started", "release",
               "prepare", "releasequery"}
LifeTypes == [at : LifeStages,
              how : {"cold", "transition"}, trans : Nat, target : Nat, was : BOOLEAN,
              pid : Nat, met : Nat]
\* No Runtime that starts is the one met.
Apart ==
    /\ host \in Hosts /\ boots \in BootTypes /\ life \in LifeTypes /\ owners \in Nat
    /\ host.owner <= owners /\ boots.pid <= owners /\ life.met <= owners
    /\ boots.pid # 0 => boots.pid # host.owner /\ boots.pid # life.met
Gone == Up => host.owner # life.met
\* The stages after a close, for an operation that has one.
Restarting == {"upgrade", "migrate", "rollback", "resources"}
AfterClose == \/ txn.at \in {"gate", "move", "start", "restore"} \union Tooling \union Managing
                              \union Selecting \union Refreshing
              \/ txn.at = "clean" /\ txn.clean # <<>>
ColdRight ==
    /\ Apart
    /\ life.at = "closed" => Gone
    /\ txn.op \in Restarting /\ AfterClose => Gone

-----------------------------------------------------------------------------
(* The root's tools. *)

In(x, s) == \E i \in 1 .. Len(s) : s[i] = x
IsKept(n) == In(<<"kept", n>>, txn.done)
\* A tool is kept once, and placed after that.
KeptOnce(s) == \A i, j \in 1 .. Len(s) : s[i][1] = "kept" /\ s[i] = s[j] => i = j
PlacedOverKept(s) ==
    \A i \in 1 .. Len(s) : s[i][1] = "placed" =>
        \E j \in 1 .. Len(s) : i < j /\ s[j] = <<"kept", s[i][2]>>
Once(s) == \A i, j \in 1 .. Len(s) : s[i] = s[j] => i = j

Cleans == txn.at \in {"clean", "restore"}
\* What an operation found, it can still take back.
ToBeUndone == Locked /\ (Cleans => Left("undo") /\ (Task = "undo" => txn.well))
Stands(n) == \/ tools[n] = txn.before.tools[n]
             \/ txn.before.tools[n] = None /\ tools[n] = Brings(n)
\* A tool there at first is kept.
Safe(n) == desk.tools[n] = None \/ \E k \in kept : k.name = n /\ k.was = desk.tools[n]

RecordsRight ==
    \A k \in kept : k.name \in Tools /\ k.was \in FilesOf(k.name) /\ k.gen \in 1 .. Len(gens)
DoneRight ==
    /\ KeptOnce(txn.done) /\ PlacedOverKept(txn.done)
    /\ \A n \in Tools : IsKept(n) =>
          Safe(n) /\ \E k \in kept : k.name = n /\ k.gen = txn.gen
    /\ txn.op \in Making =>
          \A k \in kept : k.gen = txn.gen =>
             /\ IsKept(k.name) => k.was = txn.before.tools[k.name]
             /\ ~Cleans => IsKept(k.name)
    /\ txn.at \in Early \union {"move"} => txn.done = <<>>
StandRight == ToBeUndone => \A n \in Tools : IsKept(n) \/ Stands(n)
TodoFits(at, todo) ==
    /\ at \in {"add", "addplace"} =>
          \A i \in 1 .. Len(todo) :
             todo[i] \in Tools /\ txn.before.tools[todo[i]] = None /\ Safe(todo[i])
    /\ at \in {"addplace", "copy", "place"} => todo # <<>>
    /\ at \in Tooling =>
          /\ Once(todo)
          /\ \A i \in 1 .. Len(todo) :
                /\ todo[i] \in Tools /\ txn.before.tools[todo[i]] # None
                /\ IsKept(todo[i]) <=> at # "apply" /\ i = 1
TodoRight == TodoFits(txn.at, txn.todo)
ToolsKept == \A n \in Tools : tools[n] = desk.tools[n] \/ Safe(n)
ToolsRight == RecordsRight /\ DoneRight /\ StandRight /\ TodoRight /\ ToolsKept

-----------------------------------------------------------------------------
(* The root's places. *)

First3 == {"runtime", "ui", "config"}
HasMoved(s, m) == \E i \in 1 .. Len(s) : m \in Within(s[i])
IsMoved(m) == HasMoved(txn.moved, m)
SafePlace(n) == desk.root[n].is \in {"programs", "config"} =>
                    \E k \in store : k.name = n /\ k.was = desk.root[n]
ToBePutBack == ~Cleans \/ (Left("putback") /\ (Task = "putback" => txn.well))
BackupsRight ==
    \A k \in store : k.name \in Places /\ k.was \in Things /\ k.gen \in 1 .. Len(gens)
MovesFit(at, todo, moved) ==
    /\ txn.op # "migrate" \/ at \in Early => moved = <<>>
    /\ at = "move" => <<todo, moved>> \in MovePlans
    /\ txn.op = "migrate" /\ at \notin Early \union {"move", "clean", "restore"} =>
          moved = <<"config", "ui", "runtime">>
MovesRight ==
    /\ MovesFit(txn.at, txn.todo, txn.moved)
    /\ \A m \in Places : IsMoved(m) =>
          /\ m \in First3 => SafePlace(m)
          /\ \E k \in store : k.name = m /\ k.gen = txn.gen
MigrationRight ==
    txn.op = "migrate" =>
        /\ \A k \in store : k.gen = txn.gen =>
              /\ IsMoved(k.name) => k.was = txn.before.root[k.name]
              /\ ~Cleans => IsMoved(k.name)
        /\ ToBePutBack => \A m \in Places \ {"identity"} : IsMoved(m) \/ root[m] = txn.before.root[m]
        /\ txn.before.root["identity"].is = "none" \/ root["identity"] = txn.before.root["identity"]
EntriesFit(at, todo) ==
    /\ at = "fix" => todo \in {<<"runtime", "ui">>, <<"ui">>, <<>>}
    /\ at \in {"manage", "mnew"} => todo \in {<<"identity", "program">>, <<"program">>, <<>>}
    /\ at \in {"entries", "easide", "eplace"} =>
          \A i \in 1 .. Len(todo) : todo[i] \in {"runtime", "ui"}
    /\ at \in {"easide", "eplace"} => todo # <<>>
    /\ at = "easide" => root[Head(todo)].is = "entry"
    /\ at = "eplace" => root[Head(todo)].is = "none"
    /\ at \in {"midentity", "mnew"} => \E k \in store : k.name = "program" /\ k.gen = txn.gen
    /\ at = "mnew" => \E k \in store : k.name = "identity" /\ k.gen = txn.gen
EntriesRight == EntriesFit(txn.at, txn.todo)
PlacesKept ==
    \A n \in First3 : root[n] = desk.root[n] \/ SafePlace(n)
RootRight == BackupsRight /\ MovesRight /\ MigrationRight /\ EntriesRight /\ PlacesKept

-----------------------------------------------------------------------------
(* What is said to be restored. *)

CleanRight ==
    /\ ~Cleans => txn.ok = {} /\ txn.clean = <<>>
    /\ ~txn.well => txn.at = "clean" /\ Task \in {"undo", "putback"}
    /\ txn.at = "restore" => Task = "takeback"
    /\ \A t \in txn.ok : ~Left(t)
    /\ txn.op # "migrate" =>
          /\ txn.clean \in {<<>>, <<"undo">>, <<"takeback">>, <<"undo", "takeback">>}
          /\ txn.ok \subseteq {"undo", "takeback"}
    /\ txn.op \notin Making => "undo" \notin txn.ok /\ ~Left("undo")
    /\ "takeback" \in txn.ok => active = txn.base
    /\ "undo" \in txn.ok => \A n \in Tools : Stands(n)
    /\ "unmanage" \in txn.ok => root["identity"] = txn.before.root["identity"]
    /\ "putback" \in txn.ok => \A m \in Places \ {"identity"} : root[m] = txn.before.root[m]
    /\ "unset" \in txn.ok => settings \in {txn.before.settings, "theirs"}

IInv == Types /\ SelectionRight /\ ColdRight /\ ToolsRight /\ RootRight /\ CleanRight


-----------------------------------------------------------------------------
(* Slots, sets as sequences, chains. *)

LEMMA OtherSlot ==
  ASSUME NEW s \in Slots
  PROVE  Other(s) \in Slots /\ Other(s) # s
<1>1. \E o \in Slots : o # s
  <2> SUFFICES ASSUME Slots \subseteq {s}  PROVE FALSE
    OBVIOUS
  <2>1. IsFiniteSet({s}) /\ Cardinality({s}) = 1
    BY FS_Singleton
  <2>2. Cardinality(Slots) <= Cardinality({s})
    BY <2>1, FS_Subset
  <2> QED  BY <2>1, <2>2, InstallAssumption
<1> QED  BY <1>1 DEF Other

LEMMA Listed ==
  ASSUME NEW S, IsFiniteSet(S)
  PROVE  SetToSeq(S) \in Seq(S) /\ Once(SetToSeq(S))
<1> DEFINE n == Cardinality(S)
           s == SetToSeq(S)
<1>1. n \in Nat /\ \E f : f \in Bijection(1 .. n, S)
  BY FS_CardinalityType DEF ExistsBijection
<1>2. PICK f : f \in Bijection(1 .. n, S)
  BY <1>1
<1>3. f \in [1 .. n -> S] /\ IsInjective(f)
  BY <1>2 DEF Bijection, Injection, IsInjective
<1>4. s \in [1 .. n -> S] /\ IsInjective(s)
  BY <1>3 DEF SetToSeq
<1> HIDE DEF s, n
<1>5. s \in Seq(S) /\ Len(s) = n
  BY <1>1, <1>4
<1>6. Once(s)
  BY <1>4, <1>5 DEF Once, IsInjective
<1> QED  BY <1>5, <1>6 DEF s

\* What a release changes is in no order of importance, each name once.
LEMMA ChangeRight ==
  /\ Change \in Seq(Tools) /\ Once(Change)
  /\ \A i \in 1 .. Len(Change) : Change[i] \in Retired \union Differing
<1> DEFINE r == SetToSeq(Retired)
           d == SetToSeq(Differing)
<1>1. IsFiniteSet(Retired) /\ IsFiniteSet(Differing)
  BY FS_Subset, InstallAssumption DEF Retired, Differing
<1>2. r \in Seq(Retired) /\ Once(r)
  BY <1>1, Listed
<1>3. d \in Seq(Differing) /\ Once(d)
  BY <1>1, Listed
<1>4. Retired \subseteq Tools /\ Differing \subseteq Tools /\ Retired \cap Differing = {}
  BY DEF Retired, Differing
<1>5. Change = r \o d
  BY DEF Change
<1> HIDE DEF r, d
<1>6. Change \in Seq(Tools) /\ Len(Change) = Len(r) + Len(d)
  BY <1>2, <1>3, <1>4, <1>5
<1>7. \A i \in 1 .. Len(Change) :
         \/ i \in 1 .. Len(r) /\ Change[i] = r[i] /\ r[i] \in Retired
         \/ i - Len(r) \in 1 .. Len(d) /\ Change[i] = d[i - Len(r)] /\ d[i - Len(r)] \in Differing
  BY <1>2, <1>3, <1>5
<1>8. ASSUME NEW i \in 1 .. Len(Change), NEW j \in 1 .. Len(Change), Change[i] = Change[j]
      PROVE  i = j
  <2>1. CASE i \in 1 .. Len(r) /\ j \in 1 .. Len(r) /\ Change[i] = r[i] /\ Change[j] = r[j]
    BY <1>2, <1>8, <2>1 DEF Once
  <2>2. CASE /\ i - Len(r) \in 1 .. Len(d) /\ j - Len(r) \in 1 .. Len(d)
             /\ Change[i] = d[i - Len(r)] /\ Change[j] = d[j - Len(r)]
    <3>1. i - Len(r) = j - Len(r)
      BY <1>3, <1>8, <2>2 DEF Once
    <3> QED  BY <1>2, <1>6, <3>1
  <2> QED  BY <1>4, <1>7, <1>8, <2>1, <2>2
<1>9. Once(Change)
  BY <1>8 DEF Once
<1>10. \A i \in 1 .. Len(Change) : Change[i] \in Retired \union Differing
  BY <1>7
<1> QED  BY <1>6, <1>9, <1>10

LEMMA MissingListed ==
  /\ SetToSeq(Missing) \in Seq(Tools)
  /\ \A i \in 1 .. Len(SetToSeq(Missing)) : SetToSeq(Missing)[i] \in Missing
<1>1. IsFiniteSet(Missing)
  BY FS_Subset, InstallAssumption DEF Missing
<1>2. SetToSeq(Missing) \in Seq(Missing)
  BY <1>1, Listed
<1>3. Missing \subseteq Tools
  BY DEF Missing
<1> QED  BY <1>2, <1>3

LEMMA Wider ==
  ASSUME NEW S, NEW T, S \subseteq T, NEW s \in Seq(S)
  PROVE  s \in Seq(T) /\ \A i \in 1 .. Len(s) : s[i] \in S
OBVIOUS

LEMMA StaleListed ==
  LET S == {n \in {"runtime", "ui"} : Stale(n)} IN
    SetToSeq(S) \in Seq(Places) /\ \A i \in 1 .. Len(SetToSeq(S)) : SetToSeq(S)[i] \in {"runtime", "ui"}
<1> DEFINE S == {n \in {"runtime", "ui"} : Stale(n)}
<1>1. IsFiniteSet({"runtime", "ui"})
  <2>1. IsFiniteSet({"runtime"}) /\ IsFiniteSet({"ui"})
    BY FS_Singleton
  <2>2. IsFiniteSet({"runtime"} \union {"ui"})
    BY <2>1, FS_Union
  <2>3. {"runtime", "ui"} = {"runtime"} \union {"ui"}
    OBVIOUS
  <2> QED  BY <2>2, <2>3
<1>2. S \subseteq {"runtime", "ui"}
  OBVIOUS
<1>3. IsFiniteSet(S)
  BY <1>1, <1>2, FS_Subset
<1>4. SetToSeq(S) \in Seq(S)
  BY <1>3, Listed
<1>5. S \subseteq Places
  BY <1>2 DEF Places
<1> HIDE DEF S
<1>6. SetToSeq(S) \in Seq(Places) /\ \A i \in 1 .. Len(SetToSeq(S)) : SetToSeq(S)[i] \in S
  BY <1>4, <1>5, Wider
<1>7. \A i \in 1 .. Len(SetToSeq(S)) : SetToSeq(S)[i] \in {"runtime", "ui"}
  BY <1>2, <1>6
<1> QED  BY <1>6, <1>7 DEF S

\* One task less: each is named once.
LEMMA ChainTail ==
  ASSUME NEW c \in Chains, c # <<>>
  PROVE  /\ Tail(c) \in Chains /\ Head(c) \in Items(c)
         /\ \A t \in Items(Tail(c)) : t \in Items(c) /\ t # Head(c)
<1> DEFINE P(x) == /\ Tail(x) \in Chains /\ Head(x) \in Items(x)
                   /\ \A t \in Items(Tail(x)) : t \in Items(x) /\ t # Head(x)
<1>1. CASE c = <<"undo">>
  BY <1>1 DEF Chains, Items
<1>2. CASE c = <<"takeback">>
  BY <1>2 DEF Chains, Items
<1>3. CASE c = <<"undo", "takeback">>
  BY <1>3 DEF Chains, Items
<1>4. CASE c = <<"undo", "takeback", "unmanage", "putback", "unset">>
  BY <1>4 DEF Chains, Items
<1>5. CASE c = <<"takeback", "undo", "unmanage", "putback", "unset">>
  BY <1>5 DEF Chains, Items
<1>6. CASE c = <<"takeback", "unmanage", "putback", "unset">>
  BY <1>6 DEF Chains, Items
<1>7. CASE c = <<"undo", "unmanage", "putback", "unset">>
  BY <1>7 DEF Chains, Items
<1>8. CASE c = <<"unmanage", "putback", "unset">>
  BY <1>8 DEF Chains, Items
<1>9. CASE c = <<"putback", "unset">>
  BY <1>9 DEF Chains, Items
<1>10. CASE c = <<"unset">>
  BY <1>10 DEF Chains, Items
<1> QED  BY <1>1, <1>2, <1>3, <1>4, <1>5, <1>6, <1>7, <1>8, <1>9, <1>10 DEF Chains


-----------------------------------------------------------------------------
(* What each assignment to the transaction leaves as it was. *)

\* It is still the same operation, on the same things.
Core == /\ txn'.op = txn.op /\ txn'.rel = txn.rel /\ txn'.base = txn.base
        /\ txn'.slot = txn.slot /\ txn'.before = txn.before
Marks == txn'.clean = txn.clean /\ txn'.ok = txn.ok /\ txn'.well = txn.well
Work == txn'.gen = txn.gen /\ txn'.done = txn.done /\ txn'.moved = txn.moved

LEMMA CleanUpIsChain == CleanUp \in Chains
BY DEF CleanUp, Chains, Applying, Committing

LEMMA GoFields ==
  ASSUME txn \in Txns,
         NEW s \in Stages,
         txn' = [txn EXCEPT !.at = s]
  PROVE  /\ txn' \in Txns /\ Core /\ Marks /\ Work
         /\ txn'.at = s /\ txn'.todo = txn.todo
<1>1. txn' \in Txns
  BY DEF Txns
<1>2. Core /\ Marks /\ Work
  BY DEF Txns, Core, Marks, Work
<1>3. /\ txn'.at = s /\ txn'.todo = txn.todo
  BY DEF Txns
<1> QED  BY <1>1, <1>2, <1>3

LEMMA DoFields ==
  ASSUME txn \in Txns,
         NEW s \in Stages,
         NEW l \in Seq(Tools \union Places),
         txn' = [txn EXCEPT !.at = s, !.todo = l]
  PROVE  /\ txn' \in Txns /\ Core /\ Marks /\ Work
         /\ txn'.at = s /\ txn'.todo = l
<1>1. txn' \in Txns
  BY DEF Txns
<1>2. Core /\ Marks /\ Work
  BY DEF Txns, Core, Marks, Work
<1>3. /\ txn'.at = s /\ txn'.todo = l
  BY DEF Txns
<1> QED  BY <1>1, <1>2, <1>3

LEMMA StopFields ==
  ASSUME txn \in Txns,
         Stop
  PROVE  /\ txn' \in Txns /\ Core /\ Work
         /\ txn'.at = "clean" /\ txn'.todo = <<>> /\ txn'.clean = CleanUp
         /\ txn'.ok = txn.ok /\ txn'.well = txn.well
<1>0. "clean" \in Stages /\ <<>> \in Seq(Tools \union Places)
  BY DEF Stages, Ending
<1>1. txn' \in Txns
  BY <1>0, CleanUpIsChain DEF Txns, Stop, Stopped
<1>2. Core /\ Work
  BY DEF Txns, Core, Work, Stop, Stopped
<1>3. /\ txn'.at = "clean" /\ txn'.todo = <<>> /\ txn'.clean = CleanUp
      /\ txn'.ok = txn.ok /\ txn'.well = txn.well
  BY DEF Txns, Stop, Stopped
<1> QED  BY <1>1, <1>2, <1>3

LEMMA RetainFields ==
  ASSUME txn \in Txns,
         NEW s \in Stages,
         NEW r \in Releases \union {None},
         txn' = [txn EXCEPT !.at = s, !.prior = r]
  PROVE  /\ txn' \in Txns /\ Core /\ Marks /\ Work
         /\ txn'.at = s /\ txn'.todo = txn.todo
<1>1. txn' \in Txns
  BY DEF Txns
<1>2. Core /\ Marks /\ Work
  BY DEF Txns, Core, Marks, Work
<1>3. /\ txn'.at = s /\ txn'.todo = txn.todo
  BY DEF Txns
<1> QED  BY <1>1, <1>2, <1>3

LEMMA PlaceFields ==
  ASSUME txn \in Txns,
         NEW s \in Stages,
         NEW l \in Seq(Tools \union Places),
         NEW d \in Seq({"kept", "placed"} \X Tools),
         txn' = [txn EXCEPT !.at = s, !.todo = l, !.done = d]
  PROVE  /\ txn' \in Txns /\ Core /\ Marks
         /\ txn'.at = s /\ txn'.gen = txn.gen /\ txn'.todo = l /\ txn'.done = d
         /\ txn'.moved = txn.moved
<1>1. txn' \in Txns
  BY DEF Txns
<1>2. Core /\ Marks
  BY DEF Txns, Core, Marks
<1>3. /\ txn'.at = s /\ txn'.gen = txn.gen /\ txn'.todo = l /\ txn'.done = d
      /\ txn'.moved = txn.moved
  BY DEF Txns
<1> QED  BY <1>1, <1>2, <1>3

LEMMA KeepFields ==
  ASSUME txn \in Txns,
         NEW d \in Seq({"kept", "placed"} \X Tools),
         NEW s \in Stages,
         NEW l \in Seq(Tools \union Places),
         txn' = [txn EXCEPT !.done = d, !.at = s, !.todo = l]
  PROVE  /\ txn' \in Txns /\ Core /\ Marks
         /\ txn'.at = s /\ txn'.gen = txn.gen /\ txn'.todo = l /\ txn'.done = d
         /\ txn'.moved = txn.moved
<1>1. txn' \in Txns
  BY DEF Txns
<1>2. Core /\ Marks
  BY DEF Txns, Core, Marks
<1>3. /\ txn'.at = s /\ txn'.gen = txn.gen /\ txn'.todo = l /\ txn'.done = d
      /\ txn'.moved = txn.moved
  BY DEF Txns
<1> QED  BY <1>1, <1>2, <1>3

LEMMA NumberFields ==
  ASSUME txn \in Txns,
         NEW g \in Nat,
         NEW s \in Stages,
         txn' = [txn EXCEPT !.gen = g, !.at = s]
  PROVE  /\ txn' \in Txns /\ Core /\ Marks
         /\ txn'.at = s /\ txn'.gen = g /\ txn'.todo = txn.todo
         /\ txn'.done = txn.done /\ txn'.moved = txn.moved
<1>1. txn' \in Txns
  BY DEF Txns
<1>2. Core /\ Marks
  BY DEF Txns, Core, Marks
<1>3. /\ txn'.at = s /\ txn'.gen = g /\ txn'.todo = txn.todo
      /\ txn'.done = txn.done /\ txn'.moved = txn.moved
  BY DEF Txns
<1> QED  BY <1>1, <1>2, <1>3

LEMMA MoveFields ==
  ASSUME txn \in Txns,
         NEW l \in Seq(Tools \union Places),
         NEW m \in MoveLists,
         txn' = [txn EXCEPT !.todo = l, !.moved = m]
  PROVE  /\ txn' \in Txns /\ Core /\ Marks
         /\ txn'.at = txn.at /\ txn'.gen = txn.gen /\ txn'.todo = l
         /\ txn'.done = txn.done /\ txn'.moved = m
<1>1. txn' \in Txns
  BY DEF Txns
<1>2. Core /\ Marks
  BY DEF Txns, Core, Marks
<1>3. /\ txn'.at = txn.at /\ txn'.gen = txn.gen /\ txn'.todo = l
      /\ txn'.done = txn.done /\ txn'.moved = m
  BY DEF Txns
<1> QED  BY <1>1, <1>2, <1>3

LEMMA NextFields ==
  ASSUME txn \in Txns,
         NEW l \in Seq(Tools \union Places),
         txn' = [txn EXCEPT !.todo = l]
  PROVE  /\ txn' \in Txns /\ Core /\ Marks /\ Work
         /\ txn'.at = txn.at /\ txn'.todo = l
<1>1. txn' \in Txns
  BY DEF Txns
<1>2. Core /\ Marks /\ Work
  BY DEF Txns, Core, Marks, Work
<1>3. /\ txn'.at = txn.at /\ txn'.todo = l
  BY DEF Txns
<1> QED  BY <1>1, <1>2, <1>3

LEMMA WroteFields ==
  ASSUME txn \in Txns,
         NEW s \in Stages,
         NEW b \in BOOLEAN,
         txn' = [txn EXCEPT !.at = s, !.wrote = b]
  PROVE  /\ txn' \in Txns /\ Core /\ Marks /\ Work
         /\ txn'.at = s /\ txn'.todo = txn.todo
<1>1. txn' \in Txns
  BY DEF Txns
<1>2. Core /\ Marks /\ Work
  BY DEF Txns, Core, Marks, Work
<1>3. /\ txn'.at = s /\ txn'.todo = txn.todo
  BY DEF Txns
<1> QED  BY <1>1, <1>2, <1>3

LEMMA SwapFields ==
  ASSUME txn \in Txns,
         NEW s \in Stages,
         NEW b \in BOOLEAN,
         txn' = [txn EXCEPT !.at = s, !.committed = b]
  PROVE  /\ txn' \in Txns /\ Core /\ Marks /\ Work
         /\ txn'.at = s /\ txn'.todo = txn.todo
<1>1. txn' \in Txns
  BY DEF Txns
<1>2. Core /\ Marks /\ Work
  BY DEF Txns, Core, Marks, Work
<1>3. /\ txn'.at = s /\ txn'.todo = txn.todo
  BY DEF Txns
<1> QED  BY <1>1, <1>2, <1>3

LEMMA CleanFields ==
  ASSUME txn \in Txns,
         NEW c \in Chains,
         NEW w \in BOOLEAN,
         NEW k \in SUBSET Tasks,
         txn' = [txn EXCEPT !.clean = c, !.well = w, !.ok = k]
  PROVE  /\ txn' \in Txns /\ Core /\ Work
         /\ txn'.at = txn.at /\ txn'.todo = txn.todo /\ txn'.clean = c /\ txn'.ok = k
         /\ txn'.well = w
<1>1. txn' \in Txns
  BY DEF Txns
<1>2. Core /\ Work
  BY DEF Txns, Core, Work
<1>3. /\ txn'.at = txn.at /\ txn'.todo = txn.todo /\ txn'.clean = c /\ txn'.ok = k
      /\ txn'.well = w
  BY DEF Txns
<1> QED  BY <1>1, <1>2, <1>3

LEMMA UndoFields ==
  ASSUME txn \in Txns,
         NEW d \in Seq({"kept", "placed"} \X Tools),
         NEW w \in BOOLEAN,
         txn' = [txn EXCEPT !.done = d, !.well = w]
  PROVE  /\ txn' \in Txns /\ Core
         /\ txn'.at = txn.at /\ txn'.gen = txn.gen /\ txn'.todo = txn.todo
         /\ txn'.done = d /\ txn'.moved = txn.moved /\ txn'.clean = txn.clean
         /\ txn'.ok = txn.ok /\ txn'.well = w
<1>1. txn' \in Txns
  BY DEF Txns
<1>2. Core
  BY DEF Txns, Core
<1>3. /\ txn'.at = txn.at /\ txn'.gen = txn.gen /\ txn'.todo = txn.todo
      /\ txn'.done = d /\ txn'.moved = txn.moved /\ txn'.clean = txn.clean
      /\ txn'.ok = txn.ok /\ txn'.well = w
  BY DEF Txns
<1> QED  BY <1>1, <1>2, <1>3

LEMMA UnfoldFields ==
  ASSUME txn \in Txns,
         NEW d \in Seq({"kept", "placed"} \X Tools),
         txn' = [txn EXCEPT !.done = d]
  PROVE  /\ txn' \in Txns /\ Core /\ Marks
         /\ txn'.at = txn.at /\ txn'.gen = txn.gen /\ txn'.todo = txn.todo
         /\ txn'.done = d /\ txn'.moved = txn.moved
<1>1. txn' \in Txns
  BY DEF Txns
<1>2. Core /\ Marks
  BY DEF Txns, Core, Marks
<1>3. /\ txn'.at = txn.at /\ txn'.gen = txn.gen /\ txn'.todo = txn.todo
      /\ txn'.done = d /\ txn'.moved = txn.moved
  BY DEF Txns
<1> QED  BY <1>1, <1>2, <1>3

LEMMA PutOneFields ==
  ASSUME txn \in Txns,
         NEW m \in MoveLists,
         txn' = [txn EXCEPT !.moved = m]
  PROVE  /\ txn' \in Txns /\ Core /\ Marks
         /\ txn'.at = txn.at /\ txn'.gen = txn.gen /\ txn'.todo = txn.todo
         /\ txn'.done = txn.done /\ txn'.moved = m
<1>1. txn' \in Txns
  BY DEF Txns
<1>2. Core /\ Marks
  BY DEF Txns, Core, Marks
<1>3. /\ txn'.at = txn.at /\ txn'.gen = txn.gen /\ txn'.todo = txn.todo
      /\ txn'.done = txn.done /\ txn'.moved = m
  BY DEF Txns
<1> QED  BY <1>1, <1>2, <1>3

LEMMA StuckFields ==
  ASSUME txn \in Txns,
         NEW c \in Chains,
         txn' = [txn EXCEPT !.clean = c]
  PROVE  /\ txn' \in Txns /\ Core /\ Work
         /\ txn'.at = txn.at /\ txn'.todo = txn.todo /\ txn'.clean = c
         /\ txn'.ok = txn.ok /\ txn'.well = txn.well
<1>1. txn' \in Txns
  BY DEF Txns
<1>2. Core /\ Work
  BY DEF Txns, Core, Work
<1>3. /\ txn'.at = txn.at /\ txn'.todo = txn.todo /\ txn'.clean = c
      /\ txn'.ok = txn.ok /\ txn'.well = txn.well
  BY DEF Txns
<1> QED  BY <1>1, <1>2, <1>3

LEMMA PutFields ==
  ASSUME txn \in Txns,
         NEW m \in MoveLists,
         NEW w \in BOOLEAN,
         txn' = [txn EXCEPT !.moved = m, !.well = w]
  PROVE  /\ txn' \in Txns /\ Core
         /\ txn'.at = txn.at /\ txn'.gen = txn.gen /\ txn'.todo = txn.todo
         /\ txn'.done = txn.done /\ txn'.moved = m /\ txn'.clean = txn.clean
         /\ txn'.ok = txn.ok /\ txn'.well = w
<1>1. txn' \in Txns
  BY DEF Txns
<1>2. Core
  BY DEF Txns, Core
<1>3. /\ txn'.at = txn.at /\ txn'.gen = txn.gen /\ txn'.todo = txn.todo
      /\ txn'.done = txn.done /\ txn'.moved = m /\ txn'.clean = txn.clean
      /\ txn'.ok = txn.ok /\ txn'.well = w
  BY DEF Txns
<1> QED  BY <1>1, <1>2, <1>3

LEMMA RestoreFields ==
  ASSUME txn \in Txns,
         NEW s \in Stages,
         NEW c \in Chains,
         NEW k \in SUBSET Tasks,
         NEW b \in BOOLEAN,
         txn' = [[txn EXCEPT !.at = s] EXCEPT !.committed = b, !.clean = c, !.ok = k]
  PROVE  /\ txn' \in Txns /\ Core /\ Work
         /\ txn'.at = s /\ txn'.todo = txn.todo /\ txn'.clean = c /\ txn'.ok = k
         /\ txn'.well = txn.well
<1>1. txn' \in Txns
  BY DEF Txns
<1>2. Core /\ Work
  BY DEF Txns, Core, Work
<1>3. /\ txn'.at = s /\ txn'.todo = txn.todo /\ txn'.clean = c /\ txn'.ok = k
      /\ txn'.well = txn.well
  BY DEF Txns
<1> QED  BY <1>1, <1>2, <1>3

LEMMA UnrestoredFields ==
  ASSUME txn \in Txns,
         NEW s \in Stages,
         NEW c \in Chains,
         txn' = [[txn EXCEPT !.at = s] EXCEPT !.clean = c]
  PROVE  /\ txn' \in Txns /\ Core /\ Work
         /\ txn'.at = s /\ txn'.todo = txn.todo /\ txn'.clean = c /\ txn'.ok = txn.ok
         /\ txn'.well = txn.well
<1>1. txn' \in Txns
  BY DEF Txns
<1>2. Core /\ Work
  BY DEF Txns, Core, Work
<1>3. /\ txn'.at = s /\ txn'.todo = txn.todo /\ txn'.clean = c /\ txn'.ok = txn.ok
      /\ txn'.well = txn.well
  BY DEF Txns
<1> QED  BY <1>1, <1>2, <1>3


-----------------------------------------------------------------------------
(* What keeps each part of the invariant. *)

LEMMA SelectionFrame ==
  ASSUME SelectionRight, UNCHANGED <<gens, slots, active>>, Core, txn'.gen = txn.gen,
         txn'.at = "lay" => txn.at = "lay",
         txn'.at = "swap" => Loads(txn.gen), txn'.at = "restore" => Loads(txn.base)
  PROVE  SelectionRight'
BY DEF SelectionRight, Loads, Core

LEMMA ColdFrame ==
  ASSUME ColdRight, UNCHANGED <<host, boots, life, owners>>, Core,
         txn.op \in Restarting /\ AfterClose' => Gone
  PROVE  ColdRight'
<1>1. Apart'
  BY DEF ColdRight, Apart
<1>2. life'.at = "closed" => Gone'
  BY DEF ColdRight, Gone, Up
<1>3. txn'.op \in Restarting /\ AfterClose' => Gone'
  BY DEF Core, Gone, Up
<1> QED  BY <1>1, <1>2, <1>3 DEF ColdRight

LEMMA KeptSame ==
  ASSUME UNCHANGED <<desk, tools, kept>>, Core, txn'.gen = txn.gen, txn'.done = txn.done
  PROVE  \A n : /\ IsKept(n)' <=> IsKept(n)
                /\ Stands(n)' <=> Stands(n)
                /\ Safe(n)' <=> Safe(n)
BY DEF Core, IsKept, Stands, Safe, Brings

LEMMA ToolsFrame ==
  ASSUME ToolsRight, UNCHANGED <<desk, tools, kept>>, Core,
         Len(gens) \in Nat, Len(gens') \in Nat, Len(gens) <= Len(gens'),
         txn'.gen = txn.gen, txn'.done = txn.done,
         ToBeUndone' => ToBeUndone, txn.op \in Making /\ ~Cleans' => ~Cleans,
         txn'.at \in Early \union {"move"} => txn.done = <<>>,
         TodoFits(txn'.at, txn'.todo)
  PROVE  ToolsRight'
<1>0. \A n : (IsKept(n)' <=> IsKept(n)) /\ (Stands(n)' <=> Stands(n)) /\ (Safe(n)' <=> Safe(n))
  BY KeptSame
<1>1. RecordsRight'
  BY DEF ToolsRight, RecordsRight
<1>2. DoneRight'
  BY <1>0 DEF ToolsRight, DoneRight, Core
<1>3. StandRight'
  BY <1>0 DEF ToolsRight, StandRight
<1>4. TodoRight'
  BY <1>0 DEF TodoRight, TodoFits, Core
<1>5. ToolsKept'
  BY <1>0 DEF ToolsRight, ToolsKept
<1> QED  BY <1>1, <1>2, <1>3, <1>4, <1>5 DEF ToolsRight

LEMMA MovedSame ==
  ASSUME UNCHANGED <<desk, store>>, txn'.moved = txn.moved
  PROVE  \A n : (IsMoved(n)' <=> IsMoved(n)) /\ (SafePlace(n)' <=> SafePlace(n))
BY DEF IsMoved, HasMoved, SafePlace

LEMMA RootFrame ==
  ASSUME RootRight, UNCHANGED <<desk, root, store>>, Core,
         Len(gens) \in Nat, Len(gens') \in Nat, Len(gens) <= Len(gens'),
         txn'.gen = txn.gen, txn'.moved = txn.moved,
         ToBePutBack' => ToBePutBack, txn.op = "migrate" /\ ~Cleans' => ~Cleans,
         MovesFit(txn'.at, txn'.todo, txn.moved), EntriesFit(txn'.at, txn'.todo)
  PROVE  RootRight'
<1>0. \A n : (IsMoved(n)' <=> IsMoved(n)) /\ (SafePlace(n)' <=> SafePlace(n))
  BY MovedSame
<1>1. BackupsRight'
  BY DEF RootRight, BackupsRight
<1>2. MovesRight'
  BY <1>0 DEF RootRight, MovesRight, MovesFit, Core
<1>3. MigrationRight'
  BY <1>0 DEF RootRight, MigrationRight, Core
<1>4. EntriesRight'
  BY DEF EntriesRight, EntriesFit
<1>5. PlacesKept'
  BY <1>0 DEF RootRight, PlacesKept
<1> QED  BY <1>1, <1>2, <1>3, <1>4, <1>5 DEF RootRight

LEMMA CleanOnward ==
  ASSUME CleanRight, ~Cleans, ~Cleans', Marks
  PROVE  CleanRight'
<1>1. txn'.ok = {} /\ txn'.clean = <<>> /\ txn'.well
  BY DEF CleanRight, Marks, Cleans
<1>2. \A t : ~Left(t)'
  BY <1>1 DEF Left, Items
<1> QED  BY <1>1, <1>2 DEF CleanRight, Cleans

LEMMA CleanStops ==
  ASSUME CleanRight, ~Cleans, Core, txn'.at = "clean", txn'.clean = CleanUp,
         txn'.ok = txn.ok, txn'.well = txn.well
  PROVE  CleanRight'
<1>1. txn'.ok = {} /\ txn'.well
  BY DEF CleanRight, Cleans
<1>2. txn.op # "migrate" => CleanUp \in {<<>>, <<"undo">>, <<"takeback">>, <<"undo", "takeback">>}
  BY DEF CleanUp, Applying, Committing
<1>3. txn.op \notin Making => CleanUp \in {<<>>, <<"takeback">>}
  BY DEF CleanUp, Making
<1>4. txn.op \notin Making => ~Left("undo")'
  BY <1>3 DEF Left, Items
<1> QED  BY <1>1, <1>2, <1>4 DEF CleanRight, Core, Cleans

LEMMA ColdStops ==
  ASSUME ColdRight, ~Cleans, UNCHANGED <<host, boots, life, owners>>, Core,
         txn'.at = "clean", txn'.clean = CleanUp
  PROVE  ColdRight'
<1>1. ASSUME txn.op \in Restarting, CleanUp # <<>>
      PROVE  txn.at \in {"move"} \union Tooling \union Managing \union Selecting
  BY <1>1 DEF CleanUp, Restarting, Applying, Committing, Tooling, Managing, Selecting
<1>2. txn.op \in Restarting /\ AfterClose' => Gone
  BY <1>1 DEF AfterClose, ColdRight, Tooling, Managing, Selecting, Refreshing
<1> QED  BY <1>2, ColdFrame

\* Nothing of the installation is changed but a part, a temporary selection, the settings.
Calm == /\ UNCHANGED <<desk, gens, active, slots, tools, kept, root, store, seen, wish>>
        /\ temps' \subseteq (-Len(gens)) .. Len(gens) /\ settings' \in Settings
        /\ UNCHANGED <<host, boots, life, owners>>

LEMMA LenNat ==
  ASSUME DiskTypes
  PROVE  Len(gens) \in Nat /\ Len(gens) <= Len(gens)
BY DEF DiskTypes

LEMMA CalmTypes ==
  ASSUME DiskTypes, WishTypes, Calm
  PROVE  DiskTypes' /\ WishTypes'
BY DEF DiskTypes, WishTypes, Calm

LEMMA StopTypes ==
  ASSUME TxnTypes, Stop, Locked, gens' = gens
  PROVE  TxnTypes'
<1>1. /\ txn' \in Txns /\ txn'.op = txn.op /\ txn'.rel = txn.rel /\ txn'.base = txn.base
      /\ txn'.gen = txn.gen /\ txn'.at = "clean"
  BY StopFields DEF TxnTypes, Core, Work
<1>2. "clean" \in Course(txn.op)
  <2>1. txn.op \in Ops \ {"none"}
    BY DEF TxnTypes, Txns, Ops, Course, Locked
  <2> QED  BY <2>1 DEF Course, Ops, Ending
<1> QED  BY <1>1, <1>2 DEF TxnTypes, Numberless

LEMMA NotFits ==
  /\ \A l : TodoFits("clean", l) /\ EntriesFit("clean", l)
  /\ \A l, m : MovesFit("clean", l, m) <=> (txn.op # "migrate" => m = <<>>)
BY DEF TodoFits, EntriesFit, MovesFit, Tooling, Early, Laying

LEMMA StopTools ==
  ASSUME TxnTypes, ToolsRight, Stop, Locked, ~Cleans, UNCHANGED <<desk, tools, kept, gens>>,
         DiskTypes
  PROVE  ToolsRight'
<1>1. /\ Core /\ txn'.gen = txn.gen /\ txn'.done = txn.done /\ txn'.at = "clean"
  BY StopFields DEF TxnTypes, Work
<1>2. ToBeUndone' => ToBeUndone
  BY DEF ToBeUndone
<1>3. "clean" \notin Early \union {"move"}
  BY DEF Early, Laying
<1> QED  BY <1>1, <1>2, <1>3, LenNat, NotFits, ToolsFrame

LEMMA StopRoot ==
  ASSUME TxnTypes, RootRight, Stop, Locked, ~Cleans, UNCHANGED <<desk, root, store, gens>>,
         DiskTypes
  PROVE  RootRight'
<1>1. /\ Core /\ txn'.gen = txn.gen /\ txn'.moved = txn.moved /\ txn'.at = "clean"
  BY StopFields DEF TxnTypes, Work
<1>2. ToBePutBack' => ToBePutBack
  BY DEF ToBePutBack
<1>3. txn.op # "migrate" => txn.moved = <<>>
  BY DEF RootRight, MovesRight, MovesFit
<1> QED  BY <1>1, <1>2, <1>3, LenNat, NotFits, RootFrame

LEMMA StopSelection ==
  ASSUME TxnTypes, SelectionRight, Stop, UNCHANGED <<gens, slots, active>>
  PROVE  SelectionRight'
<1>1. /\ Core /\ txn'.gen = txn.gen /\ txn'.at = "clean"
  BY StopFields DEF TxnTypes, Work
<1> QED  BY <1>1, SelectionFrame

LEMMA StopMarks ==
  ASSUME TxnTypes, ColdRight, CleanRight, Stop, ~Cleans, UNCHANGED <<host, boots, life, owners>>
  PROVE  ColdRight' /\ CleanRight'
<1>1. /\ Core /\ txn'.at = "clean" /\ txn'.clean = CleanUp
      /\ txn'.ok = txn.ok /\ txn'.well = txn.well
  BY StopFields DEF TxnTypes
<1> QED  BY <1>1, ColdStops, CleanStops

\* A stage that fails takes nothing back by itself.
LEMMA CalmStop ==
  ASSUME IInv, Calm, Stop, Locked, ~Cleans
  PROVE  IInv'
<1>1. DiskTypes' /\ WishTypes'
  BY CalmTypes DEF IInv, Types
<1>2. TxnTypes'
  BY StopTypes DEF IInv, Types, Calm
<1>3. ToolsRight' /\ RootRight'
  BY StopTools, StopRoot DEF IInv, Types, Calm
<1>4. SelectionRight' /\ ColdRight' /\ CleanRight'
  BY StopSelection, StopMarks DEF IInv, Types, Calm
<1> QED  BY <1>1, <1>2, <1>3, <1>4 DEF IInv, Types

\* What lets the operation go on to stage `at` with the list `todo`.
Enters(at, todo) ==
    /\ at \in Course(txn.op) \ {"rest", "clean", "restore", "lay"}
    /\ at \notin Numberless => txn.gen # 0
    /\ at = "swap" => Loads(txn.gen)
    /\ txn.op \in Restarting
         /\ at \in {"gate", "move", "start"} \union Tooling \union Managing \union Selecting
                      \union Refreshing => Gone
    /\ at \in Early \union {"move"} => txn.done = <<>>
    /\ TodoFits(at, todo) /\ EntriesFit(at, todo) /\ MovesFit(at, todo, txn.moved)

LEMMA CalmOnward ==
  ASSUME IInv, Calm, ~Cleans, Locked, txn' \in Txns, Core, Marks, Work,
         Enters(txn'.at, txn'.todo)
  PROVE  IInv'
<1>1. DiskTypes' /\ WishTypes'
  BY CalmTypes DEF IInv, Types
<1>2. TxnTypes'
  BY DEF IInv, Types, TxnTypes, Core, Work, Calm, Enters
<1>a. txn'.at \notin {"rest", "clean", "restore", "lay"} /\ ~Cleans'
  BY DEF Enters, Cleans
<1>3. SelectionRight'
  BY <1>a, SelectionFrame DEF IInv, Calm, Work, Enters
<1>4. ColdRight'
  <2>1. txn.op \in Restarting /\ AfterClose' => Gone
    BY <1>a DEF AfterClose, Enters
  <2> QED  BY <2>1, ColdFrame DEF IInv, Calm
<1>5. ToolsRight'
  <2>1. ToBeUndone
    BY DEF ToBeUndone
  <2> QED  BY <1>a, <2>1, LenNat, ToolsFrame DEF IInv, Types, Calm, Work, Enters
<1>6. RootRight'
  <2>1. ToBePutBack
    BY DEF ToBePutBack
  <2> QED  BY <1>a, <2>1, LenNat, RootFrame DEF IInv, Types, Calm, Work, Enters
<1>7. CleanRight'
  BY <1>a, CleanOnward DEF IInv
<1> QED  BY <1>1, <1>2, <1>3, <1>4, <1>5, <1>6, <1>7 DEF IInv, Types


-----------------------------------------------------------------------------
(* The Runtime met is gone once it is closed, whatever starts afterwards. *)

LEMMA ApartTypes ==
  ASSUME Apart
  PROVE  /\ host.owner \in Nat /\ host.gen \in Nat /\ host.trans \in Nat
         /\ boots.pid \in Nat /\ boots.gen \in Nat /\ boots.trans \in Nat
         /\ life.met \in Nat /\ life.trans \in Nat /\ owners \in Nat
BY DEF Apart, Hosts, BootTypes, LifeTypes

LEMMA NoOnes ==
  /\ NoHost \in Hosts /\ NoHost.owner = 0 /\ NoBoot \in BootTypes /\ NoBoot.pid = 0
  /\ AtRest \in LifeTypes /\ AtRest.met = 0 /\ AtRest.at = "rest"
<1>1. NoHost \in Hosts /\ NoHost.owner = 0
  BY DEF NoHost, Hosts
<1>2. NoBoot \in BootTypes /\ NoBoot.pid = 0
  BY DEF NoBoot, BootTypes
<1>3. AtRest \in LifeTypes /\ AtRest.met = 0 /\ AtRest.at = "rest"
  BY DEF AtRest, LifeTypes, LifeStages
<1> QED  BY <1>1, <1>2, <1>3

\* A step of acsetup's own side.
LEMMA Turns ==
  ASSUME Apart, NEW s \in LifeStages, Turn(s)
  PROVE  life' \in LifeTypes /\ life'.met = life.met /\ life'.at = s
<1>1. life \in LifeTypes
  BY DEF Apart
<1> QED  BY <1>1 DEF Turn, LifeTypes

LEMMA Closes ==
  ASSUME Apart, NEW b \in BOOLEAN, Closed(b)
  PROVE  life' \in LifeTypes /\ life'.met = life.met /\ life'.at = "closed"
<1>1. life \in LifeTypes
  BY DEF Apart
<1> QED  BY <1>1 DEF Closed, LifeTypes, LifeStages

LEMMA Aims ==
  ASSUME Apart, NEW s \in LifeStages, life' = [life EXCEPT !.at = s, !.target = host.owner]
  PROVE  life' \in LifeTypes /\ life'.met = life.met /\ life'.at = s
<1>1. life \in LifeTypes /\ host.owner \in Nat
  BY ApartTypes DEF Apart
<1> QED  BY <1>1 DEF LifeTypes

\* What a step leaves right about the Runtime met.
StillGone == Apart' /\ (Gone => Gone') /\ (life'.at = "closed" => Gone')

LEMMA GoneKept ==
  ASSUME Apart, life.at = "closed" => Gone,
         host' \in Hosts, host'.owner \in {host.owner, 0}, UNCHANGED <<boots, owners>>,
         life' \in LifeTypes, life'.met = life.met,
         life'.at = "closed" => host'.owner = 0 \/ life.at = "closed"
  PROVE  StillGone
BY ApartTypes DEF StillGone, Apart, Gone, Up

LEMMA SameHost ==
  ASSUME Apart, life.at = "closed" => Gone, Quiet,
         life' \in LifeTypes, life'.met = life.met, life'.at = "closed" => ~Up
  PROVE  StillGone
<1>1. host' \in Hosts /\ host'.owner = host.owner /\ UNCHANGED <<boots, owners>>
  BY DEF Quiet, Apart
<1>2. life'.at = "closed" => host'.owner = 0
  BY <1>1 DEF Up
<1> QED  BY <1>1, <1>2, GoneKept

LEMMA QuietTurn ==
  ASSUME Apart, life.at = "closed" => Gone, Quiet, NEW s \in LifeStages \ {"closed"}, Turn(s)
  PROVE  StillGone
BY Turns, SameHost

LEMMA TurnWith ==
  ASSUME Apart, life.at = "closed" => Gone, UNCHANGED <<boots, owners>>,
         host' \in Hosts, host'.owner \in {host.owner, 0},
         NEW s \in LifeStages \ {"closed"}, Turn(s)
  PROVE  StillGone
BY Turns, GoneKept

LEMMA PhaseFields ==
  ASSUME Apart, NEW p \in {"expired", "released", "draining", "drained", "preparing"},
         NEW t \in Nat
  PROVE  /\ [host EXCEPT !.phase = p] \in Hosts
         /\ [host EXCEPT !.phase = p].owner = host.owner
         /\ [host EXCEPT !.phase = p, !.trans = t] \in Hosts
         /\ [host EXCEPT !.phase = p, !.trans = t].owner = host.owner
<1>1. host \in Hosts
  BY DEF Apart
<1> QED  BY <1>1 DEF Hosts

LEMMA CloseKeeps ==
  ASSUME Apart, life.at = "closed" => Gone, CloseStep
  PROVE  StillGone
<1> USE DEF LifeStages
<1>1. CASE StatusAnswers
  BY <1>1, QuietTurn DEF StatusAnswers
<1>2. CASE StatusFails
  BY <1>2, QuietTurn DEF StatusFails
<1>3. CASE ColdGate
  <2>1. CASE Turn("failed")
    BY <1>3, <2>1, QuietTurn DEF ColdGate
  <2>2. CASE GateOpen /\ Closed(FALSE)
    <3>1. life' \in LifeTypes /\ life'.met = life.met
      BY <2>2, Closes
    <3> QED  BY <1>3, <2>2, <3>1, SameHost DEF ColdGate, GateOpen
  <2> QED  BY <1>3, <2>1, <2>2 DEF ColdGate
<1>4. CASE ColdShutdown
  <2>1. UNCHANGED <<boots, owners>>
    BY <1>4 DEF ColdShutdown
  <2>2. host' \in {host, NoHost} => host' \in Hosts /\ host'.owner \in {host.owner, 0}
    BY NoOnes DEF Apart
  <2>3. CASE host' \in {host, NoHost} /\ Turn("failed")
    BY <2>1, <2>2, <2>3, TurnWith
  <2>4. CASE host' = NoHost /\ Closed(TRUE)
    <3>1. life' \in LifeTypes /\ life'.met = life.met
      BY <2>4, Closes
    <3> QED  BY <2>1, <2>2, <2>4, <3>1, NoOnes, GoneKept
  <2> QED  BY <1>4, <2>3, <2>4 DEF ColdShutdown
<1>5. CASE BeginDrain
  <2>1. UNCHANGED <<boots, owners>>
    BY <1>5 DEF BeginDrain
  <2>2. host' \in {host, Draining} => host' \in Hosts /\ host'.owner \in {host.owner, 0}
    BY PhaseFields, ApartTypes DEF Draining, Apart
  <2>3. CASE host' \in {host, Draining} /\ Turn("beginquery")
    BY <2>1, <2>2, <2>3, TurnWith
  <2>4. CASE host' = Draining /\ life' = [life EXCEPT !.at = "drain", !.target = host.owner]
    <3>1. life' \in LifeTypes /\ life'.met = life.met /\ life'.at = "drain"
      BY <2>4, Aims
    <3> QED  BY <2>1, <2>2, <2>4, <3>1, GoneKept
  <2> QED  BY <1>5, <2>3, <2>4 DEF BeginDrain
<1>6. CASE BeginQuery
  <2>1. CASE Turn("failed")
    BY <1>6, <2>1, QuietTurn DEF BeginQuery
  <2>2. CASE life' = [life EXCEPT !.at = "drain", !.target = host.owner]
    <3>1. life' \in LifeTypes /\ life'.met = life.met /\ life'.at = "drain"
      BY <2>2, Aims
    <3> QED  BY <1>6, <3>1, SameHost DEF BeginQuery
  <2> QED  BY <1>6, <2>1, <2>2 DEF BeginQuery
<1>7. CASE DrainPoll
  BY <1>7, QuietTurn DEF DrainPoll
<1>8. CASE CommitShutdown
  <2>1. UNCHANGED <<boots, owners>>
    BY <1>8 DEF CommitShutdown
  <2>2. host' \in {host, NoHost} => host' \in Hosts /\ host'.owner \in {host.owner, 0}
    BY NoOnes DEF Apart
  <2>3. CASE host' \in {host, NoHost} /\ Turn("failed")
    BY <2>1, <2>2, <2>3, TurnWith
  <2>4. CASE host' = NoHost /\ Closed(TRUE)
    <3>1. life' \in LifeTypes /\ life'.met = life.met
      BY <2>4, Closes
    <3> QED  BY <2>1, <2>2, <2>4, <3>1, NoOnes, GoneKept
  <2> QED  BY <1>8, <2>3, <2>4 DEF CommitShutdown
<1> QED  BY <1>1, <1>2, <1>3, <1>4, <1>5, <1>6, <1>7, <1>8 DEF CloseStep

LEMMA StartKeeps ==
  ASSUME Apart, life.at = "closed" => Gone, StartStep
  PROVE  StillGone
<1> USE DEF LifeStages
<1>1. CASE Discover
  BY <1>1, QuietTurn DEF Discover
<1>2. CASE ColdProbe
  BY <1>2, QuietTurn DEF ColdProbe
<1>3. CASE Held
  <2>1. CASE Turn("failed")
    BY <1>3, <2>1, QuietTurn DEF Held
  <2>2. CASE life' = [life EXCEPT !.at = "release", !.target = host.owner]
    <3>1. life' \in LifeTypes /\ life'.met = life.met /\ life'.at = "release"
      BY <2>2, Aims
    <3> QED  BY <1>3, <3>1, SameHost DEF Held
  <2> QED  BY <1>3, <2>1, <2>2 DEF Held
<1>4. CASE Release
  <2>1. UNCHANGED <<boots, owners>> /\ host' \in {host, Preparing}
    BY <1>4 DEF Release
  <2>2. host' \in Hosts /\ host'.owner \in {host.owner, 0}
    BY <2>1, PhaseFields DEF Preparing, Apart
  <2> QED  BY <1>4, <2>1, <2>2, TurnWith DEF Release
<1>5. CASE ReleaseQuery
  BY <1>5, QuietTurn DEF ReleaseQuery
<1>6. CASE PreparePoll
  BY <1>6, QuietTurn DEF PreparePoll
<1> QED  BY <1>1, <1>2, <1>3, <1>4, <1>5, <1>6 DEF StartStep

LEMMA HostKeeps ==
  ASSUME Apart, life.at = "closed" => Gone, HostStep
  PROVE  StillGone
<1>a. life \in LifeTypes /\ host \in Hosts
  BY DEF Apart
<1>1. CASE Boots
  <2>1. /\ boots.pid # 0 /\ boots' = NoBoot /\ UNCHANGED <<life, owners>>
        /\ \/ host' = host
           \/ ~Up /\ host' = [owner |-> boots.pid, gen |-> boots.gen,
                              phase |-> IF boots.how = "cold" THEN "open" ELSE "held",
                              trans |-> IF boots.how = "cold" THEN 0 ELSE boots.trans]
    BY <1>1 DEF Boots
  <2>2. host' \in Hosts /\ host'.owner \in {host.owner, boots.pid}
    BY <1>a, <2>1, ApartTypes DEF Hosts
  <2> QED  BY <2>1, <2>2, ApartTypes, NoOnes DEF StillGone, Apart, Gone, Up
<1>2. CASE DrainEnds
  <2>1. host' \in Hosts /\ host'.owner = host.owner /\ UNCHANGED <<boots, life, owners>>
    BY <1>2, PhaseFields DEF DrainEnds
  <2> QED  BY <1>a, <2>1, GoneKept
<1>3. CASE PrepareEnds
  <2>1. host' \in Hosts /\ host'.owner = host.owner /\ UNCHANGED <<boots, life, owners>>
    BY <1>3, PhaseFields DEF PrepareEnds
  <2> QED  BY <1>a, <2>1, GoneKept
<1>4. CASE Expires
  <2>1. host' \in Hosts /\ host'.owner \in {host.owner, 0} /\ UNCHANGED <<boots, life, owners>>
    BY <1>4, PhaseFields, NoOnes DEF Expires
  <2> QED  BY <1>a, <2>1, GoneKept
<1>5. CASE Dies
  <2>1. host' = NoHost /\ UNCHANGED <<boots, life, owners>>
    BY <1>5 DEF Dies
  <2> QED  BY <1>a, <2>1, NoOnes, GoneKept
<1> QED  BY <1>1, <1>2, <1>3, <1>4, <1>5 DEF HostStep

LEMMA OtherKeeps ==
  ASSUME Apart, life.at = "closed" => Gone, NEW g \in Nat, OtherStarts(g)
  PROVE  StillGone
<1>1. /\ ~Up /\ owners' = owners + 1 /\ UNCHANGED <<boots, life>>
      /\ host' = [NoHost EXCEPT !.owner = owners + 1, !.gen = g]
  BY DEF OtherStarts
<1>2. owners + 1 \in Nat
  BY ApartTypes
<1>3. host' \in Hosts /\ host'.owner = owners + 1
  BY <1>1, <1>2 DEF Hosts, NoHost
<1> QED  BY <1>1, <1>3, ApartTypes DEF StillGone, Apart, Gone, Up

LEMMA BootKeeps ==
  ASSUME Apart, life.at = "closed" => Gone, NEW g \in Nat,
         NEW how \in {"cold", "transition"}, Start(g, how)
  PROVE  StillGone
<1> USE DEF LifeStages
<1>1. CASE (Turn("stopped") \/ Turn("failed")) /\ UNCHANGED <<boots, owners>>
  <2>1. host' \in Hosts /\ host'.owner = host.owner
    BY DEF Start, Apart
  <2> QED  BY <1>1, <2>1, TurnWith
<1>2. CASE /\ owners' = owners + 1 /\ boots.pid = 0
           /\ boots' = [pid |-> owners + 1, gen |-> g, how |-> how, trans |-> life.trans]
           /\ life' = [life EXCEPT !.at = "discover", !.how = how, !.pid = owners + 1]
  <2>1. owners + 1 \in Nat /\ life.trans \in Nat /\ life \in LifeTypes
    BY ApartTypes DEF Apart
  <2>2. boots' \in BootTypes /\ boots'.pid = owners + 1
    BY <1>2, <2>1 DEF BootTypes
  <2> DEFINE n == owners + 1
  <2>3. life' = [life EXCEPT !.at = "discover", !.how = how, !.pid = n] /\ n \in Nat
    BY <1>2, <2>1
  <2> HIDE DEF n
  <2>4. life' \in LifeTypes /\ life'.met = life.met /\ life'.at = "discover"
    BY <2>1, <2>3 DEF LifeTypes
  <2>5. host' = host
    BY DEF Start
  <2> QED  BY <1>2, <2>2, <2>4, <2>5, ApartTypes DEF StillGone, Apart, Gone, Up
<1> QED  BY <1>1, <1>2 DEF Start


-----------------------------------------------------------------------------
(* Steps that leave the transaction and the installation as they are. *)

LEMMA TypedThere ==
  ASSUME Types
  PROVE  /\ Len(gens) \in Nat /\ active \in Nat /\ txn.gen \in Nat /\ txn.base \in Nat
         /\ txn.how \in {"cold", "transition"} /\ txn.op \in Ops /\ txn.at \in Stages
         /\ txn.before \in Befores /\ txn.before.tools \in [Tools -> AllFiles]
         /\ txn.before.root \in [Places -> Things] /\ txn.before.settings \in Settings
         /\ txn.rel \in Releases \union {None} /\ txn.prior \in Releases \union {None}
         /\ txn.slot \in Slots /\ txn.clean \in Chains /\ txn.moved \in MoveLists
         /\ txn.todo \in Seq(Tools \union Places) /\ txn.done \in Seq({"kept", "placed"} \X Tools)
         /\ txn.ok \subseteq Tasks /\ txn.well \in BOOLEAN
<1>1. txn \in Txns /\ Len(gens) \in Nat /\ active \in 0 .. Len(gens)
  BY DEF Types, DiskTypes, TxnTypes
<1>2. txn.before \in Befores
  BY <1>1 DEF Txns
<1>3. /\ txn.before.tools \in [Tools -> AllFiles] /\ txn.before.root \in [Places -> Things]
      /\ txn.before.settings \in Settings
  BY <1>2 DEF Befores
<1>4. /\ txn.rel \in Releases \union {None} /\ txn.prior \in Releases \union {None}
      /\ txn.slot \in Slots /\ txn.clean \in Chains /\ txn.moved \in MoveLists
      /\ txn.todo \in Seq(Tools \union Places) /\ txn.done \in Seq({"kept", "placed"} \X Tools)
      /\ txn.ok \subseteq Tasks /\ txn.well \in BOOLEAN
  BY <1>1 DEF Txns
<1>5. /\ txn.gen \in Nat /\ txn.base \in Nat
      /\ txn.how \in {"cold", "transition"} /\ txn.op \in Ops /\ txn.at \in Stages
  BY <1>1 DEF Txns
<1> QED  BY <1>1, <1>2, <1>3, <1>4, <1>5

LEMMA AtRestNothing ==
  ASSUME TxnTypes, ~Locked
  PROVE  txn.op = "none" /\ txn.at = "rest" /\ ~Cleans
<1>1. txn.op \in Ops
  BY DEF TxnTypes, Txns
<1>2. txn.at = "rest" /\ "rest" \in Course(txn.op)
  BY DEF TxnTypes, Locked
<1> QED  BY <1>1, <1>2 DEF Ops, Course, Laying, Tooling, Managing, Selecting, Refreshing, Ending,
            Cleans

LEMMA QuietKeeps ==
  ASSUME IInv, UNCHANGED <<desk, active, gens, temps, slots, tools, kept, root, store, txn>>,
         WishTypes', settings' \in {settings, "theirs"}, Apart',
         life'.at = "closed" => Gone', txn.op \in Restarting /\ AfterClose => Gone'
  PROVE  IInv'
<1>1. DiskTypes' /\ TxnTypes'
  BY DEF IInv, Types, DiskTypes, TxnTypes, Settings
<1>2. SelectionRight'
  BY DEF IInv, SelectionRight, Loads
<1>3. ColdRight'
  <2>1. AfterClose' <=> AfterClose
    BY DEF AfterClose
  <2> QED  BY <2>1 DEF ColdRight
<1>a. Core /\ txn'.gen = txn.gen /\ txn'.done = txn.done /\ txn'.moved = txn.moved
  BY DEF Core
<1>b. /\ Cleans' <=> Cleans
      /\ ToBeUndone' <=> ToBeUndone
      /\ ToBePutBack' <=> ToBePutBack
  BY DEF Cleans, ToBeUndone, ToBePutBack, Left, Task, Locked
<1>4. ToolsRight'
  <2>1. /\ TodoFits(txn'.at, txn'.todo)
        /\ txn.at \in Early \union {"move"} => txn.done = <<>>
    BY DEF IInv, ToolsRight, TodoRight, DoneRight
  <2> QED  BY <1>a, <1>b, <2>1, LenNat, ToolsFrame DEF IInv, Types
<1>5. RootRight'
  <2>1. EntriesFit(txn'.at, txn'.todo) /\ MovesFit(txn'.at, txn'.todo, txn.moved)
    BY DEF IInv, RootRight, EntriesRight, MovesRight
  <2> QED  BY <1>a, <1>b, <2>1, LenNat, RootFrame DEF IInv, Types
<1>6. CleanRight'
  <2>1. \A n : (Stands(n)' <=> Stands(n)) /\ (Left(n)' <=> Left(n))
    BY DEF Stands, Brings, Left
  <2>2. Task' = Task
    BY DEF Task
  <2> QED  BY <1>b, <2>1, <2>2 DEF IInv, CleanRight
<1> QED  BY <1>1, <1>2, <1>3, <1>4, <1>5, <1>6 DEF IInv, Types

LEMMA StillSo ==
  ASSUME IInv, UNCHANGED <<host, boots, life, owners>>
  PROVE  /\ Apart' /\ (life'.at = "closed" => Gone')
         /\ txn.op \in Restarting /\ AfterClose => Gone'
BY DEF IInv, ColdRight, Apart, Gone, Up

LEMMA GoneStill ==
  ASSUME IInv, StillGone
  PROVE  /\ Apart' /\ (life'.at = "closed" => Gone')
         /\ txn.op \in Restarting /\ AfterClose => Gone'
BY DEF IInv, ColdRight, StillGone

LEMMA WishKeeps ==
  ASSUME IInv, NEW r \in Releases, Wish(r)
  PROVE  IInv'
<1>1. UNCHANGED <<desk, diskVars, seen, txn, host, boots, life, owners>>
  BY DEF Wish
<1>2. Previous \in Releases \union {None}
  <2>1. CASE active # 0
    <3>1. active \in 1 .. Len(gens) /\ gens[active] \in Generations
      BY <2>1 DEF IInv, Types, DiskTypes
    <3>2. gens[active].slot \in Slots
      BY <3>1 DEF Generations
    <3> QED  BY <2>1, <3>2 DEF Previous, IInv, Types, DiskTypes
  <2>2. CASE active = 0
    <3>1. root["runtime"] \in Things
      BY DEF IInv, Types, DiskTypes, Places
    <3> QED  BY <2>2, <3>1 DEF Previous, Things
  <2> QED  BY <2>1, <2>2
<1>3. \/ wish' = [kind |-> "upgrade", rel |-> r, agreed |-> Previous]
      \/ wish' = [kind |-> "fresh", rel |-> r, agreed |-> None]
  BY DEF Wish
<1>4. WishTypes'
  BY <1>1, <1>2, <1>3 DEF IInv, Types, WishTypes, Wishes, diskVars
<1> QED  BY <1>1, <1>4, StillSo, QuietKeeps DEF diskVars

LEMMA SameWish ==
  ASSUME IInv, UNCHANGED <<gens, seen, wish>>
  PROVE  WishTypes'
BY DEF IInv, Types, WishTypes

LEMMA ConsoleKeeps ==
  ASSUME IInv, ConsoleOpens \/ ConsoleSaves
  PROVE  IInv'
<1>1. CASE ConsoleOpens
  <2>1. UNCHANGED <<desk, diskVars, wish, txn, host, boots, life, owners>> /\ seen' = active
    BY <1>1 DEF ConsoleOpens, Still
  <2>2. WishTypes'
    BY <2>1 DEF IInv, Types, WishTypes, DiskTypes, diskVars
  <2> QED  BY <2>1, <2>2, StillSo, QuietKeeps DEF diskVars
<1>2. CASE ConsoleSaves
  <2>1. /\ RootKept /\ UNCHANGED <<root, store, txn, host, boots, life, owners>>
        /\ settings' = "theirs"
    BY <1>2 DEF ConsoleSaves
  <2> QED  BY <2>1, SameWish, StillSo, QuietKeeps DEF RootKept
<1> QED  BY <1>1, <1>2

LEMMA PersonKeeps ==
  ASSUME IInv, PersonClears \/ PersonStops
  PROVE  IInv'
<1>1. CASE PersonClears
  <2>1. UNCHANGED <<desk, active, gens, temps, slots, tools, kept, root, store, settings, seen,
                    wish, txn, host, boots, life, owners>>
    BY <1>1 DEF PersonClears, Still
  <2> QED  BY <2>1, SameWish, StillSo, QuietKeeps
<1>2. CASE PersonStops
  <2>1. UNCHANGED <<desk, diskVars, seen, wish, txn, boots, life, owners>> /\ host' = NoHost
    BY <1>2 DEF PersonStops
  <2>2. Apart /\ (life.at = "closed" => Gone)
    BY DEF IInv, ColdRight
  <2>3. life' \in LifeTypes /\ life'.met = life.met
    BY <2>1, <2>2 DEF Apart
  <2>4. StillGone
    BY <2>1, <2>2, <2>3, NoOnes, GoneKept
  <2> QED  BY <2>1, <2>4, SameWish, GoneStill, QuietKeeps DEF diskVars
<1> QED  BY <1>1, <1>2

LEMMA RuntimeKeeps ==
  ASSUME IInv, Runtime
  PROVE  IInv'
<1>1. UNCHANGED <<desk, diskVars, seen, wish, txn>>
  BY DEF Runtime
<1>2. Apart /\ (life.at = "closed" => Gone)
  BY DEF IInv, ColdRight
<1>3. HostStep \/ OtherStarts(active) \/ OtherStarts(0)
  BY DEF Runtime
<1>4. StillGone
  BY <1>2, <1>3, HostKeeps, OtherKeeps, TypedThere DEF IInv
<1> QED  BY <1>1, <1>4, SameWish, GoneStill, QuietKeeps DEF diskVars

LEMMA LifeKeeps ==
  ASSUME IInv, CloseRuntime \/ Closing \/ StartRuntime \/ Starting
  PROVE  IInv'
<1>1. UNCHANGED <<desk, diskVars, seen, wish, txn>>
  BY DEF CloseRuntime, Closing, StartRuntime, Starting
<1>2. Apart /\ (life.at = "closed" => Gone)
  BY DEF IInv, ColdRight
<1>3. CASE CloseRuntime
  <2>1. /\ UNCHANGED <<host, boots, owners>> /\ ~AfterClose
        /\ life' = [AtRest EXCEPT !.at = "status", !.how = txn.how, !.trans = txn.gen,
                                  !.met = host.owner]
    BY <1>3 DEF CloseRuntime, Close, Quiet, At, AfterClose, Tooling, Managing, Selecting, Refreshing
  <2>2. txn.how \in {"cold", "transition"} /\ txn.gen \in Nat /\ host.owner \in Nat
    BY <1>2, TypedThere, ApartTypes DEF IInv
  <2>3. life' \in LifeTypes /\ life'.met = host.owner /\ life'.at = "status"
    BY <2>1, <2>2 DEF AtRest, LifeTypes, LifeStages
  <2>4. Apart'
    BY <1>2, <2>1, <2>3, ApartTypes DEF Apart
  <2> QED  BY <1>1, <2>1, <2>3, <2>4, SameWish, QuietKeeps DEF diskVars
<1>4. CASE Closing
  BY <1>1, <1>2, <1>4, CloseKeeps, SameWish, GoneStill, QuietKeeps DEF diskVars, Closing
<1>5. CASE StartRuntime
  <2>1. Start(txn.gen, ControlOf(gens[txn.gen].rel))
    BY <1>5 DEF StartRuntime
  <2>2. txn.gen \in Nat /\ ControlOf(gens[txn.gen].rel) \in {"cold", "transition"}
    BY TypedThere DEF ControlOf, IInv
  <2>3. StillGone
    BY <1>2, <2>1, <2>2, BootKeeps
  <2> QED  BY <1>1, <2>3, SameWish, GoneStill, QuietKeeps DEF diskVars
<1>6. CASE Starting
  BY <1>1, <1>2, <1>6, StartKeeps, SameWish, GoneStill, QuietKeeps DEF diskVars, Starting
<1> QED  BY <1>3, <1>4, <1>5, <1>6


-----------------------------------------------------------------------------
(* Stages that change nothing of the installation. *)

LEMMA CalmHere ==
  ASSUME IInv, UNCHANGED <<desk, gens, active, slots, tools, kept, root, store, seen, wish>>,
         temps' \in {temps, temps \union {txn.gen}}, settings' \in Settings,
         UNCHANGED <<host, boots, life, owners>>
  PROVE  Calm
<1>1. temps \subseteq (-Len(gens)) .. Len(gens) /\ txn.gen \in (-Len(gens)) .. Len(gens)
  BY DEF IInv, Types, DiskTypes, TxnTypes
<1> QED  BY <1>1 DEF Calm

LEMMA SettingsHere ==
  ASSUME IInv
  PROVE  settings \in Settings /\ "ours" \in Settings /\ "torn" \in Settings
BY DEF IInv, Types, DiskTypes, Settings

LEMMA GoCalm ==
  ASSUME IInv, Calm, ~Cleans, Locked, NEW s \in Stages, Go(s), Enters(s, txn.todo)
  PROVE  IInv'
<1>1. /\ txn' \in Txns /\ Core /\ Marks /\ Work /\ txn'.at = s /\ txn'.todo = txn.todo
  BY GoFields DEF Go, IInv, Types, TxnTypes
<1> QED  BY <1>1, CalmOnward

LEMMA DoCalm ==
  ASSUME IInv, Calm, ~Cleans, Locked, NEW s \in Stages, NEW l \in Seq(Tools \union Places),
         Do(s, l), Enters(s, l)
  PROVE  IInv'
<1>1. /\ txn' \in Txns /\ Core /\ Marks /\ Work /\ txn'.at = s /\ txn'.todo = l
  BY DoFields DEF Do, IInv, Types, TxnTypes
<1> QED  BY <1>1, CalmOnward

\* What the transaction is at a stage of work.
LEMMA AtWork ==
  ASSUME IInv, NEW s \in Stages \ {"rest", "clean", "restore"}, At(s)
  PROVE  /\ Locked /\ ~Cleans /\ s \in Course(txn.op) /\ txn.op \in Ops \ {"none"}
         /\ s \notin Numberless => txn.gen # 0
<1>1. txn.at = s /\ txn.at \in Course(txn.op) /\ txn.op \in Ops
  BY TypedThere DEF At, IInv, Types, TxnTypes
<1>2. Course("none") = {"rest"}
  BY DEF Course
<1> QED  BY <1>1, <1>2 DEF Locked, Cleans, IInv, Types, TxnTypes

LEMMA NotKept ==
  ASSUME IInv, Locked, ~Cleans, txn.done = <<>>, NEW n \in Tools
  PROVE  ~IsKept(n) /\ Stands(n)
<1>1. ~IsKept(n)
  BY DEF IsKept, In
<1>2. ToBeUndone
  BY DEF ToBeUndone
<1> QED  BY <1>1, <1>2 DEF IInv, ToolsRight, StandRight

LEMMA ChangeFits ==
  ASSUME IInv, Locked, ~Cleans, txn.done = <<>>
  PROVE  TodoFits("apply", Change)
<1>1. ASSUME NEW i \in 1 .. Len(Change)
      PROVE  Change[i] \in Tools /\ txn.before.tools[Change[i]] # None /\ ~IsKept(Change[i])
  <2>1. Change[i] \in Retired \union Differing
    BY <1>1, ChangeRight
  <2>2. /\ Change[i] \in Tools /\ tools[Change[i]] # None
        /\ tools[Change[i]] # Brings(Change[i])
    BY <2>1 DEF Retired, Differing
  <2>3. ~IsKept(Change[i]) /\ Stands(Change[i])
    BY <2>2, NotKept
  <2> QED  BY <2>2, <2>3 DEF Stands
<1>2. Once(Change)
  BY ChangeRight
<1> QED  BY <1>1, <1>2 DEF TodoFits, Tooling

LEMMA MissingFits ==
  ASSUME IInv, Locked, ~Cleans, txn.done = <<>>
  PROVE  TodoFits("add", SetToSeq(Missing))
<1> DEFINE l == SetToSeq(Missing)
<1>1. ASSUME NEW i \in 1 .. Len(l)
      PROVE  l[i] \in Tools /\ txn.before.tools[l[i]] = None /\ Safe(l[i])
  <2>1. l[i] \in Missing
    BY <1>1, MissingListed
  <2>2. l[i] \in Tools /\ tools[l[i]] = None
    BY <2>1 DEF Missing
  <2>3. Stands(l[i])
    BY <2>2, NotKept
  <2>4. tools[l[i]] = desk.tools[l[i]] \/ Safe(l[i])
    BY <2>2 DEF IInv, ToolsRight, ToolsKept
  <2> QED  BY <2>2, <2>3, <2>4 DEF Stands, Safe
<1> HIDE DEF l
<1>2. TodoFits("add", l)
  BY <1>1 DEF TodoFits, Tooling
<1> QED  BY <1>2 DEF l

\* Other stages ask nothing of the list of tools, or of the root's places.
LEMMA FreeStages ==
  /\ \A s, l : s \notin {"add", "addplace"} \union Tooling => TodoFits(s, l)
  /\ \A s, l : s \notin {"fix", "manage", "mnew", "midentity", "entries", "easide", "eplace"}
                 => EntriesFit(s, l)
  /\ \A s, l, m : /\ txn.op # "migrate" \/ s \in Early => m = <<>>
                  /\ txn.op = "migrate" /\ s \notin Early => m = <<"config", "ui", "runtime">>
                  /\ s # "move"
                  => MovesFit(s, l, m)
<1>1. \A s, l : s \notin {"add", "addplace"} \union Tooling => TodoFits(s, l)
  BY DEF TodoFits, Tooling
<1>2. \A s, l : s \notin {"fix", "manage", "mnew", "midentity", "entries", "easide", "eplace"}
                 => EntriesFit(s, l)
  BY DEF EntriesFit
<1>3. \A s, l, m : /\ txn.op # "migrate" \/ s \in Early => m = <<>>
                   /\ txn.op = "migrate" /\ s \notin Early => m = <<"config", "ui", "runtime">>
                   /\ s # "move"
                   => MovesFit(s, l, m)
  BY DEF MovesFit
<1> QED  BY <1>1, <1>2, <1>3

\* A stage from which nothing was changed yet is followed by one that changes nothing.
LEMMA EarlyEnters ==
  ASSUME IInv, Locked, txn.at \in Early,
         NEW s \in {"pick", "close", "gate"} \union (Laying \ {"lay"}), s \in Course(txn.op),
         NEW l, TodoFits(s, l), s \notin Numberless => txn.gen # 0,
         s = "gate" => Gone
  PROVE  Enters(s, l)
<1>1. txn.done = <<>> /\ txn.moved = <<>>
  BY DEF IInv, ToolsRight, DoneRight, RootRight, MovesRight, MovesFit
<1>2. s \in Early /\ s \notin {"rest", "clean", "restore", "lay", "swap", "move"}
  BY DEF Early, Laying
<1>3. EntriesFit(s, l) /\ MovesFit(s, l, txn.moved)
  BY <1>1, <1>2, FreeStages DEF Laying
<1>4. s \notin {"gate"} => s \notin {"move", "start"} \union Tooling \union Managing \union Selecting
                                 \union Refreshing
  BY DEF Laying, Tooling, Managing, Selecting, Refreshing
<1> QED  BY <1>1, <1>2, <1>3, <1>4 DEF Enters

\* A stage after the first move is followed by one that finds it made.
LEMMA LateEnters ==
  ASSUME IInv, Locked, ~Cleans, txn.at \notin Early \union {"move"},
         NEW s \in {"start", "end"} \union Tooling \union Managing \union Selecting \union Refreshing,
         s \in Course(txn.op), NEW l, TodoFits(s, l), EntriesFit(s, l),
         s = "swap" => Loads(txn.gen), txn.at # "end"
  PROVE  Enters(s, l)
<1>1. /\ txn.op # "migrate" => txn.moved = <<>>
      /\ txn.op = "migrate" => txn.moved = <<"config", "ui", "runtime">>
  BY DEF IInv, RootRight, MovesRight, MovesFit, Cleans
<1>2. /\ s \notin Early \union {"move"} /\ s \notin {"rest", "clean", "restore", "lay", "move"}
  BY DEF Early, Laying, Tooling, Managing, Selecting, Refreshing
<1>3. MovesFit(s, l, txn.moved)
  BY <1>1, <1>2, FreeStages
<1>4. txn.at \notin Numberless
  BY DEF Numberless, Early, Cleans
<1>5. txn.at \in Stages
  BY TypedThere DEF IInv
<1>6. AfterClose
  BY <1>5 DEF AfterClose, Stages, Early, Ending, Cleans, Locked, Laying, Tooling, Managing,
         Selecting, Refreshing
<1> QED  BY <1>1, <1>2, <1>3, <1>4, <1>6 DEF Enters, IInv, Types, TxnTypes, ColdRight


LEMMA FirstEnters ==
  ASSUME IInv, Locked, txn.at \in Early, NEW s \in {"apply", "temp"}, s \in Course(txn.op),
         txn.op # "migrate", txn.gen # 0, txn.op \in Restarting => Gone, NEW l, TodoFits(s, l)
  PROVE  Enters(s, l)
<1>1. txn.done = <<>> /\ txn.moved = <<>>
  BY DEF IInv, ToolsRight, DoneRight, RootRight, MovesRight, MovesFit
<1>2. EntriesFit(s, l) /\ MovesFit(s, l, txn.moved)
  BY <1>1, FreeStages
<1> QED  BY <1>1, <1>2 DEF Enters

LEMMA InStages ==
  /\ Early \subseteq Stages /\ Tooling \subseteq Stages /\ Managing \subseteq Stages
  /\ Selecting \subseteq Stages /\ Refreshing \subseteq Stages
  /\ {"rest", "pick", "close", "gate", "move", "start", "end"} \subseteq Stages
BY DEF Stages, Early, Ending

LEMMA AtHas ==
  ASSUME NEW s, At(s)
  PROVE  txn.at = s
BY DEF At

LEMMA Failing ==
  ASSUME IInv, NEW s \in Stages \ {"rest", "clean", "restore"}, At(s), Fails \/ (Stop /\ Still),
         UNCHANGED <<desk, gens, active, slots, tools, kept, root, store, seen, wish>>,
         temps' \in {temps, temps \union {txn.gen}}, settings' \in Settings
  PROVE  IInv'
<1>1. Stop /\ UNCHANGED <<host, boots, life, owners>>
  BY DEF Fails, Still
<1>2. Calm
  BY <1>1, CalmHere
<1>3. Locked /\ ~Cleans
  BY AtWork
<1> QED  BY <1>1, <1>2, <1>3, CalmStop

LEMMA Going ==
  ASSUME IInv, NEW s \in Stages \ {"rest", "clean", "restore"}, At(s),
         NEW t \in Stages, Go(t), Enters(t, txn.todo),
         UNCHANGED <<host, boots, life, owners>>,
         UNCHANGED <<desk, gens, active, slots, tools, kept, root, store, seen, wish>>,
         temps' \in {temps, temps \union {txn.gen}}, settings' \in Settings
  PROVE  IInv'
BY CalmHere, AtWork, GoCalm

LEMMA Doing ==
  ASSUME IInv, NEW s \in Stages \ {"rest", "clean", "restore"}, At(s),
         NEW t \in Stages, NEW l \in Seq(Tools \union Places), Do(t, l), Enters(t, l),
         UNCHANGED <<host, boots, life, owners>>,
         UNCHANGED <<desk, gens, active, slots, tools, kept, root, store, seen, wish>>,
         temps' \in {temps, temps \union {txn.gen}}, settings' \in Settings
  PROVE  IInv'
BY CalmHere, AtWork, DoCalm

\* The disk as it was.
LEMMA SameDisk ==
  ASSUME IInv, UNCHANGED <<desk, diskVars, seen, wish>>
  PROVE  /\ UNCHANGED <<desk, gens, active, slots, tools, kept, root, store, seen, wish>>
         /\ temps' \in {temps, temps \union {txn.gen}} /\ settings' \in Settings
BY SettingsHere DEF diskVars

LEMMA PlanKeeps ==
  ASSUME IInv, Plan
  PROVE  IInv'
<1>1. At("plan") /\ UNCHANGED <<desk, diskVars, seen, wish>>
  BY DEF Plan
<1>2. "plan" \in Stages \ {"rest", "clean", "restore"} /\ "add" \in Stages
  BY DEF Stages, Laying
<1>3. CASE Fails
  BY <1>1, <1>2, <1>3, SameDisk, Failing
<1>4. CASE Do("add", SetToSeq(Missing)) /\ Still
  <2>1. /\ Locked /\ ~Cleans /\ "plan" \in Course(txn.op) /\ txn.op \in Ops
        /\ txn.at \in Early
    BY <1>1, <1>2, AtWork, AtHas DEF Early, Laying
  <2>2. "add" \in Course(txn.op)
    BY <2>1 DEF Course, Ops, Laying, Tooling, Managing, Selecting, Refreshing, Ending
  <2>3. txn.done = <<>>
    BY <2>1 DEF IInv, ToolsRight, DoneRight
  <2>4. TodoFits("add", SetToSeq(Missing)) /\ SetToSeq(Missing) \in Seq(Tools \union Places)
    BY <2>1, <2>3, MissingFits, MissingListed
  <2>5. Enters("add", SetToSeq(Missing))
    BY <2>1, <2>2, <2>4, EarlyEnters DEF Laying, Numberless
  <2> QED  BY <1>1, <1>2, <1>4, <2>4, <2>5, SameDisk, Doing DEF Still
<1> QED  BY <1>3, <1>4 DEF Plan

LEMMA CopyKeeps ==
  ASSUME IInv, CopyIn("add", "addplace") \/ CopyIn("copy", "place")
  PROVE  IInv'
<1>1. ASSUME NEW s \in {"add", "copy"}, NEW t \in {"addplace", "place"}, CopyIn(s, t),
             s = "add" <=> t = "addplace"
      PROVE  IInv'
  <2>1. /\ At(s) /\ txn.todo # <<>>
        /\ UNCHANGED <<desk, active, gens, temps, slots, tools, kept, root, store, settings,
                       seen, wish>>
    BY <1>1 DEF CopyIn
  <2>2. s \in Stages \ {"rest", "clean", "restore"} /\ t \in Stages
    BY <1>1 DEF Stages, Laying, Tooling
  <2>3. UNCHANGED <<desk, active, gens, temps, slots, tools, kept, root, store, seen, wish>>
        /\ settings' \in Settings
    BY <2>1, SettingsHere
  <2>4. CASE Fails \/ (Stop /\ Still)
    BY <2>1, <2>2, <2>3, <2>4, Failing
  <2>5. CASE Go(t) /\ Still
    <3>1. /\ Locked /\ ~Cleans /\ s \in Course(txn.op) /\ txn.op \in Ops /\ txn.at = s
          /\ txn.op # "none"
      BY <2>1, <2>2, AtWork, AtHas
    <3>2. t \in Course(txn.op)
      BY <1>1, <3>1 DEF Course, Ops, Laying, Tooling, Managing, Selecting, Refreshing, Ending
    <3>3. TodoFits(t, txn.todo)
      BY <1>1, <2>1, <3>1 DEF IInv, ToolsRight, TodoRight, TodoFits, Tooling
    <3>4. CASE s = "add"
      <4>1. Enters("addplace", txn.todo)
        BY <1>1, <3>1, <3>2, <3>3, <3>4, EarlyEnters DEF Early, Laying, Numberless
      <4> QED  BY <1>1, <2>1, <2>2, <2>3, <2>5, <3>4, <4>1, Going DEF Still
    <3>5. CASE s = "copy"
      <4>0. EntriesFit("place", txn.todo)
        BY FreeStages DEF Tooling
      <4>1. Enters("place", txn.todo)
        BY <1>1, <3>1, <3>2, <3>3, <3>5, <4>0, LateEnters DEF Early, Laying, Tooling
      <4> QED  BY <1>1, <2>1, <2>2, <2>3, <2>5, <3>5, <4>1, Going DEF Still
    <3> QED  BY <1>1, <3>4, <3>5
  <2> QED  BY <1>1, <2>4, <2>5 DEF CopyIn
<1> QED  BY <1>1

LEMMA AddedKeeps ==
  ASSUME IInv, Added
  PROVE  IInv'
<1>1. At("add") /\ Go("number") /\ UNCHANGED <<desk, diskVars, seen, wish>> /\ Still
  BY DEF Added
<1>2. "add" \in Stages \ {"rest", "clean", "restore"} /\ "number" \in Stages
  BY DEF Stages, Laying
<1>3. /\ Locked /\ ~Cleans /\ "add" \in Course(txn.op) /\ txn.op \in Ops /\ txn.at = "add"
  BY <1>1, <1>2, AtWork, AtHas
<1>4. "number" \in Course(txn.op)
  BY <1>3 DEF Course, Ops, Laying, Tooling, Managing, Selecting, Refreshing, Ending
<1>5. TodoFits("number", txn.todo)
  BY FreeStages DEF Tooling
<1>6. Enters("number", txn.todo)
  BY <1>3, <1>4, <1>5, EarlyEnters DEF Early, Laying, Numberless
<1> QED  BY <1>1, <1>2, <1>6, SameDisk, Going DEF Still

\* `apply` that could not say its last line takes back all but the tools.
LEMMA SilentFields ==
  ASSUME txn \in Txns, txn.at = "apply", txn.op \in Making,
         txn' = [Stopped EXCEPT !.clean = Tail(CleanUp)]
  PROVE  /\ txn' \in Txns /\ Core /\ Work
         /\ txn'.at = "clean" /\ txn'.todo = <<>> /\ txn'.ok = txn.ok /\ txn'.well = txn.well
         /\ txn'.clean = IF txn.op = "migrate" THEN <<"takeback", "unmanage", "putback", "unset">>
                         ELSE <<>>
<1>1. Tail(CleanUp) = IF txn.op = "migrate" THEN <<"takeback", "unmanage", "putback", "unset">>
                      ELSE <<>>
  <2>1. CASE txn.op = "migrate"
    <3>1. CleanUp = <<"undo", "takeback", "unmanage", "putback", "unset">>
      BY <2>1 DEF CleanUp, Applying, Committing
    <3> QED  BY <2>1, <3>1
  <2>2. CASE txn.op \in {"fresh", "upgrade"}
    <3>1. CleanUp = <<"undo">>
      BY <2>2 DEF CleanUp, Applying, Committing
    <3> QED  BY <2>2, <3>1
  <2> QED  BY <2>1, <2>2 DEF Making
<1> DEFINE c == Tail(CleanUp)
<1>2. c \in Chains
  BY <1>1 DEF Chains
<1>3. "clean" \in Stages /\ <<>> \in Seq(Tools \union Places)
  BY DEF Stages, Ending
<1>4. txn' = [txn EXCEPT !.at = "clean", !.clean = c, !.todo = <<>>]
  BY DEF Stopped, Txns
<1> HIDE DEF c
<1>5. txn' \in Txns
  BY <1>2, <1>3, <1>4 DEF Txns
<1>6. Core /\ Work
  BY <1>4 DEF Txns, Core, Work
<1>7. /\ txn'.at = "clean" /\ txn'.todo = <<>> /\ txn'.clean = c
      /\ txn'.ok = txn.ok /\ txn'.well = txn.well
  BY <1>4 DEF Txns
<1> QED  BY <1>1, <1>5, <1>6, <1>7 DEF c

LEMMA SilentStop ==
  ASSUME IInv, At("apply"), txn.op \in Making, Locked, ~Cleans,
         UNCHANGED <<desk, diskVars, seen, wish, host, boots, life, owners>>,
         txn' = [Stopped EXCEPT !.clean = Tail(CleanUp)]
  PROVE  IInv'
<1>0. txn.at = "apply" /\ txn.op \in Ops \ {"none"}
  BY AtHas DEF Making, Ops
<1>1. /\ txn' \in Txns /\ Core /\ Work
      /\ txn'.at = "clean" /\ txn'.todo = <<>> /\ txn'.ok = txn.ok /\ txn'.well = txn.well
      /\ txn'.clean = IF txn.op = "migrate" THEN <<"takeback", "unmanage", "putback", "unset">>
                      ELSE <<>>
  BY <1>0, SilentFields DEF IInv, Types, TxnTypes
<1>2. DiskTypes' /\ WishTypes'
  BY DEF IInv, Types, DiskTypes, WishTypes, diskVars
<1>3. TxnTypes'
  <2>1. "clean" \in Course(txn.op)
    BY <1>0 DEF Course, Ops, Ending
  <2> QED  BY <1>1, <2>1 DEF IInv, Types, TxnTypes, Core, Work, Numberless, diskVars
<1>4. ToolsRight'
  <2>1. ToBeUndone' => ToBeUndone
    BY DEF ToBeUndone
  <2>2. "clean" \notin Early \union {"move"}
    BY DEF Early, Laying
  <2> QED  BY <1>1, <2>1, <2>2, LenNat, NotFits, ToolsFrame DEF IInv, Types, Work, diskVars
<1>5. RootRight'
  <2>1. ToBePutBack' => ToBePutBack
    BY DEF ToBePutBack
  <2>2. txn.op # "migrate" => txn.moved = <<>>
    BY DEF IInv, RootRight, MovesRight, MovesFit
  <2> QED  BY <1>1, <2>1, <2>2, LenNat, NotFits, RootFrame DEF IInv, Types, Work, diskVars
<1>6. SelectionRight'
  BY <1>1, SelectionFrame DEF IInv, Work, diskVars
<1>7. ColdRight'
  <2>1. txn.op \in Restarting => Gone
    BY <1>0 DEF IInv, ColdRight, AfterClose, Tooling
  <2> QED  BY <1>1, <2>1, ColdFrame DEF IInv
<1>8. CleanRight'
  <2>1. txn'.ok = {} /\ txn'.well
    BY <1>1 DEF IInv, CleanRight, Cleans
  <2>2. txn'.op \in Making /\ txn'.at = "clean"
    BY <1>1 DEF Core
  <2>3. txn'.op # "migrate" => txn'.clean = <<>>
    BY <1>1 DEF Core
  <2> QED  BY <2>1, <2>2, <2>3 DEF CleanRight, Cleans
<1> QED  BY <1>2, <1>3, <1>4, <1>5, <1>6, <1>7, <1>8 DEF IInv, Types

LEMMA AppliedKeeps ==
  ASSUME IInv, Applied
  PROVE  IInv'
<1>0. At("apply") /\ UNCHANGED <<desk, diskVars, seen, wish>>
  BY DEF Applied
<1>1. \/ txn.op = "upgrade" /\ Go("temp") /\ Still
      \/ txn.op # "upgrade" /\ Do("fix", <<"runtime", "ui">>) /\ Still
      \/ UNCHANGED <<host, boots, life, owners>> /\ txn' = [Stopped EXCEPT !.clean = Tail(CleanUp)]
  BY DEF Applied
<1>2. "apply" \in Stages \ {"rest", "clean", "restore"} /\ "temp" \in Stages /\ "fix" \in Stages
  BY DEF Stages, Laying, Tooling, Selecting, Managing
<1>3. /\ Locked /\ ~Cleans /\ "apply" \in Course(txn.op) /\ txn.op \in Ops /\ txn.at = "apply"
  BY <1>0, <1>2, AtWork, AtHas
<1>4. txn.op \in Making
  BY <1>3 DEF Course, Ops, Laying, Tooling, Managing, Selecting, Refreshing, Ending, Making
<1>5. CASE txn.op = "upgrade" /\ Go("temp") /\ Still
  <2>1. "temp" \in Course(txn.op)
    BY <1>5 DEF Course, Selecting
  <2>2. TodoFits("temp", txn.todo) /\ EntriesFit("temp", txn.todo)
    BY FreeStages DEF Tooling
  <2>3. Enters("temp", txn.todo)
    BY <1>3, <2>1, <2>2, LateEnters DEF Early, Laying, Selecting
  <2> QED  BY <1>0, <1>2, <1>5, <2>3, SameDisk, Going DEF Still
<1>6. CASE txn.op # "upgrade" /\ Do("fix", <<"runtime", "ui">>) /\ Still
  <2>1. "fix" \in Course(txn.op)
    BY <1>4, <1>6 DEF Course, Managing, Making
  <2>2. TodoFits("fix", <<"runtime", "ui">>) /\ EntriesFit("fix", <<"runtime", "ui">>)
    BY FreeStages DEF Tooling, EntriesFit
  <2>3. Enters("fix", <<"runtime", "ui">>)
    BY <1>3, <2>1, <2>2, LateEnters DEF Early, Laying, Managing
  <2>4. <<"runtime", "ui">> \in Seq(Tools \union Places)
    BY DEF Places
  <2> QED  BY <1>0, <1>2, <1>6, <2>3, <2>4, SameDisk, Doing DEF Still
<1>7. CASE /\ UNCHANGED <<host, boots, life, owners>>
           /\ txn' = [Stopped EXCEPT !.clean = Tail(CleanUp)]
  BY <1>0, <1>3, <1>4, <1>7, SilentStop
<1> QED  BY <1>1, <1>5, <1>6, <1>7


-----------------------------------------------------------------------------
(* The Runtime closed and started, the stages that only check. *)

LEMMA ClosedKeeps ==
  ASSUME IInv, RuntimeClosed
  PROVE  IInv'
<1>1. /\ At("close") /\ life.at \in {"closed", "failed"}
      /\ UNCHANGED <<desk, diskVars, seen, wish>> /\ Still
      /\ IF life.at = "failed" THEN Stop
         ELSE IF txn.op = "resources" THEN Go("temp") ELSE Go("gate")
  BY DEF RuntimeClosed
<1>2. /\ "close" \in Stages \ {"rest", "clean", "restore"} /\ "temp" \in Stages
      /\ "gate" \in Stages
  BY DEF Stages, Selecting
<1>3. /\ Locked /\ ~Cleans /\ "close" \in Course(txn.op) /\ txn.op \in Ops
      /\ txn.at = "close" /\ txn.at \in Early /\ txn.gen # 0
  BY <1>1, <1>2, AtWork, AtHas DEF Early, Numberless, Laying
<1>4. CASE life.at = "failed"
  BY <1>1, <1>2, <1>4, SameDisk, Failing
<1>5. CASE life.at = "closed"
  <2>1. Gone
    BY <1>5 DEF IInv, ColdRight
  <2>2. txn.op \in {"upgrade", "migrate", "rollback", "resources"}
    BY <1>3 DEF Course, Ops, Laying, Tooling, Managing, Selecting, Refreshing, Ending
  <2>3. TodoFits("temp", txn.todo) /\ TodoFits("gate", txn.todo)
    BY FreeStages DEF Tooling
  <2>4. CASE txn.op = "resources"
    <3>1. "temp" \in Course(txn.op)
      BY <2>4 DEF Course, Selecting
    <3>2. Enters("temp", txn.todo)
      BY <1>3, <2>1, <2>3, <2>4, <3>1, FirstEnters
    <3> QED  BY <1>1, <1>2, <1>5, <2>4, <3>2, SameDisk, Going DEF Still
  <2>5. CASE txn.op # "resources"
    <3>1. "gate" \in Course(txn.op)
      BY <2>2, <2>5 DEF Course
    <3>2. Enters("gate", txn.todo)
      BY <1>3, <2>1, <2>3, <3>1, EarlyEnters
    <3> QED  BY <1>1, <1>2, <1>5, <2>5, <3>2, SameDisk, Going DEF Still
  <2> QED  BY <2>4, <2>5
<1> QED  BY <1>1, <1>4, <1>5

LEMMA ChangeInSeq == Change \in Seq(Tools \union Places)
BY ChangeRight, Wider

LEMMA GateKeeps ==
  ASSUME IInv, Gate
  PROVE  IInv'
<1>1. At("gate") /\ UNCHANGED <<desk, diskVars, seen, wish>>
  BY DEF Gate
<1>2. /\ "gate" \in Stages \ {"rest", "clean", "restore"} /\ "temp" \in Stages
      /\ "apply" \in Stages /\ "move" \in Stages
  BY DEF Stages, Selecting, Tooling
<1>3. /\ Locked /\ ~Cleans /\ "gate" \in Course(txn.op) /\ txn.op \in Ops
      /\ txn.at = "gate" /\ txn.at \in Early /\ txn.gen # 0
  BY <1>1, <1>2, AtWork, AtHas DEF Early, Numberless, Laying
<1>4. txn.op \in {"upgrade", "migrate", "rollback"}
  BY <1>3 DEF Course, Ops, Laying, Tooling, Managing, Selecting, Refreshing, Ending
<1>5. CASE Fails \/ (Stop /\ Still)
  BY <1>1, <1>2, <1>5, SameDisk, Failing
<1>6. CASE /\ GateOpen /\ Still
           /\ CASE txn.op = "upgrade" -> Do("apply", Change)
                [] txn.op = "migrate" -> Do("move", <<"runtime", "ui", "config">>)
                [] OTHER -> Go("temp")
  <2>1. Gone
    BY <1>6 DEF GateOpen, Gone
  <2>2. txn.done = <<>> /\ txn.moved = <<>>
    BY <1>3 DEF IInv, ToolsRight, DoneRight, RootRight, MovesRight, MovesFit
  <2>3. CASE txn.op = "upgrade"
    <3>1. TodoFits("apply", Change) /\ Change \in Seq(Tools \union Places)
      BY <1>3, <2>2, ChangeFits, ChangeInSeq
    <3>2. "apply" \in Course(txn.op)
      BY <2>3 DEF Course, Tooling
    <3>3. Enters("apply", Change)
      BY <1>3, <2>1, <2>3, <3>1, <3>2, FirstEnters
    <3>4. Do("apply", Change)
      BY <1>6, <2>3
    <3> QED  BY <1>1, <1>2, <1>6, <3>1, <3>3, <3>4, SameDisk, Doing DEF Still
  <2>4. CASE txn.op = "migrate"
    <3> DEFINE l == <<"runtime", "ui", "config">>
    <3>1. "move" \in Course(txn.op) /\ TodoFits("move", l) /\ EntriesFit("move", l)
      BY <2>4, FreeStages DEF Course, Tooling
    <3>2. MovesFit("move", l, txn.moved) /\ l \in Seq(Tools \union Places)
      BY <2>2, <2>4 DEF MovesFit, MovePlans, Places, Early, Laying
    <3>3. Do("move", l)
      BY <1>6, <2>4
    <3> HIDE DEF l
    <3>4. Enters("move", l)
      BY <1>3, <2>1, <2>2, <3>1, <3>2 DEF Enters
    <3> QED  BY <1>1, <1>2, <1>6, <3>2, <3>3, <3>4, SameDisk, Doing DEF Still
  <2>5. CASE txn.op = "rollback"
    <3>1. "temp" \in Course(txn.op) /\ TodoFits("temp", txn.todo)
      BY <2>5, FreeStages DEF Course, Selecting, Tooling
    <3>2. Enters("temp", txn.todo)
      BY <1>3, <2>1, <2>5, <3>1, FirstEnters
    <3>3. Go("temp")
      BY <1>6, <2>5
    <3> QED  BY <1>1, <1>2, <1>6, <3>2, <3>3, SameDisk, Going DEF Still
  <2> QED  BY <1>4, <2>3, <2>4, <2>5
<1> QED  BY <1>5, <1>6 DEF Gate

LEMMA FixedKeeps ==
  ASSUME IInv, Fixed
  PROVE  IInv'
<1>1. At("fix")
  BY DEF Fixed
<1>2. /\ "fix" \in Stages \ {"rest", "clean", "restore"}
      /\ "manage" \in Stages
  BY DEF Stages, Laying, Tooling, Managing, Selecting, Refreshing, Ending
<1>3. /\ Locked /\ ~Cleans /\ "fix" \in Course(txn.op) /\ txn.op \in Ops /\ txn.at = "fix"
  BY <1>1, <1>2, AtWork, AtHas
<1>4. /\ UNCHANGED <<desk, gens, active, slots, tools, kept, root, store, seen, wish>>
      /\ temps' \in {temps, temps \union {txn.gen}} /\ settings' \in Settings
  BY SameDisk DEF Fixed
<1>5. CASE Do("manage", <<"identity", "program">>) /\ UNCHANGED <<host, boots, life, owners>>
  <2>1. "manage" \in Course(txn.op)
    BY <1>3, <1>5 DEF Course, Ops, Laying, Tooling, Managing, Selecting, Refreshing, Ending
  <2>2. TodoFits("manage", <<"identity", "program">>) /\ EntriesFit("manage", <<"identity", "program">>)
    BY FreeStages DEF Tooling, EntriesFit
  <2>3. Enters("manage", <<"identity", "program">>)
    BY <1>3, <1>5, <2>1, <2>2, LateEnters DEF Early, Laying, Tooling, Selecting, Managing, Refreshing
  <2>4. <<"identity", "program">> \in Seq(Tools \union Places)
    BY DEF Places
  <2> QED  BY <1>1, <1>2, <1>4, <1>5, <2>3, <2>4, Doing
<1> QED  BY <1>5, <1>1 DEF Fixed, Still

LEMMA ManagedKeeps ==
  ASSUME IInv, Managed
  PROVE  IInv'
<1>1. At("manage")
  BY DEF Managed
<1>2. /\ "manage" \in Stages \ {"rest", "clean", "restore"}
      /\ "settings" \in Stages
  BY DEF Stages, Laying, Tooling, Managing, Selecting, Refreshing, Ending
<1>3. /\ Locked /\ ~Cleans /\ "manage" \in Course(txn.op) /\ txn.op \in Ops /\ txn.at = "manage"
  BY <1>1, <1>2, AtWork, AtHas
<1>4. /\ UNCHANGED <<desk, gens, active, slots, tools, kept, root, store, seen, wish>>
      /\ temps' \in {temps, temps \union {txn.gen}} /\ settings' \in Settings
  BY SameDisk DEF Managed
<1>5. CASE Go("settings") /\ UNCHANGED <<host, boots, life, owners>>
  <2>1. "settings" \in Course(txn.op)
    BY <1>3, <1>5 DEF Course, Ops, Laying, Tooling, Managing, Selecting, Refreshing, Ending
  <2>2. TodoFits("settings", txn.todo) /\ EntriesFit("settings", txn.todo)
    BY FreeStages DEF Tooling
  <2>3. Enters("settings", txn.todo)
    BY <1>3, <1>5, <2>1, <2>2, LateEnters DEF Early, Laying, Tooling, Selecting, Managing, Refreshing
  <2> QED  BY <1>1, <1>2, <1>4, <1>5, <2>3, Going
<1> QED  BY <1>5, <1>1 DEF Managed, Still

LEMMA CompareKeeps ==
  ASSUME IInv, CompareSettings
  PROVE  IInv'
<1>1. At("settings")
  BY DEF CompareSettings
<1>2. /\ "settings" \in Stages \ {"rest", "clean", "restore"}
      /\ "write" \in Stages
  BY DEF Stages, Laying, Tooling, Managing, Selecting, Refreshing, Ending
<1>3. /\ Locked /\ ~Cleans /\ "settings" \in Course(txn.op) /\ txn.op \in Ops /\ txn.at = "settings"
  BY <1>1, <1>2, AtWork, AtHas
<1>4. /\ UNCHANGED <<desk, gens, active, slots, tools, kept, root, store, seen, wish>>
      /\ temps' \in {temps, temps \union {txn.gen}} /\ settings' \in Settings
  BY SettingsHere DEF CompareSettings, RootKept
<1>5. CASE Fails \/ (Stop /\ Still)
  BY <1>1, <1>2, <1>4, <1>5, Failing
<1>6. CASE Go("write") /\ UNCHANGED <<host, boots, life, owners>>
  <2>1. "write" \in Course(txn.op)
    BY <1>3, <1>6 DEF Course, Ops, Laying, Tooling, Managing, Selecting, Refreshing, Ending
  <2>2. TodoFits("write", txn.todo) /\ EntriesFit("write", txn.todo)
    BY FreeStages DEF Tooling
  <2>3. Enters("write", txn.todo)
    BY <1>3, <1>6, <2>1, <2>2, LateEnters DEF Early, Laying, Tooling, Selecting, Managing, Refreshing
  <2> QED  BY <1>1, <1>2, <1>4, <1>6, <2>3, Going
<1> QED  BY <1>5, <1>6, <1>1 DEF CompareSettings, Still

LEMMA TempKeeps ==
  ASSUME IInv, Temp
  PROVE  IInv'
<1>1. At("temp")
  BY DEF Temp
<1>2. /\ "temp" \in Stages \ {"rest", "clean", "restore"}
      /\ "swap" \in Stages
  BY DEF Stages, Laying, Tooling, Managing, Selecting, Refreshing, Ending
<1>3. /\ Locked /\ ~Cleans /\ "temp" \in Course(txn.op) /\ txn.op \in Ops /\ txn.at = "temp"
  BY <1>1, <1>2, AtWork, AtHas
<1>4. /\ UNCHANGED <<desk, gens, active, slots, tools, kept, root, store, seen, wish>>
      /\ temps' \in {temps, temps \union {txn.gen}} /\ settings' \in Settings
  BY SettingsHere DEF Temp
<1>5. CASE Fails \/ (Stop /\ Still)
  BY <1>1, <1>2, <1>4, <1>5, Failing
<1>6. CASE Go("swap") /\ Loads(txn.gen) /\ UNCHANGED <<host, boots, life, owners>>
  <2>1. "swap" \in Course(txn.op)
    BY <1>3, <1>6 DEF Course, Ops, Laying, Tooling, Managing, Selecting, Refreshing, Ending
  <2>2. TodoFits("swap", txn.todo) /\ EntriesFit("swap", txn.todo)
    BY FreeStages DEF Tooling
  <2>3. Enters("swap", txn.todo)
    BY <1>3, <1>6, <2>1, <2>2, LateEnters DEF Early, Laying, Tooling, Selecting, Managing, Refreshing
  <2> QED  BY <1>1, <1>2, <1>4, <1>6, <2>3, Going
<1> QED  BY <1>5, <1>6, <1>1 DEF Temp, Still

LEMMA SaidKeeps ==
  ASSUME IInv, Said
  PROVE  IInv'
<1>1. At("said")
  BY DEF Said
<1>2. /\ "said" \in Stages \ {"rest", "clean", "restore"}
      /\ "end" \in Stages /\ "start" \in Stages
  BY DEF Stages, Laying, Tooling, Managing, Selecting, Refreshing, Ending
<1>3. /\ Locked /\ ~Cleans /\ "said" \in Course(txn.op) /\ txn.op \in Ops /\ txn.at = "said"
  BY <1>1, <1>2, AtWork, AtHas
<1>4. /\ UNCHANGED <<desk, gens, active, slots, tools, kept, root, store, seen, wish>>
      /\ temps' \in {temps, temps \union {txn.gen}} /\ settings' \in Settings
  BY SameDisk DEF Said
<1>5. CASE Fails \/ (Stop /\ Still)
  BY <1>1, <1>2, <1>4, <1>5, Failing
<1>6. CASE Go("end") /\ txn.op \in {"fresh", "edit"} /\ UNCHANGED <<host, boots, life, owners>>
  <2>1. "end" \in Course(txn.op)
    BY <1>3, <1>6 DEF Course, Ops, Laying, Tooling, Managing, Selecting, Refreshing, Ending
  <2>2. TodoFits("end", txn.todo) /\ EntriesFit("end", txn.todo)
    BY FreeStages DEF Tooling
  <2>3. Enters("end", txn.todo)
    BY <1>3, <1>6, <2>1, <2>2, LateEnters DEF Early, Laying, Tooling, Selecting, Managing, Refreshing
  <2> QED  BY <1>1, <1>2, <1>4, <1>6, <2>3, Going
<1>7. CASE Go("start") /\ txn.op \notin {"fresh", "edit"} /\ UNCHANGED <<host, boots, life, owners>>
  <2>1. "start" \in Course(txn.op)
    BY <1>3, <1>7 DEF Course, Ops, Laying, Tooling, Managing, Selecting, Refreshing, Ending
  <2>2. TodoFits("start", txn.todo) /\ EntriesFit("start", txn.todo)
    BY FreeStages DEF Tooling
  <2>3. Enters("start", txn.todo)
    BY <1>3, <1>7, <2>1, <2>2, LateEnters DEF Early, Laying, Tooling, Selecting, Managing, Refreshing
  <2> QED  BY <1>1, <1>2, <1>4, <1>7, <2>3, Going
<1> QED  BY <1>5, <1>6, <1>7, <1>1 DEF Said, Still


LEMMA MovedKeeps ==
  ASSUME IInv, Moved
  PROVE  IInv'
<1>1. /\ At("move") /\ txn.todo = <<>> /\ Do("apply", Change)
      /\ UNCHANGED <<desk, diskVars, seen, wish>> /\ Still
  BY DEF Moved
<1>2. "move" \in Stages \ {"rest", "clean", "restore"} /\ "apply" \in Stages
  BY DEF Stages, Tooling
<1>3. /\ Locked /\ ~Cleans /\ "move" \in Course(txn.op) /\ txn.op \in Ops
      /\ txn.at = "move" /\ txn.gen # 0
  BY <1>1, <1>2, AtWork, AtHas DEF Numberless, Laying
<1>4. txn.op = "migrate"
  BY <1>3 DEF Course, Ops, Laying, Tooling, Managing, Selecting, Refreshing, Ending
<1>5. txn.done = <<>>
  BY <1>3 DEF IInv, ToolsRight, DoneRight
<1>6. TodoFits("apply", Change) /\ Change \in Seq(Tools \union Places)
  BY <1>3, <1>5, ChangeFits, ChangeInSeq
<1>7. Gone
  BY <1>3, <1>4 DEF IInv, ColdRight, Restarting, AfterClose
<1>8. txn.moved = <<"config", "ui", "runtime">>
  BY <1>1, <1>3 DEF IInv, RootRight, MovesRight, MovesFit, MovePlans
<1>9. EntriesFit("apply", Change) /\ MovesFit("apply", Change, txn.moved)
  BY <1>4, <1>8, FreeStages DEF Early, Laying
<1>10. "apply" \in Course(txn.op)
  BY <1>4 DEF Course, Tooling
<1>11. Enters("apply", Change)
  BY <1>3, <1>5, <1>6, <1>7, <1>9, <1>10 DEF Enters
<1> QED  BY <1>1, <1>2, <1>6, <1>11, SameDisk, Doing DEF Still

LEMMA StartedKeeps ==
  ASSUME IInv, RuntimeStarted
  PROVE  IInv'
<1> DEFINE l == SetToSeq({n \in {"runtime", "ui"} : Stale(n)})
<1>1. /\ At("start") /\ UNCHANGED <<desk, diskVars, seen, wish>> /\ Still
      /\ \/ Stop
         \/ txn.op = "upgrade" /\ Do("entries", l)
         \/ Go("end")
  BY DEF RuntimeStarted
<1> HIDE DEF l
<1>2. /\ "start" \in Stages \ {"rest", "clean", "restore"}
      /\ "entries" \in Stages /\ "end" \in Stages
  BY DEF Stages, Refreshing, Ending
<1>3. /\ Locked /\ ~Cleans /\ "start" \in Course(txn.op) /\ txn.op \in Ops \ {"none"}
      /\ txn.at = "start"
  BY <1>1, <1>2, AtWork, AtHas
<1>4. CASE Stop
  BY <1>1, <1>2, <1>4, SameDisk, Failing
<1>5. CASE txn.op = "upgrade" /\ Do("entries", l)
  <2>1. "entries" \in Course(txn.op)
    BY <1>5 DEF Course, Refreshing
  <2>2. l \in Seq(Places) /\ \A i \in 1 .. Len(l) : l[i] \in {"runtime", "ui"}
    BY StaleListed DEF l
  <2>3. TodoFits("entries", l) /\ EntriesFit("entries", l)
    BY <2>2, FreeStages DEF Tooling, EntriesFit
  <2>4. Enters("entries", l)
    BY <1>3, <2>1, <2>3, LateEnters DEF Early, Laying, Refreshing
  <2>5. l \in Seq(Tools \union Places)
    BY <2>2, Wider
  <2> QED  BY <1>1, <1>2, <1>5, <2>4, <2>5, SameDisk, Doing DEF Still
<1>6. CASE Go("end")
  <2>1. "end" \in Course(txn.op)
    BY <1>3 DEF Course, Ops, Ending
  <2>2. TodoFits("end", txn.todo) /\ EntriesFit("end", txn.todo)
    BY FreeStages DEF Tooling
  <2>3. Enters("end", txn.todo)
    BY <1>3, <2>1, <2>2, LateEnters DEF Early, Laying
  <2> QED  BY <1>1, <1>2, <1>6, <2>3, SameDisk, Going DEF Still
<1> QED  BY <1>1, <1>4, <1>5, <1>6

LEMMA WriteKeeps ==
  ASSUME IInv, WriteSettings
  PROVE  IInv'
<1>1. At("write") /\ RootKept /\ UNCHANGED <<root, store>>
  BY DEF WriteSettings
<1>2. "write" \in Stages \ {"rest", "clean", "restore"} /\ "temp" \in Stages
  BY DEF Stages, Managing, Selecting
<1>3. /\ Locked /\ ~Cleans /\ "write" \in Course(txn.op) /\ txn.op \in Ops /\ txn.at = "write"
  BY <1>1, <1>2, AtWork, AtHas
<1>4. CASE settings' \in {settings, "torn"} /\ Fails
  BY <1>1, <1>2, <1>4, SettingsHere, Failing DEF RootKept
<1>5. CASE settings' = "ours" /\ Still /\ txn' = [txn EXCEPT !.at = "temp", !.wrote = TRUE]
  <2> DEFINE b == TRUE
  <2>1. b \in BOOLEAN /\ txn' = [txn EXCEPT !.at = "temp", !.wrote = b]
    BY <1>5
  <2> HIDE DEF b
  <2>2. txn' \in Txns /\ Core /\ Marks /\ Work /\ txn'.at = "temp" /\ txn'.todo = txn.todo
    BY <1>2, <2>1, WroteFields DEF IInv, Types, TxnTypes
  <2>3. "temp" \in Course(txn.op)
    BY <1>3 DEF Course, Ops, Laying, Tooling, Managing, Selecting, Refreshing, Ending
  <2>4. TodoFits("temp", txn.todo) /\ EntriesFit("temp", txn.todo)
    BY FreeStages DEF Tooling
  <2>5. Enters("temp", txn.todo)
    BY <1>3, <2>3, <2>4, LateEnters DEF Early, Laying, Selecting
  <2>6. Calm
    BY <1>1, <1>5, SettingsHere, CalmHere DEF RootKept, Still
  <2> QED  BY <1>3, <2>2, <2>5, <2>6, CalmOnward
<1> QED  BY <1>4, <1>5 DEF WriteSettings

\* The stages of the fixed entries and the fixed manager, once nothing more is done there.
LEMMA EntriesOver ==
  ASSUME IInv, NEW s \in Refreshing, At(s), NEW t \in {"manager", "end"},
         \/ t = "manager" /\ EntriesEnd
         \/ t = "end" /\ Go("end"),
         UNCHANGED <<host, boots, life, owners>>,
         UNCHANGED <<desk, gens, active, slots, tools, kept, root, store, seen, wish>>,
         temps' = temps, settings' = settings
  PROVE  IInv'
<1>1. s \in Stages \ {"rest", "clean", "restore"} /\ t \in Stages
  BY DEF Stages, Refreshing, Ending
<1>2. /\ Locked /\ ~Cleans /\ s \in Course(txn.op) /\ txn.op \in Ops /\ txn.at = s
  BY <1>1, AtWork, AtHas
<1>3. txn.op = "upgrade"
  BY <1>2 DEF Course, Ops, Laying, Tooling, Managing, Selecting, Refreshing, Ending
<1>4. t \in Course(txn.op)
  BY <1>3 DEF Course, Refreshing, Ending
<1>5. \A l : TodoFits(t, l) /\ EntriesFit(t, l)
  BY FreeStages DEF Tooling
<1>6. txn.at \notin Early \union {"move", "end"}
  BY <1>2 DEF Refreshing, Early, Laying
<1>7. \A l : Enters(t, l)
  BY <1>2, <1>4, <1>5, <1>6, LateEnters DEF Refreshing
<1>8. CASE t = "end" /\ Go("end")
  BY <1>1, <1>7, <1>8, SettingsHere, Going
<1>9. CASE t = "manager" /\ EntriesEnd
  <2>1. Do("manager", <<>>) /\ <<>> \in Seq(Tools \union Places)
    BY <1>9 DEF EntriesEnd, Do
  <2> QED  BY <1>1, <1>7, <1>9, <2>1, SettingsHere, Doing
<1> QED  BY <1>8, <1>9

LEMMA CopyEntryKeeps ==
  ASSUME IInv, CopyEntry
  PROVE  IInv'
<1>1. /\ At("entries") /\ UNCHANGED <<host, boots, life, owners>>
      /\ UNCHANGED <<desk, gens, active, slots, tools, kept, root, store, seen, wish>>
      /\ temps' = temps /\ settings' = settings
  BY DEF CopyEntry, Still
<1>2. CASE EntriesEnd
  BY <1>1, <1>2, EntriesOver DEF Refreshing
<1>3. CASE txn.todo # <<>> /\ root[Name].is = "entry" /\ Go("easide")
  <2>1. "entries" \in Stages \ {"rest", "clean", "restore"} /\ "easide" \in Stages
    BY DEF Stages, Refreshing
  <2>2. /\ Locked /\ ~Cleans /\ "entries" \in Course(txn.op) /\ txn.op \in Ops
        /\ txn.at = "entries"
    BY <1>1, <2>1, AtWork, AtHas
  <2>3. "easide" \in Course(txn.op)
    BY <2>2 DEF Course, Ops, Laying, Tooling, Managing, Selecting, Refreshing, Ending
  <2>4. TodoFits("easide", txn.todo)
    BY FreeStages DEF Tooling
  <2>5. EntriesFit("easide", txn.todo)
    BY <1>3, <2>2 DEF EntriesFit, IInv, RootRight, EntriesRight, Name
  <2>6. Enters("easide", txn.todo)
    BY <2>2, <2>3, <2>4, <2>5, LateEnters DEF Early, Laying, Refreshing
  <2> QED  BY <1>1, <1>3, <2>1, <2>6, SettingsHere, Going
<1> QED  BY <1>2, <1>3 DEF CopyEntry

LEMMA GreatestOf ==
  ASSUME NEW n \in Nat, NEW S \in SUBSET (1 .. n), S # {}
  PROVE  Newest(S) \in S
<1> DEFINE T == {n - x : x \in S}
<1>1. T \subseteq Nat /\ T # {}
  <2>1. \A x \in S : x \in 1 .. n /\ n - x \in Nat
    OBVIOUS
  <2>2. PICK x \in S : TRUE
    OBVIOUS
  <2>3. n - x \in T
    OBVIOUS
  <2> QED  BY <2>1, <2>3
<1>2. PICK m \in T : \A y \in T : <<y, m>> \notin OpToRel(<, Nat)
  <2> HIDE DEF T
  <2> QED  BY <1>1, NatLessThanWellFounded, WFMin
<1>3. \A y \in T : y >= m
  <2> SUFFICES ASSUME NEW y \in T PROVE y >= m
    OBVIOUS
  <2>1. y \in Nat /\ m \in Nat /\ <<y, m>> \notin OpToRel(<, Nat)
    BY <1>1, <1>2
  <2> HIDE DEF T
  <2> QED  BY <2>1 DEF OpToRel
<1>4. PICK g \in S : m = n - g
  OBVIOUS
<1>5. \A o \in S : o =< g
  <2> SUFFICES ASSUME NEW o \in S PROVE o =< g
    OBVIOUS
  <2>1. n - o >= n - g
    BY <1>3, <1>4
  <2> QED  BY <2>1
<1> QED  BY <1>4, <1>5 DEF Newest

LEMMA PickKeeps ==
  ASSUME IInv, Pick
  PROVE  IInv'
<1>1. At("pick") /\ UNCHANGED <<desk, diskVars, seen, wish>>
  BY DEF Pick
<1>2. /\ "pick" \in Stages \ {"rest", "clean", "restore"} /\ "number" \in Stages
      /\ "close" \in Stages
  BY DEF Stages, Laying
<1>3. /\ Locked /\ ~Cleans /\ "pick" \in Course(txn.op) /\ txn.op \in Ops /\ txn.at = "pick"
      /\ txn.at \in Early
  BY <1>1, <1>2, AtWork, AtHas DEF Early
<1>4. txn.op = "rollback"
  BY <1>3 DEF Course, Ops, Laying, Tooling, Managing, Selecting, Refreshing, Ending
<1>5. CASE Fails \/ (Stop /\ Still)
  BY <1>1, <1>2, <1>5, SameDisk, Failing
<1>6. CASE Go("number") /\ Still
  <2>1. "number" \in Course(txn.op)
    BY <1>4 DEF Course
  <2>2. TodoFits("number", txn.todo)
    BY FreeStages DEF Tooling
  <2>3. Enters("number", txn.todo)
    BY <1>3, <2>1, <2>2, EarlyEnters DEF Laying, Numberless
  <2> QED  BY <1>1, <1>2, <1>6, <2>3, SameDisk, Going DEF Still
<1>7. CASE Own # {} /\ txn' = [txn EXCEPT !.gen = Newest(Own), !.at = "close"] /\ Still
  <2> DEFINE g == Newest(Own)
  <2>0. Len(gens) \in Nat /\ Own \in SUBSET (1 .. Len(gens))
    BY TypedThere DEF Own, IInv
  <2>1. g \in 1 .. Len(gens) /\ g \in Nat /\ txn' = [txn EXCEPT !.gen = g, !.at = "close"]
    BY <1>7, <2>0, GreatestOf
  <2> HIDE DEF g
  <2>2. /\ txn' \in Txns /\ Core /\ Marks /\ txn'.at = "close" /\ txn'.todo = txn.todo
        /\ txn'.gen = g /\ txn'.done = txn.done /\ txn'.moved = txn.moved
    BY <1>2, <2>1, NumberFields DEF IInv, Types, TxnTypes
  <2>3. txn.done = <<>> /\ txn.moved = <<>>
    BY <1>3 DEF IInv, ToolsRight, DoneRight, RootRight, MovesRight, MovesFit
  <2>4. DiskTypes' /\ WishTypes' /\ UNCHANGED <<host, boots, life, owners>>
    BY <1>1, <1>7, SameDisk, CalmHere, CalmTypes DEF IInv, Types, Still
  <2>5. TxnTypes'
    <3>1. "close" \in Course("rollback")
      BY DEF Course
    <3> QED  BY <1>1, <1>4, <2>1, <2>2, <3>1 DEF IInv, Types, TxnTypes, Core, diskVars
  <2>6. SelectionRight'
    BY <1>1, <2>2 DEF IInv, SelectionRight, Loads, diskVars
  <2>7. ColdRight'
    BY <2>2, <2>4, ColdFrame DEF IInv, AfterClose, Tooling, Managing, Selecting, Refreshing
  <2>8. ToolsRight'
    <3>1. \A n : /\ IsKept(n)' <=> IsKept(n)
                 /\ Stands(n)' <=> Stands(n)
                 /\ Safe(n)' <=> Safe(n)
      BY <1>1, <2>2 DEF Core, IsKept, Stands, Safe, Brings, diskVars
    <3>2. RecordsRight' /\ ToolsKept'
      BY <1>1, <3>1 DEF IInv, ToolsRight, RecordsRight, ToolsKept, diskVars
    <3>3. \A n : ~IsKept(n)
      BY <2>3 DEF IsKept, In
    <3>4. DoneRight'
      BY <1>4, <2>2, <2>3, <3>1, <3>3 DEF IInv, ToolsRight, DoneRight, Core, Making
    <3>5. ToBeUndone /\ StandRight'
      BY <1>3, <3>1 DEF IInv, ToolsRight, StandRight, ToBeUndone
    <3>6. TodoRight'
      BY <2>2 DEF TodoRight, TodoFits, Tooling
    <3> QED  BY <3>2, <3>4, <3>5, <3>6 DEF ToolsRight
  <2>9. RootRight'
    <3>1. \A n : (IsMoved(n)' <=> IsMoved(n)) /\ (SafePlace(n)' <=> SafePlace(n)) /\ ~IsMoved(n)
      BY <1>1, <2>2, <2>3, MovedSame DEF diskVars, IsMoved, HasMoved
    <3>2. BackupsRight' /\ PlacesKept'
      BY <1>1, <3>1 DEF IInv, RootRight, BackupsRight, PlacesKept, diskVars
    <3>3. MovesRight' /\ MigrationRight' /\ EntriesRight'
      BY <1>4, <2>2, <2>3, <3>1 DEF MovesRight, MovesFit, MigrationRight, EntriesRight, EntriesFit,
         Core, Early
    <3> QED  BY <3>2, <3>3 DEF RootRight
  <2>10. CleanRight'
    BY <1>3, <2>2, CleanOnward DEF IInv, Cleans
  <2> QED  BY <2>4, <2>5, <2>6, <2>7, <2>8, <2>9, <2>10 DEF IInv, Types
<1> QED  BY <1>5, <1>6, <1>7 DEF Pick, Still


-----------------------------------------------------------------------------
(* The spare slot, and the root's tools. *)

LEMMA OnwardMarks ==
  ASSUME IInv, ~Cleans, Locked, UNCHANGED <<gens, host, boots, life, owners>>,
         txn' \in Txns, Core, Marks, txn'.gen = txn.gen,
         txn'.at \in Course(txn.op) \ {"rest", "clean", "restore"},
         txn'.at \notin Numberless => txn.gen # 0,
         AfterClose' => AfterClose
  PROVE  TxnTypes' /\ ColdRight' /\ CleanRight' /\ ~Cleans' /\ Locked'
<1>1. ~Cleans' /\ Locked'
  BY DEF Cleans, Locked
<1>2. TxnTypes'
  BY DEF IInv, Types, TxnTypes, Core
<1>3. ColdRight'
  BY ColdFrame DEF IInv, ColdRight
<1>4. CleanRight'
  BY <1>1, CleanOnward DEF IInv
<1> QED  BY <1>1, <1>2, <1>3, <1>4

LEMMA SlotsTyped ==
  ASSUME IInv, NEW s \in Slots, NEW r \in Releases \union {None},
         slots' = [slots EXCEPT ![s] = r],
         UNCHANGED <<desk, active, gens, temps, tools, kept, root, store, settings, seen, wish>>
  PROVE  DiskTypes' /\ WishTypes' /\ \A t \in Slots : slots'[t] = IF t = s THEN r ELSE slots[t]
<1>1. slots \in [Slots -> Releases \union {None}]
  BY DEF IInv, Types, DiskTypes
<1>2. slots' \in [Slots -> Releases \union {None}]
  BY <1>1
<1>3. \A t \in Slots : slots'[t] = IF t = s THEN r ELSE slots[t]
  BY <1>1
<1>4. DiskTypes' /\ WishTypes'
  BY <1>2 DEF IInv, Types, DiskTypes, WishTypes
<1> QED  BY <1>3, <1>4

\* The programs of another slot are the selection's still.
LEMMA SelectionElsewhere ==
  ASSUME IInv, NEW s \in Slots, NEW r, UNCHANGED <<active, gens>>,
         \A t \in Slots : slots'[t] = IF t = s THEN r ELSE slots[t],
         active # 0 => gens[active].slot # s
  PROVE  active # 0 => Loads(active)'
<1>1. ASSUME active # 0
      PROVE  Loads(active)'
  <2>1. Loads(active)
    BY <1>1 DEF IInv, SelectionRight
  <2>2. gens[active].slot \in Slots
    <3>1. active \in 1 .. Len(gens) /\ gens \in Seq(Generations)
      BY <2>1 DEF Loads, IInv, Types, DiskTypes
    <3>2. gens[active] \in Generations
      BY <3>1
    <3> QED  BY <3>2 DEF Generations
  <2> QED  BY <2>1, <2>2 DEF Loads
<1> QED  BY <1>1

LEMMA RetainKeeps ==
  ASSUME IInv, Retain
  PROVE  IInv'
<1>1. /\ At("retain")
      /\ UNCHANGED <<desk, active, gens, temps, tools, kept, parts, root, store, settings, seen,
                     wish>>
  BY DEF Retain
<1>2. "retain" \in Stages \ {"rest", "clean", "restore"} /\ "lay" \in Stages
  BY DEF Stages, Laying
<1>3. /\ Locked /\ ~Cleans /\ "retain" \in Course(txn.op) /\ txn.op \in Ops /\ txn.at = "retain"
  BY <1>1, <1>2, AtWork, AtHas
<1>4. CASE (Fails \/ (Stop /\ Still)) /\ slots' = slots
  BY <1>1, <1>2, <1>4, SettingsHere, Failing
<1>5. CASE /\ Spare /\ Still /\ slots' = [slots EXCEPT ![txn.slot] = None]
           /\ txn' = [txn EXCEPT !.at = "lay", !.prior = slots[txn.slot]]
  <2>1. slots[txn.slot] \in Releases \union {None} /\ txn.slot \in Slots
    BY TypedThere DEF IInv, Types, DiskTypes
  <2>2. /\ txn' \in Txns /\ Core /\ Marks /\ Work /\ txn'.at = "lay" /\ txn'.todo = txn.todo
    BY <1>2, <1>5, <2>1, RetainFields DEF IInv, Types, TxnTypes
  <2>3. /\ DiskTypes' /\ WishTypes'
        /\ \A t \in Slots : slots'[t] = IF t = txn.slot THEN None ELSE slots[t]
    <3>1. slots' = [slots EXCEPT ![txn.slot] = None]
      BY <1>5
    <3>2. txn.slot \in Slots /\ None \in Releases \union {None}
      BY <2>1
    <3> QED  BY <1>1, <3>1, <3>2, SlotsTyped
  <2>4. active # 0 => gens[active].slot # txn.slot
    BY <1>5 DEF Spare
  <2>5. SelectionRight'
    <3>1. active # 0 => Loads(active)'
      BY <1>1, <2>1, <2>3, <2>4, SelectionElsewhere
    <3> QED  BY <1>1, <2>2, <2>4, <3>1 DEF IInv, SelectionRight, Core
  <2>6. TxnTypes' /\ ColdRight' /\ CleanRight' /\ ~Cleans'
    <3>1. "lay" \in Course(txn.op) /\ "lay" \in Numberless
      BY <1>3 DEF Course, Ops, Laying, Tooling, Managing, Selecting, Refreshing, Ending, Numberless
    <3>2. ~AfterClose'
      BY <2>2 DEF AfterClose, Tooling, Managing, Selecting, Refreshing
    <3> QED  BY <1>1, <1>3, <1>5, <2>2, <3>1, <3>2, OnwardMarks DEF Still, Work
  <2>7. /\ TodoFits("lay", txn.todo) /\ EntriesFit("lay", txn.todo)
        /\ txn.done = <<>> /\ MovesFit("lay", txn.todo, txn.moved)
    BY <1>3, FreeStages DEF IInv, ToolsRight, DoneRight, RootRight, MovesRight, MovesFit, Early,
       Laying, Tooling
  <2>8. ToolsRight' /\ RootRight'
    BY <1>1, <1>3, <2>2, <2>6, <2>7, LenNat, ToolsFrame, RootFrame DEF IInv, Types, Work,
       ToBeUndone, ToBePutBack
  <2> QED  BY <2>3, <2>5, <2>6, <2>8 DEF IInv, Types
<1> QED  BY <1>4, <1>5 DEF Retain

LEMMA LayKeeps ==
  ASSUME IInv, Lay
  PROVE  IInv'
<1>1. /\ At("lay")
      /\ UNCHANGED <<desk, active, gens, temps, tools, kept, parts, root, store, settings, seen,
                     wish>>
  BY DEF Lay
<1>2. "lay" \in Stages \ {"rest", "clean", "restore"} /\ "plan" \in Stages
  BY DEF Stages, Laying
<1>3. /\ Locked /\ ~Cleans /\ "lay" \in Course(txn.op) /\ txn.op \in Ops /\ txn.at = "lay"
      /\ txn.slot \in Slots /\ txn.rel \in Releases \union {None}
      /\ txn.prior \in Releases \union {None}
  BY <1>1, <1>2, AtWork, AtHas, TypedThere DEF IInv
<1>4. PICK r \in Releases \union {None} : slots' = [slots EXCEPT ![txn.slot] = r]
  BY <1>3 DEF Lay
<1>5. /\ DiskTypes' /\ WishTypes'
      /\ \A t \in Slots : slots'[t] = IF t = txn.slot THEN r ELSE slots[t]
  BY <1>1, <1>3, <1>4, SlotsTyped
<1>6. active # 0 => gens[active].slot # txn.slot
  BY <1>3 DEF IInv, SelectionRight
<1>7. active # 0 => Loads(active)'
  BY <1>1, <1>3, <1>5, <1>6, SelectionElsewhere
<1>8. CASE Fails
  <2>1. Stop /\ UNCHANGED <<host, boots, life, owners>>
    BY <1>8 DEF Fails
  <2>2. Core /\ txn'.gen = txn.gen /\ txn'.at = "clean"
    BY <2>1, StopFields DEF IInv, Types, TxnTypes, Work
  <2>3. SelectionRight'
    BY <1>1, <1>7, <2>2 DEF IInv, SelectionRight
  <2>4. TxnTypes' /\ ToolsRight' /\ RootRight' /\ ColdRight' /\ CleanRight'
    BY <1>1, <1>3, <2>1, StopTypes, StopTools, StopRoot, StopMarks DEF IInv, Types
  <2> QED  BY <1>5, <2>3, <2>4 DEF IInv, Types
<1>9. CASE Go("plan") /\ Still
  <2>1. /\ txn' \in Txns /\ Core /\ Marks /\ Work /\ txn'.at = "plan" /\ txn'.todo = txn.todo
    BY <1>2, <1>9, GoFields DEF IInv, Types, TxnTypes, Go
  <2>2. SelectionRight'
    BY <1>1, <1>7, <2>1 DEF IInv, SelectionRight
  <2>3. TxnTypes' /\ ColdRight' /\ CleanRight' /\ ~Cleans'
    <3>1. "plan" \in Course(txn.op) /\ "plan" \in Numberless
      BY <1>3 DEF Course, Ops, Laying, Tooling, Managing, Selecting, Refreshing, Ending, Numberless
    <3>2. ~AfterClose'
      BY <2>1 DEF AfterClose, Tooling, Managing, Selecting, Refreshing
    <3> QED  BY <1>1, <1>3, <1>9, <2>1, <3>1, <3>2, OnwardMarks DEF Still, Work
  <2>4. /\ TodoFits("plan", txn.todo) /\ EntriesFit("plan", txn.todo)
        /\ txn.done = <<>> /\ MovesFit("plan", txn.todo, txn.moved)
    BY <1>3, FreeStages DEF IInv, ToolsRight, DoneRight, RootRight, MovesRight, MovesFit, Early,
       Laying, Tooling
  <2>5. ToolsRight' /\ RootRight'
    BY <1>1, <1>3, <2>1, <2>3, <2>4, LenNat, ToolsFrame, RootFrame DEF IInv, Types, Work,
       ToBeUndone, ToBePutBack
  <2> QED  BY <1>5, <2>2, <2>3, <2>5 DEF IInv, Types
<1> QED  BY <1>8, <1>9 DEF Lay

LEMMA Pushed ==
  ASSUME NEW S, NEW d \in Seq(S), NEW x \in S
  PROVE  /\ <<x>> \o d \in Seq(S) /\ Len(<<x>> \o d) = Len(d) + 1
         /\ (<<x>> \o d)[1] = x /\ \A i \in 1 .. Len(d) : (<<x>> \o d)[i + 1] = d[i]
         /\ \A i \in 1 .. Len(<<x>> \o d) : i = 1 \/ (i - 1 \in 1 .. Len(d) /\ (<<x>> \o d)[i] = d[i - 1])
         /\ \A y : In(y, <<x>> \o d) <=> y = x \/ In(y, d)
<1> DEFINE e == <<x>> \o d
<1>1. /\ e \in Seq(S) /\ Len(e) = Len(d) + 1 /\ Len(d) \in Nat /\ e[1] = x
      /\ \A i \in 1 .. Len(d) : e[i + 1] = d[i]
      /\ \A i \in 1 .. Len(e) : i = 1 \/ (i - 1 \in 1 .. Len(d) /\ e[i] = d[i - 1])
  OBVIOUS
<1> SUFFICES \A y : In(y, e) <=> y = x \/ In(y, d)
  BY <1>1
<1> HIDE DEF e
<1>2. ASSUME NEW y, In(y, e)
      PROVE  y = x \/ In(y, d)
  BY <1>1, <1>2 DEF In
<1>3. In(x, e)
  <2>1. 1 \in 1 .. Len(e)
    BY <1>1
  <2> QED  BY <1>1, <2>1 DEF In
<1>4. ASSUME NEW y, In(y, d)
      PROVE  In(y, e)
  <2>1. PICK i \in 1 .. Len(d) : d[i] = y
    BY <1>4 DEF In
  <2>2. i + 1 \in 1 .. Len(e) /\ e[i + 1] = y
    BY <1>1, <2>1
  <2> QED  BY <2>2 DEF In
<1> QED  BY <1>2, <1>3, <1>4

\* A change is noted once, and a placed tool over the kept one.
LEMMA PushRight ==
  ASSUME NEW d \in Seq({"kept", "placed"} \X Tools), KeptOnce(d), PlacedOverKept(d),
         NEW w \in {"kept", "placed"}, NEW n \in Tools,
         w = "kept" <=> ~In(<<"kept", n>>, d)
  PROVE  KeptOnce(<<<<w, n>>>> \o d) /\ PlacedOverKept(<<<<w, n>>>> \o d)
<1> DEFINE x == <<w, n>>
           e == <<x>> \o d
<1>1. x \in {"kept", "placed"} \X Tools /\ x[1] = w /\ x[2] = n
  OBVIOUS
<1>2. /\ Len(e) = Len(d) + 1 /\ e[1] = x /\ \A i \in 1 .. Len(d) : e[i + 1] = d[i]
      /\ \A i \in 1 .. Len(e) : i = 1 \/ (i - 1 \in 1 .. Len(d) /\ e[i] = d[i - 1])
      /\ Len(d) \in Nat
  BY <1>1, Pushed
<1> SUFFICES KeptOnce(e) /\ PlacedOverKept(e)
  OBVIOUS
<1>3. w = "kept" => \A i \in 1 .. Len(d) : d[i] # x
  BY DEF In
<1> HIDE DEF e, x
<1>4. KeptOnce(e)
  <2> SUFFICES ASSUME NEW i \in 1 .. Len(e), NEW j \in 1 .. Len(e), e[i][1] = "kept", e[i] = e[j]
               PROVE  i = j
    BY DEF KeptOnce
  <2>1. CASE i = 1 /\ j = 1
    BY <2>1
  <2>2. CASE i = 1 /\ j # 1
    BY <1>1, <1>2, <1>3, <2>2
  <2>3. CASE i # 1 /\ j = 1
    BY <1>1, <1>2, <1>3, <2>3
  <2>4. CASE i # 1 /\ j # 1
    <3>1. i - 1 \in 1 .. Len(d) /\ j - 1 \in 1 .. Len(d) /\ e[i] = d[i - 1] /\ e[j] = d[j - 1]
      BY <1>2, <2>4
    <3>2. i - 1 = j - 1
      BY <3>1 DEF KeptOnce
    <3> QED  BY <3>2
  <2> QED  BY <2>1, <2>2, <2>3, <2>4
<1>5. PlacedOverKept(e)
  <2> SUFFICES ASSUME NEW i \in 1 .. Len(e), e[i][1] = "placed"
               PROVE  \E j \in 1 .. Len(e) : i < j /\ e[j] = <<"kept", e[i][2]>>
    BY DEF PlacedOverKept
  <2>1. CASE i = 1
    <3>1. In(<<"kept", n>>, d) /\ e[i][2] = n
      BY <1>1, <1>2, <2>1
    <3>2. PICK j \in 1 .. Len(d) : d[j] = <<"kept", n>>
      BY <3>1 DEF In
    <3>3. j + 1 \in 1 .. Len(e) /\ i < j + 1 /\ e[j + 1] = <<"kept", n>>
      BY <1>2, <2>1, <3>2
    <3> QED  BY <3>1, <3>3
  <2>2. CASE i # 1
    <3>1. i - 1 \in 1 .. Len(d) /\ e[i] = d[i - 1]
      BY <1>2, <2>2
    <3>2. PICK j \in 1 .. Len(d) : i - 1 < j /\ d[j] = <<"kept", d[i - 1][2]>>
      BY <3>1 DEF PlacedOverKept
    <3>3. j + 1 \in 1 .. Len(e) /\ i < j + 1 /\ e[j + 1] = <<"kept", e[i][2]>>
      BY <1>2, <3>1, <3>2
    <3> QED  BY <3>3
  <2> QED  BY <2>1, <2>2
<1> QED  BY <1>4, <1>5

LEMMA Popped ==
  ASSUME NEW S, NEW s \in Seq(S), s # <<>>
  PROVE  /\ Head(s) \in S /\ Head(s) = s[1] /\ Tail(s) \in Seq(S) /\ Len(s) \in Nat \ {0}
         /\ Len(Tail(s)) = Len(s) - 1 /\ \A i \in 1 .. Len(Tail(s)) : Tail(s)[i] = s[i + 1]
         /\ \A i \in 1 .. Len(Tail(s)) : i + 1 \in 1 .. Len(s)
         /\ Once(s) => Once(Tail(s)) /\ \A i \in 1 .. Len(Tail(s)) : Tail(s)[i] # Head(s)
<1>1. /\ Head(s) \in S /\ Head(s) = s[1] /\ Tail(s) \in Seq(S) /\ Len(s) \in Nat \ {0}
      /\ Len(Tail(s)) = Len(s) - 1 /\ \A i \in 1 .. Len(Tail(s)) : Tail(s)[i] = s[i + 1]
  OBVIOUS
<1>2. \A i \in 1 .. Len(Tail(s)) : i + 1 \in 1 .. Len(s)
  BY <1>1
<1>3. ASSUME Once(s)
      PROVE  Once(Tail(s)) /\ \A i \in 1 .. Len(Tail(s)) : Tail(s)[i] # Head(s)
  <2>1. ASSUME NEW i \in 1 .. Len(Tail(s)), NEW j \in 1 .. Len(Tail(s)), Tail(s)[i] = Tail(s)[j]
        PROVE  i = j
    <3>1. i + 1 = j + 1
      BY <1>1, <1>2, <1>3, <2>1 DEF Once
    <3> QED  BY <3>1
  <2>2. ASSUME NEW i \in 1 .. Len(Tail(s)), Tail(s)[i] = Head(s)
        PROVE  FALSE
    <3>1. 1 \in 1 .. Len(s) /\ s[i + 1] = s[1]
      BY <1>1, <2>2
    <3>2. i + 1 = 1
      BY <1>2, <1>3, <3>1 DEF Once
    <3> QED  BY <3>2
  <2>3. Once(Tail(s))
    BY <2>1 DEF Once
  <2> QED  BY <2>2, <2>3
<1> QED  BY <1>1, <1>2, <1>3


\* A tool of the root replaced.
LEMMA ToolTyped ==
  ASSUME IInv, NEW n \in Tools, NEW f \in FilesOf(n), tools' = [tools EXCEPT ![n] = f],
         UNCHANGED <<desk, active, gens, temps, slots, root, store, settings, seen, wish>>
  PROVE  DiskTypes' /\ WishTypes' /\ \A m \in Tools : tools'[m] = IF m = n THEN f ELSE tools[m]
<1>1. tools \in [Tools -> AllFiles] /\ \A m \in Tools : tools[m] \in FilesOf(m)
  BY DEF IInv, Types, DiskTypes
<1>2. f \in AllFiles
  BY DEF AllFiles
<1>3. tools' \in [Tools -> AllFiles] /\ \A m \in Tools : tools'[m] = IF m = n THEN f ELSE tools[m]
  BY <1>1, <1>2
<1>4. \A m \in Tools : tools'[m] \in FilesOf(m)
  BY <1>1, <1>3
<1>5. DiskTypes' /\ WishTypes'
  BY <1>3, <1>4 DEF IInv, Types, DiskTypes, WishTypes
<1> QED  BY <1>3, <1>5

LEMMA MakingThen ==
  ASSUME IInv, NEW s \in {"add", "addplace", "apply", "copy", "place", "retain", "lay", "plan"}, At(s)
  PROVE  txn.op \in Making /\ txn.rel \in Releases
<1>1. txn.at = s /\ txn.at \in Course(txn.op) /\ txn.op \in Ops
  BY TypedThere DEF At, IInv, Types, TxnTypes
<1>2. txn.op \in Making
  BY <1>1 DEF Course, Ops, Laying, Tooling, Managing, Selecting, Refreshing, Ending, Making
<1> QED  BY <1>2 DEF IInv, Types, TxnTypes

LEMMA FreeMoves ==
  ASSUME NEW s, NEW t, NEW l, NEW k, MovesFit(s, l, txn.moved), s # "move", t # "move",
         s \in Early <=> t \in Early, s \notin {"clean", "restore"}
  PROVE  MovesFit(t, k, txn.moved)
BY DEF MovesFit

LEMMA AddPlaceKeeps ==
  ASSUME IInv, PlaceIn("addplace", "add", txn.done)
  PROVE  IInv'
<1>1. /\ At("addplace")
      /\ UNCHANGED <<desk, active, gens, temps, slots, kept, root, store, settings, seen, wish>>
  BY DEF PlaceIn
<1>2. "addplace" \in Stages \ {"rest", "clean", "restore"} /\ "add" \in Stages
  BY DEF Stages, Laying
<1>3. /\ Locked /\ ~Cleans /\ "addplace" \in Course(txn.op) /\ txn.op \in Making
      /\ txn.at = "addplace" /\ txn.rel \in Releases /\ txn.at \in Early
  BY <1>1, <1>2, AtWork, AtHas, MakingThen DEF Early, Laying
<1>4. CASE Fails /\ tools' = tools
  BY <1>1, <1>2, <1>4, SettingsHere, Failing
<1>5. CASE /\ tools' = [tools EXCEPT ![Name] = Brings(Name)] /\ Still
           /\ txn' = [txn EXCEPT !.at = "add", !.todo = Rest, !.done = txn.done]
  <2>0. /\ txn.todo # <<>> /\ txn.todo \in Seq(Tools \union Places)
        /\ \A i \in 1 .. Len(txn.todo) :
              txn.todo[i] \in Tools /\ txn.before.tools[txn.todo[i]] = None /\ Safe(txn.todo[i])
    BY <1>3, TypedThere DEF IInv, ToolsRight, TodoRight, TodoFits
  <2>1. /\ Name \in Tools /\ txn.before.tools[Name] = None /\ Safe(Name)
        /\ Rest \in Seq(Tools \union Places)
        /\ \A i \in 1 .. Len(Rest) :
              Rest[i] \in Tools /\ txn.before.tools[Rest[i]] = None /\ Safe(Rest[i])
    BY <2>0, Popped DEF Name, Rest
  <2>n. PICK n \in Tools : n = Name
    BY <2>1
  <2>2. /\ txn' \in Txns /\ Core /\ Marks /\ txn'.at = "add" /\ txn'.todo = Rest
        /\ txn'.gen = txn.gen /\ txn'.done = txn.done /\ txn'.moved = txn.moved
    <3>1. "add" \in Stages /\ txn \in Txns /\ txn.done \in Seq({"kept", "placed"} \X Tools)
      BY <1>2, TypedThere DEF IInv, Types, TxnTypes
    <3> QED  BY <1>5, <2>1, <3>1, PlaceFields
  <2>3. Brings(Name) \in FilesOf(Name)
    BY <1>3 DEF Brings, FilesOf
  <2>4. /\ DiskTypes' /\ WishTypes'
        /\ \A m \in Tools : tools'[m] = IF m = Name THEN Brings(Name) ELSE tools[m]
    BY <1>1, <1>5, <2>1, <2>3, ToolTyped
  <2>5. TxnTypes' /\ ColdRight' /\ CleanRight' /\ ~Cleans'
    <3>1. "add" \in Course(txn.op) /\ "add" \in Numberless
      BY <1>3 DEF Course, Making, Laying, Numberless
    <3>2. ~AfterClose'
      BY <2>2 DEF AfterClose, Tooling, Managing, Selecting, Refreshing
    <3> QED  BY <1>1, <1>3, <1>5, <2>2, <3>1, <3>2, OnwardMarks DEF Still, Work
  <2>6. SelectionRight'
    BY <1>1, <2>2, SelectionFrame DEF IInv
  <2>7. RootRight'
    <3>1. EntriesFit("add", Rest) /\ MovesFit("add", Rest, txn.moved)
      BY <1>3, FreeStages, FreeMoves DEF IInv, RootRight, MovesRight, Early, Laying
    <3> QED  BY <1>1, <1>3, <2>2, <2>5, <3>1, LenNat, RootFrame DEF IInv, Types, ToBePutBack
  <2>8. ToolsRight'
    <3>1. \A m : (IsKept(m)' <=> IsKept(m)) /\ (Safe(m)' <=> Safe(m))
      BY <1>1, <2>2 DEF IsKept, Safe
    <3>2. \A m \in Tools : m # n => (Stands(m) => Stands(m)')
      BY <2>n, <2>2, <2>4 DEF Stands, Core, Brings
    <3>3. Stands(n)'
      BY <2>1, <2>n, <2>2, <2>4 DEF Stands, Core, Brings
    <3>4. RecordsRight'
      BY <1>1 DEF IInv, ToolsRight, RecordsRight
    <3>5. DoneRight'
      BY <1>1, <1>3, <2>2, <2>5, <3>1 DEF IInv, ToolsRight, DoneRight, Core
    <3>6. StandRight'
      <4>1. ToBeUndone
        BY <1>3 DEF ToBeUndone
      <4> QED  BY <2>n, <3>1, <3>2, <3>3, <4>1 DEF IInv, ToolsRight, StandRight
    <3>7. TodoRight'
      BY <2>1, <2>2, <3>1 DEF TodoRight, TodoFits, Core, Tooling
    <3>8. ToolsKept'
      BY <1>1, <2>1, <2>4, <3>1 DEF IInv, ToolsRight, ToolsKept
    <3> QED  BY <3>4, <3>5, <3>6, <3>7, <3>8 DEF ToolsRight
  <2> QED  BY <2>4, <2>5, <2>6, <2>7, <2>8 DEF IInv, Types
<1> QED  BY <1>4, <1>5 DEF PlaceIn

LEMMA PlaceKeeps ==
  ASSUME IInv, Place
  PROVE  IInv'
<1>1. /\ At("place")
      /\ UNCHANGED <<desk, active, gens, temps, slots, kept, root, store, settings, seen, wish>>
  BY DEF Place, PlaceIn
<1>2. "place" \in Stages \ {"rest", "clean", "restore"} /\ "apply" \in Stages
  BY DEF Stages, Tooling
<1>3. /\ Locked /\ ~Cleans /\ "place" \in Course(txn.op) /\ txn.op \in Making
      /\ txn.at = "place" /\ txn.rel \in Releases /\ txn.gen # 0
  BY <1>1, <1>2, AtWork, AtHas, MakingThen DEF Numberless, Laying
<1>4. CASE Fails /\ tools' = tools
  BY <1>1, <1>2, <1>4, SettingsHere, Failing
<1>5. CASE /\ tools' = [tools EXCEPT ![Name] = Brings(Name)] /\ Still
           /\ txn' = [txn EXCEPT !.at = "apply", !.todo = Rest,
                                 !.done = <<<<"placed", Name>>>> \o txn.done]
  <2> DEFINE d == <<<<"placed", Name>>>> \o txn.done
  <2>0. /\ txn.todo # <<>> /\ txn.todo \in Seq(Tools \union Places) /\ Once(txn.todo)
        /\ \A i \in 1 .. Len(txn.todo) :
                /\ txn.todo[i] \in Tools /\ txn.before.tools[txn.todo[i]] # None
                /\ IsKept(txn.todo[i]) <=> i = 1
    BY <1>3, TypedThere DEF IInv, ToolsRight, TodoRight, TodoFits, Tooling
  <2>1. /\ Name \in Tools /\ IsKept(Name) /\ Rest \in Seq(Tools \union Places) /\ Once(Rest)
        /\ \A i \in 1 .. Len(Rest) :
              Rest[i] \in Tools /\ txn.before.tools[Rest[i]] # None /\ ~IsKept(Rest[i])
    <3>1. /\ Name = txn.todo[1] /\ Rest \in Seq(Tools \union Places) /\ Once(Rest)
          /\ Len(txn.todo) \in Nat \ {0}
          /\ \A i \in 1 .. Len(Rest) : Rest[i] = txn.todo[i + 1] /\ i + 1 \in 1 .. Len(txn.todo)
      BY <2>0, Popped DEF Name, Rest
    <3>2. Len(Rest) \in Nat
      BY <3>1
    <3> QED  BY <2>0, <3>1, <3>2
  <2>2. txn.done \in Seq({"kept", "placed"} \X Tools) /\ <<"placed", Name>> \in {"kept", "placed"} \X Tools
    BY <2>1, TypedThere DEF IInv
  <2>3. /\ d \in Seq({"kept", "placed"} \X Tools)
        /\ \A n : In(<<"kept", n>>, d) <=> In(<<"kept", n>>, txn.done)
    BY <2>2, Pushed
  <2>4. KeptOnce(d) /\ PlacedOverKept(d)
    BY <2>1, <2>2, PushRight DEF IsKept, IInv, ToolsRight, DoneRight
  <2>5. txn' = [txn EXCEPT !.at = "apply", !.todo = Rest, !.done = d]
    BY <1>5
  <2> HIDE DEF d
  <2>6. /\ txn' \in Txns /\ Core /\ Marks /\ txn'.at = "apply" /\ txn'.todo = Rest
        /\ txn'.gen = txn.gen /\ txn'.done = d /\ txn'.moved = txn.moved
    BY <1>2, <2>1, <2>3, <2>5, PlaceFields DEF IInv, Types, TxnTypes
  <2>7. Brings(Name) \in FilesOf(Name)
    BY <1>3 DEF Brings, FilesOf
  <2>8. /\ DiskTypes' /\ WishTypes'
        /\ \A m \in Tools : tools'[m] = IF m = Name THEN Brings(Name) ELSE tools[m]
    BY <1>1, <1>5, <2>1, <2>7, ToolTyped
  <2>9. TxnTypes' /\ ColdRight' /\ CleanRight' /\ ~Cleans'
    <3>1. "apply" \in Course(txn.op)
      BY <1>3 DEF Course, Making, Tooling
    <3>2. AfterClose
      BY <1>3 DEF AfterClose, Tooling
    <3> QED  BY <1>1, <1>3, <1>5, <2>6, <3>1, <3>2, OnwardMarks DEF Still, Work
  <2>10. SelectionRight'
    BY <1>1, <2>6, SelectionFrame DEF IInv
  <2>11. RootRight'
    <3>1. EntriesFit("apply", Rest) /\ MovesFit("apply", Rest, txn.moved)
      BY <1>3, FreeStages, FreeMoves DEF IInv, RootRight, MovesRight, Early, Laying
    <3> QED  BY <1>1, <1>3, <2>6, <2>9, <3>1, LenNat, RootFrame DEF IInv, Types, ToBePutBack
  <2>12. ToolsRight'
    <3>1. \A n : (IsKept(n)' <=> IsKept(n)) /\ (Safe(n)' <=> Safe(n))
      BY <1>1, <2>3, <2>6 DEF IsKept, Safe
    <3>2. \A n \in Tools : n # Name => (Stands(n) => Stands(n)')
      BY <2>1, <2>6, <2>8 DEF Stands, Core, Brings
    <3>3. RecordsRight'
      BY <1>1 DEF IInv, ToolsRight, RecordsRight
    <3>4. DoneRight'
      BY <1>1, <1>3, <2>4, <2>6, <2>9, <3>1 DEF IInv, ToolsRight, DoneRight, Core, Early, Laying
    <3>5. StandRight'
      <4>1. ToBeUndone
        BY <1>3 DEF ToBeUndone
      <4> QED  BY <2>1, <3>1, <3>2, <4>1 DEF IInv, ToolsRight, StandRight
    <3>6. TodoRight'
      BY <2>1, <2>6, <3>1 DEF TodoRight, TodoFits, Core, Tooling
    <3>7. ToolsKept'
      BY <1>1, <2>1, <2>8, <3>1 DEF IInv, ToolsRight, ToolsKept, DoneRight
    <3> QED  BY <3>3, <3>4, <3>5, <3>6, <3>7 DEF ToolsRight
  <2> QED  BY <2>8, <2>9, <2>10, <2>11, <2>12 DEF IInv, Types
<1> QED  BY <1>4, <1>5 DEF Place, PlaceIn


\* What is kept stays kept.
LEMMA SafeStill ==
  ASSUME desk' = desk, kept \subseteq kept'
  PROVE  \A n : Safe(n) => Safe(n)'
BY DEF Safe

LEMMA KeepDone ==
  ASSUME IInv, At("apply"), txn.todo # <<>>, UNCHANGED <<host, boots, life, owners>>,
         UNCHANGED <<desk, active, gens, temps, slots, parts, root, store, settings, seen, wish>>,
         NEW n \in Tools, n = Name,
         NEW new, new = [name |-> n, was |-> tools[n], gen |-> txn.gen],
         NEW d, d = <<<<"kept", n>>>> \o txn.done,
         NEW s, s = IF Brings(n) = None THEN "apply" ELSE "copy",
         NEW l, l = IF Brings(n) = None THEN Rest ELSE txn.todo,
         kept' = kept \union {new}, tools' = [tools EXCEPT ![n] = None],
         txn' \in Txns, Core, Marks, txn'.at = s, txn'.todo = l, txn'.gen = txn.gen, txn'.done = d,
         txn'.moved = txn.moved
  PROVE  IInv'
<1>2. "apply" \in Stages \ {"rest", "clean", "restore"} /\ "copy" \in Stages
  BY DEF Stages, Tooling
<1>3. /\ Locked /\ ~Cleans /\ "apply" \in Course(txn.op) /\ txn.op \in Making
      /\ txn.at = "apply" /\ txn.rel \in Releases /\ txn.gen # 0
  BY <1>2, AtWork, AtHas, MakingThen DEF Numberless, Laying
<1>4. /\ txn.todo \in Seq(Tools \union Places) /\ Once(txn.todo)
      /\ \A i \in 1 .. Len(txn.todo) :
              /\ txn.todo[i] \in Tools /\ txn.before.tools[txn.todo[i]] # None
              /\ ~IsKept(txn.todo[i])
  BY <1>3, TypedThere DEF IInv, ToolsRight, TodoRight, TodoFits, Tooling
<1>5. /\ n = txn.todo[1] /\ Rest \in Seq(Tools \union Places) /\ Once(Rest)
      /\ Len(txn.todo) \in Nat \ {0} /\ Len(Rest) \in Nat
      /\ \A i \in 1 .. Len(Rest) : Rest[i] = txn.todo[i + 1] /\ i + 1 \in 1 .. Len(txn.todo)
      /\ \A i \in 1 .. Len(Rest) : Rest[i] # n
  <2>1. \A i \in 1 .. Len(Rest) : Rest[i] # n
    BY <1>4, Popped DEF Name, Rest
  <2> QED  BY <1>4, <2>1, Popped DEF Name, Rest
<1>6. txn.before.tools[n] # None /\ ~IsKept(n)
  <2>1. 1 \in 1 .. Len(txn.todo)
    BY <1>5
  <2> QED  BY <1>4, <1>5, <2>1
<1>7. \A i \in 1 .. Len(Rest) :
         /\ Rest[i] \in Tools /\ txn.before.tools[Rest[i]] # None
         /\ ~IsKept(Rest[i])
  BY <1>4, <1>5
<1>8. /\ txn.done \in Seq({"kept", "placed"} \X Tools)
      /\ <<"kept", n>> \in {"kept", "placed"} \X Tools
  BY <1>6, TypedThere DEF IInv
<1>9. /\ d \in Seq({"kept", "placed"} \X Tools)
      /\ \A m : In(<<"kept", m>>, d) <=> m = n \/ In(<<"kept", m>>, txn.done)
  <2> DEFINE x == <<"kept", n>>
             S == {"kept", "placed"} \X Tools
  <2>1. x \in S /\ d = <<x>> \o txn.done /\ txn.done \in Seq(S)
    BY <1>8
  <2>2. \A m : <<"kept", m>> = x <=> m = n
    OBVIOUS
  <2> HIDE DEF x, S
  <2>3. <<x>> \o txn.done \in Seq(S)
    BY <2>1, Pushed
  <2>4. \A y : In(y, <<x>> \o txn.done) <=> y = x \/ In(y, txn.done)
    BY <2>1, Pushed
  <2>5. d \in Seq(S) /\ \A m : In(<<"kept", m>>, d) <=> m = n \/ In(<<"kept", m>>, txn.done)
    BY <2>1, <2>2, <2>3, <2>4
  <2> QED  BY <2>5 DEF S
<1>10. KeptOnce(d) /\ PlacedOverKept(d)
  BY <1>6, <1>8, PushRight DEF IsKept, IInv, ToolsRight, DoneRight
<1>11. s \in {"apply", "copy"} /\ l \in Seq(Tools \union Places)
  BY <1>4, <1>5
<1>13. new.name = n /\ new.was = tools[n] /\ new.gen = txn.gen /\ kept' = kept \union {new}
  OBVIOUS
<1>14. /\ txn' \in Txns /\ Core /\ Marks /\ txn'.at = s /\ txn'.todo = l
       /\ txn'.gen = txn.gen /\ txn'.done = d /\ txn'.moved = txn.moved
  OBVIOUS
<1>15. /\ DiskTypes' /\ WishTypes'
       /\ \A m \in Tools : tools'[m] = IF m = n THEN None ELSE tools[m]
  <2>1. None \in FilesOf(n)
    BY DEF FilesOf
  <2> QED  BY <1>6, <2>1, ToolTyped
<1>16. TxnTypes' /\ ColdRight' /\ CleanRight' /\ ~Cleans'
  <2>1. "apply" \in Course(txn.op) /\ "copy" \in Course(txn.op)
    BY <1>3 DEF Course, Making, Tooling
  <2>2. AfterClose
    BY <1>3 DEF AfterClose, Tooling
  <2> QED  BY <1>3, <1>11, <1>14, <2>1, <2>2, OnwardMarks
<1>17. SelectionRight'
  BY <1>11, <1>14, SelectionFrame DEF IInv
<1>18. RootRight'
  <2>1. EntriesFit(s, l) /\ MovesFit(s, l, txn.moved)
    BY <1>3, <1>11, FreeStages, FreeMoves DEF IInv, RootRight, MovesRight, Early, Laying
  <2> QED  BY <1>3, <1>14, <1>16, <2>1, LenNat, RootFrame DEF IInv, Types, ToBePutBack
<1>19. Stands(n) /\ tools[n] = txn.before.tools[n]
  <2>1. ToBeUndone
    BY <1>3 DEF ToBeUndone
  <2> QED  BY <1>6, <2>1 DEF IInv, ToolsRight, StandRight, Stands
<1>20. \A m : IsKept(m)' <=> m = n \/ IsKept(m)
  BY <1>9, <1>14 DEF IsKept
<1>21. \A m : Safe(m) => Safe(m)'
  BY SafeStill
<1>22. Safe(n)'
  <2>1. CASE tools[n] = desk.tools[n]
    BY <1>13, <2>1 DEF Safe
  <2>2. CASE Safe(n)
    BY <1>21, <2>2
  <2> QED  BY <1>6, <2>1, <2>2 DEF IInv, ToolsRight, ToolsKept
<1>23. RecordsRight'
  <2>1. tools[n] \in FilesOf(n) /\ txn.gen \in 1 .. Len(gens)
    BY <1>3, <1>6 DEF IInv, Types, DiskTypes, TxnTypes
  <2> QED  BY <1>6, <1>13, <2>1 DEF IInv, ToolsRight, RecordsRight
<1>24. DoneRight'
  <2>1. ASSUME NEW m \in Tools, IsKept(m)'
        PROVE  Safe(m)' /\ \E k \in kept' : k.name = m /\ k.gen = txn'.gen
    <3>1. CASE m = n
      BY <1>13, <1>14, <1>22, <3>1
    <3>2. CASE IsKept(m)
      BY <1>13, <1>14, <1>21, <3>2 DEF IInv, ToolsRight, DoneRight
    <3> QED  BY <1>20, <2>1, <3>1, <3>2
  <2>2. ASSUME NEW k \in kept', k.gen = txn'.gen
        PROVE  k.was = txn'.before.tools[k.name] /\ IsKept(k.name)'
    <3>1. CASE k = new
      BY <1>13, <1>14, <1>19, <1>20, <3>1 DEF Core
    <3>2. CASE k \in kept
      <4>1. IsKept(k.name) /\ k.was = txn.before.tools[k.name]
        BY <1>3, <1>14, <2>2, <3>2 DEF IInv, ToolsRight, DoneRight
      <4> QED  BY <1>14, <1>20, <4>1 DEF Core
    <3> QED  BY <1>13, <2>2, <3>1, <3>2
  <2>3. txn'.at \notin Early \union {"move"}
    BY <1>11, <1>14 DEF Early, Laying
  <2> QED  BY <1>10, <1>14, <2>1, <2>2, <2>3 DEF DoneRight
<1>25. StandRight'
  <2>1. ToBeUndone
    BY <1>3 DEF ToBeUndone
  <2>2. \A m \in Tools : m # n => (Stands(m) => Stands(m)')
    BY <1>6, <1>14, <1>15 DEF Stands, Core, Brings
  <2> QED  BY <1>20, <2>1, <2>2 DEF IInv, ToolsRight, StandRight
<1>26. TodoRight'
  <2>1. CASE Brings(n) = None
    <3>1. txn'.at = "apply" /\ txn'.todo = Rest
      BY <1>14, <2>1
    <3>2. \A i \in 1 .. Len(Rest) : ~In(<<"kept", Rest[i]>>, d)
      BY <1>5, <1>7, <1>9 DEF IsKept
    <3> QED  BY <1>5, <1>7, <1>14, <3>1, <3>2 DEF TodoRight, TodoFits, Core, Tooling, IsKept
  <2>2. CASE Brings(n) # None
    <3>1. txn'.at = "copy" /\ txn'.todo = txn.todo
      BY <1>14, <2>2
    <3>2. ASSUME NEW i \in 1 .. Len(txn.todo)
          PROVE  In(<<"kept", txn.todo[i]>>, d) <=> i = 1
      <4>1. 1 \in 1 .. Len(txn.todo) /\ ~IsKept(txn.todo[i])
        BY <1>4, <1>5
      <4>2. txn.todo[i] = n <=> i = 1
        BY <1>4, <1>5, <4>1 DEF Once
      <4> QED  BY <1>9, <4>1, <4>2 DEF IsKept
    <3> QED  BY <1>4, <1>14, <3>1, <3>2 DEF TodoRight, TodoFits, Core, Tooling, IsKept
  <2> QED  BY <2>1, <2>2
<1>27. ToolsKept'
  BY <1>6, <1>15, <1>21, <1>22 DEF IInv, ToolsRight, ToolsKept
<1> QED  BY <1>15, <1>16, <1>17, <1>18, <1>23, <1>24, <1>25, <1>26, <1>27
         DEF IInv, Types, ToolsRight

LEMMA KeepKeeps ==
  ASSUME IInv, Keep
  PROVE  IInv'
<1>1. /\ At("apply") /\ txn.todo # <<>> /\ "apply" \in Stages \ {"rest", "clean", "restore"}
      /\ UNCHANGED <<desk, active, gens, temps, slots, parts, root, store, settings, seen, wish>>
  BY DEF Keep, Stages, Tooling
<1>2. CASE Fails /\ kept' = kept /\ tools' = tools
  BY <1>1, <1>2, SettingsHere, Failing
<1>3. CASE /\ Still
           /\ kept' = kept \union {[name |-> Name, was |-> tools[Name], gen |-> txn.gen]}
           /\ tools' = [tools EXCEPT ![Name] = None]
           /\ txn' = [txn EXCEPT
                !.done = <<<<"kept", Name>>>> \o txn.done,
                !.at = IF Brings(Name) = None THEN "apply" ELSE "copy",
                !.todo = IF Brings(Name) = None THEN Rest ELSE txn.todo]
  <2>1. Name \in Tools
    <3>1. /\ txn.todo \in Seq(Tools \union Places)
          /\ \A i \in 1 .. Len(txn.todo) : txn.todo[i] \in Tools
      BY <1>1, AtHas, TypedThere DEF IInv, ToolsRight, TodoRight, TodoFits, Tooling
    <3>2. Name = txn.todo[1] /\ 1 \in 1 .. Len(txn.todo)
      BY <1>1, <3>1, Popped DEF Name
    <3> QED  BY <3>1, <3>2
  <2> DEFINE n == Name
             new == [name |-> n, was |-> tools[n], gen |-> txn.gen]
             d == <<<<"kept", n>>>> \o txn.done
             s == IF Brings(n) = None THEN "apply" ELSE "copy"
             l == IF Brings(n) = None THEN Rest ELSE txn.todo
  <2>2. /\ kept' = kept \union {new} /\ tools' = [tools EXCEPT ![n] = None]
        /\ txn' = [txn EXCEPT !.done = d, !.at = s, !.todo = l]
        /\ UNCHANGED <<host, boots, life, owners>>
    BY <1>3 DEF Still
  <2>3. /\ txn.done \in Seq({"kept", "placed"} \X Tools) /\ <<"kept", n>> \in {"kept", "placed"} \X Tools
        /\ s \in Stages /\ txn.todo \in Seq(Tools \union Places) /\ txn \in Txns
    BY <2>1, TypedThere DEF IInv, Types, TxnTypes, Stages, Tooling
  <2>4. d \in Seq({"kept", "placed"} \X Tools)
    BY <2>3, Pushed
  <2>5. l \in Seq(Tools \union Places)
    BY <1>1, <2>3, Popped DEF Rest
  <2> HIDE DEF d, s, l
  <2>6. /\ txn' \in Txns /\ Core /\ Marks /\ txn'.at = s /\ txn'.todo = l
        /\ txn'.gen = txn.gen /\ txn'.done = d /\ txn'.moved = txn.moved
    BY <2>2, <2>3, <2>4, <2>5, KeepFields
  <2> QED  BY <1>1, <2>1, <2>2, <2>6, KeepDone DEF d, s, l
<1> QED  BY <1>2, <1>3 DEF Keep


-----------------------------------------------------------------------------
(* The generation. *)

\* A generation more is a generation like the others.
LEMMA Appended ==
  ASSUME NEW s \in Seq(Generations), NEW x \in Generations
  PROVE  /\ Append(s, x) \in Seq(Generations) /\ Len(Append(s, x)) = Len(s) + 1
         /\ Len(s) \in Nat
         /\ \A g \in 1 .. Len(s) : Append(s, x)[g] = s[g]
         /\ Append(s, x)[Len(s) + 1] = x
OBVIOUS

LEMMA ShapeTyped ==
  ASSUME IInv, At("number")
  PROVE  Shape \in Shapes
<1>1. /\ txn.at = "number" /\ txn.at \in Course(txn.op) /\ txn.op \in Ops
      /\ txn.base \in 0 .. Len(gens) /\ Len(gens) \in Nat
      /\ txn.op \in Replacing => txn.base # 0
  BY TypedThere DEF At, IInv, Types, TxnTypes
<1>2. txn.op \in Making \union Replacing
  BY <1>1 DEF Course, Ops, Laying, Tooling, Managing, Selecting, Refreshing, Ending, Making, Replacing
<1>3. desk.shape \in Shapes
  BY DEF IInv, Types, DiskTypes, DeskTypes
<1>4. txn.op \in Replacing => gens[txn.base].shape \in Shapes
  <2> SUFFICES ASSUME txn.op \in Replacing PROVE gens[txn.base].shape \in Shapes
    OBVIOUS
  <2>1. txn.base \in 1 .. Len(gens) /\ gens \in Seq(Generations)
    BY <1>1 DEF IInv, Types, DiskTypes
  <2>2. gens[txn.base] \in Generations
    BY <2>1
  <2> QED  BY <2>2 DEF Generations
<1>5. \A x \in Shapes : Migrated(x) \in Shapes
  BY DEF Migrated, Shapes
<1>6. "plain" \in Shapes
  BY DEF Shapes
<1> QED  BY <1>2, <1>3, <1>4, <1>5, <1>6 DEF Shape, Making, Replacing

\* Nothing of the root was moved out under a number not given yet.
LEMMA NumberedKeeps ==
  ASSUME IInv, At("number"), UNCHANGED <<host, boots, life, owners>>,
         UNCHANGED <<desk, active, temps, slots, tools, kept, parts, root, store, settings,
                     seen, wish>>,
         NEW n \in Nat, n = Len(gens) + 1,
         NEW x \in Generations, x.from \in 0 .. Len(gens), Fits(x.shape, x.rel),
         gens' = Append(gens, x),
         txn' = [txn EXCEPT !.gen = n, !.at = "seal"]
  PROVE  IInv'
<1>1. "number" \in Stages \ {"rest", "clean", "restore"} /\ "seal" \in Stages
  BY DEF Stages, Laying
<1>2. /\ Locked /\ ~Cleans /\ "number" \in Course(txn.op) /\ txn.op \in Ops \ {"none"}
      /\ txn.at = "number" /\ txn.at \in Early
  BY <1>1, AtWork, AtHas DEF Early, Laying
<1>3. /\ txn' \in Txns /\ Core /\ Marks /\ txn'.at = "seal" /\ txn'.todo = txn.todo
      /\ txn'.gen = n /\ txn'.done = txn.done /\ txn'.moved = txn.moved
  BY <1>1, NumberFields DEF IInv, Types, TxnTypes
<1>4. txn.done = <<>> /\ txn.moved = <<>>
  BY <1>2 DEF IInv, ToolsRight, DoneRight, RootRight, MovesRight, MovesFit
<1>5. /\ gens \in Seq(Generations) /\ \A g \in 1 .. Len(gens) : gens[g].from \in 0 .. Len(gens)
      /\ active \in 0 .. Len(gens) /\ temps \subseteq (-Len(gens)) .. Len(gens)
      /\ seen \in 0 .. Len(gens) /\ txn.base \in 0 .. Len(gens)
  BY DEF IInv, Types, DiskTypes, WishTypes, TxnTypes
<1>6. /\ gens' \in Seq(Generations) /\ Len(gens') = n /\ Len(gens) \in Nat
      /\ \A g \in 1 .. Len(gens) : gens'[g] = gens[g]
      /\ gens'[n] = x
  BY <1>5, Appended
<1>7. \A g \in 1 .. n : g = n \/ g \in 1 .. Len(gens)
  BY <1>6
<1>8. DiskTypes'
  <2>1. \A g \in 1 .. n : gens'[g].from \in 0 .. n
    BY <1>5, <1>6, <1>7
  <2>2. active \in 0 .. n /\ temps \subseteq (-n) .. n
    BY <1>5, <1>6
  <2> QED  BY <1>6, <2>1, <2>2 DEF IInv, Types, DiskTypes
<1>9. WishTypes'
  BY <1>5, <1>6 DEF IInv, Types, WishTypes
<1>10. TxnTypes'
  <2>1. "seal" \in Course(txn.op)
    BY <1>2 DEF Course, Ops, Laying, Tooling, Managing, Selecting, Refreshing, Ending
  <2>2. n \in 0 .. Len(gens') /\ txn.base \in 0 .. Len(gens') /\ n # 0
    BY <1>5, <1>6
  <2> QED  BY <1>3, <2>1, <2>2 DEF IInv, Types, TxnTypes, Core
<1>11. SelectionRight'
  <2>1. \A g \in 1 .. n : Fits(gens'[g].shape, gens'[g].rel)
    BY <1>6, <1>7 DEF IInv, SelectionRight
  <2>2. active # 0 => Loads(active)'
    BY <1>5, <1>6 DEF IInv, SelectionRight, Loads
  <2> QED  BY <1>3, <1>6, <2>1, <2>2 DEF SelectionRight
<1>12. ColdRight'
  BY <1>3, ColdFrame DEF IInv, AfterClose, Tooling, Managing, Selecting, Refreshing
<1>13. ToolsRight'
  <2>1. \A m : /\ IsKept(m)' <=> IsKept(m)
               /\ Stands(m)' <=> Stands(m)
               /\ Safe(m)' <=> Safe(m)
    BY <1>3 DEF Core, IsKept, Stands, Safe, Brings
  <2>2. ToolsKept'
    BY <2>1 DEF IInv, ToolsRight, ToolsKept
  <2>3. RecordsRight'
    BY <1>6 DEF IInv, ToolsRight, RecordsRight
  <2>4. \A m : ~IsKept(m)
    BY <1>4 DEF IsKept, In
  <2>5. \A k \in kept : k.gen # n
    BY <1>6 DEF IInv, ToolsRight, RecordsRight
  <2>6. DoneRight'
    BY <1>3, <1>4, <2>1, <2>4, <2>5 DEF IInv, ToolsRight, DoneRight
  <2>7. ToBeUndone /\ StandRight'
    BY <1>2, <2>1 DEF IInv, ToolsRight, StandRight, ToBeUndone
  <2>8. TodoRight'
    BY <1>3 DEF TodoRight, TodoFits, Tooling
  <2> QED  BY <2>2, <2>3, <2>6, <2>7, <2>8 DEF ToolsRight
<1>14. RootRight'
  <2>1. \A m : (IsMoved(m)' <=> IsMoved(m)) /\ (SafePlace(m)' <=> SafePlace(m)) /\ ~IsMoved(m)
    BY <1>3, <1>4, MovedSame DEF IsMoved, HasMoved
  <2>2. PlacesKept'
    BY <2>1 DEF IInv, RootRight, PlacesKept
  <2>3. BackupsRight' /\ \A k \in store : k.gen # n
    BY <1>6 DEF IInv, RootRight, BackupsRight
  <2>4. MovesRight' /\ EntriesRight'
    BY <1>3, <1>4, <2>1 DEF MovesRight, MovesFit, EntriesRight, EntriesFit, Early, Laying
  <2>5. ToBePutBack
    BY <1>2 DEF ToBePutBack
  <2>6. MigrationRight'
    BY <1>3, <2>1, <2>3, <2>5 DEF IInv, RootRight, MigrationRight, Core
  <2> QED  BY <2>2, <2>3, <2>4, <2>6 DEF RootRight
<1>15. CleanRight'
  BY <1>2, <1>3, CleanOnward DEF IInv, Cleans
<1> QED  BY <1>8, <1>9, <1>10, <1>11, <1>12, <1>13, <1>14, <1>15 DEF IInv, Types

LEMMA NumberKeeps ==
  ASSUME IInv, Number
  PROVE  IInv'
<1> DEFINE x == [slot |-> txn.slot, rel |-> slots[txn.slot], shape |-> Shape, from |-> txn.base,
                 ready |-> FALSE]
           n == Len(gens) + 1
<1>1. /\ At("number")
      /\ UNCHANGED <<desk, active, temps, slots, tools, kept, parts, root, store, settings, seen,
                     wish>>
  BY DEF Number
<1>2. "number" \in Stages \ {"rest", "clean", "restore"}
  BY DEF Stages, Laying
<1>3. CASE (Fails \/ (Stop /\ Still)) /\ gens' = gens
  BY <1>1, <1>2, <1>3, SettingsHere, Failing
<1>4. CASE /\ Fits(Shape, slots[txn.slot]) /\ Still
           /\ gens' = Append(gens, x) /\ txn' = [txn EXCEPT !.gen = n, !.at = "seal"]
  <2>1. /\ txn.slot \in Slots /\ slots[txn.slot] \in Releases \union {None}
        /\ Shape \in Shapes /\ txn.base \in 0 .. Len(gens) /\ txn.base \in Nat /\ n \in Nat
    BY <1>1, TypedThere, ShapeTyped DEF IInv, Types, DiskTypes, TxnTypes
  <2>2. /\ x \in Generations /\ x.from = txn.base /\ x.shape = Shape
        /\ x.rel = slots[txn.slot]
    BY <2>1 DEF Generations
  <2> HIDE DEF x
  <2> QED  BY <1>1, <1>4, <2>1, <2>2, NumberedKeeps DEF Still
<1> QED  BY <1>3, <1>4 DEF Number

LEMMA Replaced ==
  ASSUME NEW S, NEW s \in Seq(S), NEW g \in 1 .. Len(s), NEW x \in S
  PROVE  /\ [s EXCEPT ![g] = x] \in Seq(S) /\ Len([s EXCEPT ![g] = x]) = Len(s)
         /\ \A h \in 1 .. Len(s) : [s EXCEPT ![g] = x][h] = IF h = g THEN x ELSE s[h]
OBVIOUS

\* A generation accepted.
LEMMA SealedSame ==
  ASSUME IInv, NEW g \in 1 .. Len(gens), NEW x, x = [gens[g] EXCEPT !.ready = TRUE],
         gens' = [gens EXCEPT ![g] = x]
  PROVE  /\ gens' \in Seq(Generations) /\ Len(gens') = Len(gens)
         /\ \A h \in 1 .. Len(gens) :
              /\ gens'[h].slot = gens[h].slot /\ gens'[h].rel = gens[h].rel
              /\ gens'[h].shape = gens[h].shape /\ gens'[h].from = gens[h].from
              /\ gens[h].ready => gens'[h].ready
<1>1. gens \in Seq(Generations)
  BY DEF IInv, Types, DiskTypes
<1> DEFINE b == TRUE
<1>2. b \in BOOLEAN /\ b /\ x = [gens[g] EXCEPT !.ready = b]
  OBVIOUS
<1> HIDE DEF b
<1>3. gens[g] \in Generations
  BY <1>1
<1>4. x \in Generations
  BY <1>2, <1>3 DEF Generations
<1>5. /\ x.slot = gens[g].slot /\ x.rel = gens[g].rel /\ x.shape = gens[g].shape
      /\ x.from = gens[g].from /\ x.ready
  BY <1>2, <1>3 DEF Generations
<1>6. gens' \in Seq(Generations) /\ Len(gens') = Len(gens)
  BY <1>1, <1>4, Replaced
<1>7. \A h \in 1 .. Len(gens) : gens'[h] = IF h = g THEN x ELSE gens[h]
  BY <1>1, <1>4, Replaced
<1> QED  BY <1>5, <1>6, <1>7

LEMMA SealedOnward ==
  ASSUME IInv, At("seal"), UNCHANGED <<host, boots, life, owners>>,
         UNCHANGED <<desk, active, temps, slots, tools, kept, parts, root, store, settings,
                     seen, wish>>,
         NEW x, x = [gens[txn.gen] EXCEPT !.ready = TRUE], gens' = [gens EXCEPT ![txn.gen] = x],
         txn' \in Txns, Core, Marks, Work, txn'.at \in {"temp", "apply", "close"},
         Enters(txn'.at, txn'.todo)
  PROVE  IInv'
<1>1. "seal" \in Stages \ {"rest", "clean", "restore"}
  BY DEF Stages, Laying
<1>2. Locked /\ ~Cleans /\ txn.at = "seal" /\ txn.gen # 0
  BY <1>1, AtWork, AtHas DEF Numberless
<1>3. Len(gens) \in Nat /\ txn.gen \in 1 .. Len(gens)
  BY <1>2, TypedThere DEF IInv, Types, TxnTypes
<1>4. /\ gens' \in Seq(Generations) /\ Len(gens') = Len(gens)
      /\ \A h \in 1 .. Len(gens) :
           /\ gens'[h].slot = gens[h].slot /\ gens'[h].rel = gens[h].rel
           /\ gens'[h].shape = gens[h].shape /\ gens'[h].from = gens[h].from
           /\ gens[h].ready => gens'[h].ready
  BY <1>3, SealedSame
<1>5. DiskTypes' /\ WishTypes'
  BY <1>4 DEF IInv, Types, DiskTypes, WishTypes
<1>6. TxnTypes'
  BY <1>4 DEF IInv, Types, TxnTypes, Core, Work, Enters
<1>7. txn'.at \notin {"rest", "clean", "restore", "lay", "swap"} /\ ~Cleans'
  BY DEF Cleans
<1>8. SelectionRight'
  <2>1. \A g \in 1 .. Len(gens') : Fits(gens'[g].shape, gens'[g].rel)
    BY <1>4 DEF IInv, SelectionRight
  <2>2. active # 0 => Loads(active)'
    BY <1>4 DEF IInv, SelectionRight, Loads
  <2> QED  BY <1>7, <2>1, <2>2 DEF SelectionRight
<1>9. ColdRight'
  <2>1. txn.op \in Restarting /\ AfterClose' => Gone
    BY <1>7 DEF AfterClose, Enters
  <2> QED  BY <2>1, ColdFrame DEF IInv
<1>10. ToolsRight'
  <2>1. ToBeUndone
    BY <1>2 DEF ToBeUndone
  <2> QED  BY <1>2, <1>3, <1>4, <1>7, <2>1, ToolsFrame DEF IInv, Work, Enters
<1>11. RootRight'
  <2>1. ToBePutBack
    BY <1>2 DEF ToBePutBack
  <2> QED  BY <1>2, <1>3, <1>4, <1>7, <2>1, RootFrame DEF IInv, Work, Enters
<1>12. CleanRight'
  BY <1>2, <1>7, CleanOnward DEF IInv
<1> QED  BY <1>5, <1>6, <1>8, <1>9, <1>10, <1>11, <1>12 DEF IInv, Types

LEMMA SealKeeps ==
  ASSUME IInv, Seal
  PROVE  IInv'
<1>1. /\ At("seal")
      /\ UNCHANGED <<desk, active, temps, slots, tools, kept, parts, root, store, settings, seen,
                     wish>>
  BY DEF Seal
<1>2. /\ "seal" \in Stages \ {"rest", "clean", "restore"} /\ "temp" \in Stages
      /\ "apply" \in Stages /\ "close" \in Stages
  BY DEF Stages, Laying, Selecting, Tooling
<1>3. /\ Locked /\ ~Cleans /\ "seal" \in Course(txn.op) /\ txn.op \in Ops
      /\ txn.at = "seal" /\ txn.at \in Early /\ txn.gen # 0
  BY <1>1, <1>2, AtWork, AtHas DEF Early, Numberless, Laying
<1>4. txn.op \in Ops \ {"none"}
  BY <1>1, <1>2, AtWork
<1>5. CASE Fails /\ gens' = gens
  BY <1>1, <1>2, <1>5, SettingsHere, Failing
<1>6. CASE /\ gens' = [gens EXCEPT ![txn.gen].ready = TRUE] /\ Still
           /\ CASE txn.op = "edit" -> Go("temp")
                [] txn.op = "fresh" -> Do("apply", Change)
                [] OTHER -> Go("close")
  <2> DEFINE x == [gens[txn.gen] EXCEPT !.ready = TRUE]
  <2>1. gens' = [gens EXCEPT ![txn.gen] = x]
    BY <1>6
  <2> HIDE DEF x
  <2>2. UNCHANGED <<host, boots, life, owners>> /\ txn \in Txns
    BY <1>6 DEF Still, IInv, Types, TxnTypes
  <2> SUFFICES /\ txn' \in Txns /\ Core /\ Marks /\ Work
               /\ txn'.at \in {"temp", "apply", "close"} /\ Enters(txn'.at, txn'.todo)
    BY <1>1, <2>1, <2>2, SealedOnward DEF x
  <2>3. CASE txn.op = "edit"
    <3>1. /\ txn' \in Txns /\ Core /\ Marks /\ Work
          /\ txn'.at = "temp" /\ txn'.todo = txn.todo
      BY <1>2, <1>6, <2>2, <2>3, GoFields DEF Go
    <3>2. "temp" \in Course(txn.op) /\ TodoFits("temp", txn.todo)
      BY <2>3, FreeStages DEF Course, Selecting, Tooling
    <3>3. Enters("temp", txn.todo)
      BY <1>3, <2>3, <3>2, FirstEnters DEF Restarting
    <3> QED  BY <3>1, <3>3
  <2>4. CASE txn.op = "fresh"
    <3>1. txn.done = <<>>
      BY <1>3 DEF IInv, ToolsRight, DoneRight
    <3>2. TodoFits("apply", Change) /\ Change \in Seq(Tools \union Places)
      BY <1>3, <3>1, ChangeFits, ChangeInSeq
    <3>3. /\ txn' \in Txns /\ Core /\ Marks /\ Work
          /\ txn'.at = "apply" /\ txn'.todo = Change
      BY <1>2, <1>6, <2>2, <2>4, <3>2, DoFields DEF Do
    <3>4. "apply" \in Course(txn.op)
      BY <2>4 DEF Course, Tooling
    <3>5. Enters("apply", Change)
      BY <1>3, <2>4, <3>2, <3>4, FirstEnters DEF Restarting
    <3> QED  BY <3>3, <3>5
  <2>5. CASE txn.op \notin {"edit", "fresh"}
    <3>1. /\ txn' \in Txns /\ Core /\ Marks /\ Work
          /\ txn'.at = "close" /\ txn'.todo = txn.todo
      BY <1>2, <1>6, <2>2, <2>5, GoFields DEF Go
    <3>2. "close" \in Course(txn.op) /\ TodoFits("close", txn.todo)
      BY <1>4, <2>5, FreeStages DEF Course, Ops, Tooling
    <3>3. Enters("close", txn.todo)
      BY <1>3, <3>2, EarlyEnters
    <3> QED  BY <3>1, <3>3
  <2> QED  BY <2>3, <2>4, <2>5
<1> QED  BY <1>5, <1>6 DEF Seal

-----------------------------------------------------------------------------
(* The root's places moved out, the fixed ones put in. *)

LEMMA Joined ==
  /\ <<"ui">> \o <<"runtime">> = <<"ui", "runtime">>
  /\ <<"config">> \o <<"ui", "runtime">> = <<"config", "ui", "runtime">>
<1>1. /\ <<"ui">> \in Seq(First3) /\ <<"config">> \in Seq(First3) /\ <<"runtime">> \in Seq(First3)
      /\ <<"ui", "runtime">> \in Seq(First3) /\ <<"config", "ui", "runtime">> \in Seq(First3)
  BY DEF First3
<1>2. <<"ui">> \o <<"runtime">> = <<"ui", "runtime">>
  <2> DEFINE e == <<"ui">> \o <<"runtime">>
  <2>1. e \in Seq(First3) /\ Len(e) = 2 /\ e[1] = "ui" /\ e[2] = "runtime"
    BY <1>1
  <2> HIDE DEF e
  <2>2. e = <<"ui", "runtime">>
    BY <1>1, <2>1, SeqEqual
  <2> QED  BY <2>2 DEF e
<1>3. <<"config">> \o <<"ui", "runtime">> = <<"config", "ui", "runtime">>
  <2> DEFINE e == <<"config">> \o <<"ui", "runtime">>
  <2>1. e \in Seq(First3) /\ Len(e) = 3 /\ e[1] = "config" /\ e[2] = "ui" /\ e[3] = "runtime"
    BY <1>1
  <2> HIDE DEF e
  <2>2. e = <<"config", "ui", "runtime">>
    BY <1>1, <2>1, SeqEqual
  <2> QED  BY <2>2 DEF e
<1> QED  BY <1>2, <1>3

\* A first migration moves the runtime, the ui and the configuration, in turn.
LEMMA PlanStep ==
  ASSUME NEW t, NEW m, <<t, m>> \in MovePlans, t # <<>>
  PROVE  /\ Head(t) \in First3 /\ Tail(t) \in Seq(Tools \union Places)
         /\ <<Tail(t), <<Head(t)>> \o m>> \in MovePlans /\ <<Head(t)>> \o m \in MoveLists
         /\ \A x : HasMoved(<<Head(t)>> \o m, x) <=> x \in Within(Head(t)) \/ HasMoved(m, x)
         /\ \A x \in Within(Head(t)) : ~HasMoved(m, x)
<1>1. CASE t = <<"runtime", "ui", "config">> /\ m = <<>>
  <2>1. Head(t) = "runtime" /\ Tail(t) = <<"ui", "config">> /\ <<Head(t)>> \o m = <<"runtime">>
    BY <1>1
  <2>2. Within("runtime") = {"runtime"}
    BY DEF Within
  <2>3. \A x : HasMoved(<<"runtime">>, x) <=> x = "runtime"
    BY <2>2 DEF HasMoved
  <2>4. \A x : ~HasMoved(<<>>, x)
    BY DEF HasMoved
  <2>5. Tail(t) \in Seq(Tools \union Places)
    <3>1. <<"ui", "config">> \in Seq(Tools \union Places)
      BY DEF Places
    <3> QED  BY <2>1, <3>1
  <2>6. /\ <<Tail(t), <<Head(t)>> \o m>> \in MovePlans /\ <<Head(t)>> \o m \in MoveLists
        /\ Head(t) \in First3
    BY <2>1 DEF MovePlans, MoveLists, First3
  <2> QED  BY <1>1, <2>1, <2>2, <2>3, <2>4, <2>5, <2>6
<1>2. CASE t = <<"ui", "config">> /\ m = <<"runtime">>
  <2>a. Head(t) = "ui" /\ Tail(t) = <<"config">>
    BY <1>2
  <2>b. <<"ui">> \o <<"runtime">> = <<"ui", "runtime">>
    BY Joined
  <2>1. Head(t) = "ui" /\ Tail(t) = <<"config">> /\ <<Head(t)>> \o m = <<"ui", "runtime">>
    BY <1>2, <2>a, <2>b
  <2>2. Within("runtime") = {"runtime"} /\ Within("ui") = {"ui", "program"}
    BY DEF Within
  <2>3. \A x : HasMoved(<<"ui", "runtime">>, x) <=> x \in {"ui", "program", "runtime"}
    BY <2>2 DEF HasMoved
  <2>4. \A x : HasMoved(<<"runtime">>, x) <=> x = "runtime"
    BY <2>2 DEF HasMoved
  <2>5. Tail(t) \in Seq(Tools \union Places)
    <3>1. <<"config">> \in Seq(Tools \union Places)
      BY DEF Places
    <3> QED  BY <2>1, <3>1
  <2>6. /\ <<Tail(t), <<Head(t)>> \o m>> \in MovePlans /\ <<Head(t)>> \o m \in MoveLists
        /\ Head(t) \in First3
    BY <2>1 DEF MovePlans, MoveLists, First3
  <2>7. \A x : HasMoved(<<Head(t)>> \o m, x) <=> x \in Within(Head(t)) \/ HasMoved(m, x)
    BY <1>2, <2>1, <2>2, <2>3, <2>4
  <2>8. \A x \in Within(Head(t)) : ~HasMoved(m, x)
    BY <1>2, <2>1, <2>2, <2>4
  <2> QED  BY <2>5, <2>6, <2>7, <2>8
<1>3. CASE t = <<"config">> /\ m = <<"ui", "runtime">>
  <2>a. Head(t) = "config" /\ Tail(t) = <<>>
    BY <1>3
  <2>b. <<"config">> \o <<"ui", "runtime">> = <<"config", "ui", "runtime">>
    BY Joined
  <2>1. Head(t) = "config" /\ Tail(t) = <<>> /\ <<Head(t)>> \o m = <<"config", "ui", "runtime">>
    BY <1>3, <2>a, <2>b
  <2>2. /\ Within("runtime") = {"runtime"} /\ Within("ui") = {"ui", "program"}
        /\ Within("config") = {"config"}
    BY DEF Within
  <2>3. \A x : HasMoved(<<"config", "ui", "runtime">>, x)
                 <=> x \in {"config", "ui", "program", "runtime"}
    BY <2>2 DEF HasMoved
  <2>4. \A x : HasMoved(<<"ui", "runtime">>, x) <=> x \in {"ui", "program", "runtime"}
    BY <2>2 DEF HasMoved
  <2>5. Tail(t) \in Seq(Tools \union Places)
    <3>1. <<>> \in Seq(Tools \union Places)
      OBVIOUS
    <3> QED  BY <2>1, <3>1
  <2>6. /\ <<Tail(t), <<Head(t)>> \o m>> \in MovePlans /\ <<Head(t)>> \o m \in MoveLists
        /\ Head(t) \in First3
    BY <2>1 DEF MovePlans, MoveLists, First3
  <2>7. \A x : HasMoved(<<Head(t)>> \o m, x) <=> x \in Within(Head(t)) \/ HasMoved(m, x)
    BY <1>3, <2>1, <2>2, <2>3, <2>4
  <2>8. \A x \in Within(Head(t)) : ~HasMoved(m, x)
    BY <1>3, <2>1, <2>2, <2>4
  <2> QED  BY <2>5, <2>6, <2>7, <2>8
<1>4. t = <<>> \/ <1>1!1 \/ <1>2!1 \/ <1>3!1
  BY DEF MovePlans
<1> QED  BY <1>1, <1>2, <1>3, <1>4

LEMMA RootTyped ==
  ASSUME IInv, root' \in [Places -> Things],
         UNCHANGED <<desk, active, gens, temps, slots, tools, settings, seen, wish>>
  PROVE  DiskTypes' /\ WishTypes'
BY DEF IInv, Types, DiskTypes, WishTypes

LEMMA OfThings ==
  /\ Nothing \in Things /\ Nothing.is = "none"
  /\ \A r \in Releases \union {None} :
        /\ Entry(r) \in Things /\ Entry(r).is = "entry"
        /\ Manager(r) \in Things /\ Manager(r).is = "manager"
<1>1. Nothing \in Things /\ Nothing.is = "none"
  BY DEF Things, Nothing
<1>2. ASSUME NEW r \in Releases \union {None}
      PROVE  /\ Entry(r) \in Things /\ Entry(r).is = "entry"
             /\ Manager(r) \in Things /\ Manager(r).is = "manager"
  BY DEF Things, Entry, Manager
<1> QED  BY <1>1, <1>2

LEMMA WithinPlaces ==
  /\ \A n \in Places : Within(n) \subseteq (Places \ {"identity"}) \union {n}
  /\ \A n \in First3 : /\ n \in Places /\ n \in Within(n) /\ Within(n) \subseteq Places \ {"identity"}
                       /\ \A m \in First3 : m \in Within(n) => m = n
<1>1. \A n \in Places : Within(n) \subseteq (Places \ {"identity"}) \union {n}
  BY DEF Within, Places
<1>2. ASSUME NEW n \in First3
      PROVE  /\ n \in Places /\ n \in Within(n) /\ Within(n) \subseteq Places \ {"identity"}
             /\ \A m \in First3 : m \in Within(n) => m = n
  <2>1. CASE n = "ui"
    BY <2>1 DEF Within, Places, First3
  <2>2. CASE n # "ui"
    BY <2>2 DEF Within, Places, First3
  <2> QED  BY <2>1, <2>2
<1> QED  BY <1>1, <1>2

\* What is stored stays stored.
LEMMA StoredStill ==
  ASSUME desk' = desk, store \subseteq store'
  PROVE  \A n : SafePlace(n) => SafePlace(n)'
BY DEF SafePlace

LEMMA MovedOutKeeps ==
  ASSUME IInv, At("move"), txn.todo # <<>>, UNCHANGED <<host, boots, life, owners>>,
         UNCHANGED <<desk, active, gens, temps, slots, tools, kept, parts, settings, seen, wish>>,
         NEW n \in First3, n = Name,
         NEW l, l = Rest, NEW mv, mv = <<n>> \o txn.moved,
         root' = Out(n), store' = Stored(n),
         txn' = [txn EXCEPT !.todo = l, !.moved = mv]
  PROVE  IInv'
<1>1. "move" \in Stages \ {"rest", "clean", "restore"}
  BY DEF Stages
<1>2. /\ Locked /\ ~Cleans /\ "move" \in Course(txn.op) /\ txn.op \in Ops
      /\ txn.at = "move" /\ txn.gen # 0
  BY <1>1, AtWork, AtHas DEF Numberless, Laying
<1>3. txn.op = "migrate"
  BY <1>2 DEF Course, Ops, Laying, Tooling, Managing, Selecting, Refreshing, Ending
<1>4. <<txn.todo, txn.moved>> \in MovePlans /\ txn.done = <<>>
  BY <1>2 DEF IInv, RootRight, MovesRight, MovesFit, ToolsRight, DoneRight
<1>5. /\ l \in Seq(Tools \union Places) /\ <<l, mv>> \in MovePlans /\ mv \in MoveLists
      /\ \A x : HasMoved(mv, x) <=> x \in Within(n) \/ IsMoved(x)
      /\ \A x \in Within(n) : ~IsMoved(x)
  BY <1>4, PlanStep DEF Name, Rest, IsMoved
<1>6. /\ txn' \in Txns /\ Core /\ Marks /\ txn'.at = "move" /\ txn'.gen = txn.gen
      /\ txn'.todo = l /\ txn'.done = txn.done /\ txn'.moved = mv
  BY <1>2, <1>5, MoveFields DEF IInv, Types, TxnTypes
<1>7. /\ n \in Places /\ n \in Within(n) /\ Within(n) \subseteq Places \ {"identity"}
      /\ \A m \in First3 : m \in Within(n) => m = n
  BY WithinPlaces
<1>8. /\ root \in [Places -> Things] /\ txn.gen \in 1 .. Len(gens)
      /\ Len(gens) \in Nat /\ Len(gens') \in Nat /\ Len(gens) <= Len(gens')
  BY <1>2, TypedThere DEF IInv, Types, DiskTypes, TxnTypes
<1>9. /\ root' \in [Places -> Things]
      /\ \A m \in Places : root'[m] = IF m \in Within(n) THEN Nothing ELSE root[m]
  BY <1>8, OfThings DEF Out
<1>10. DiskTypes' /\ WishTypes'
  BY <1>9, RootTyped
<1>11. TxnTypes' /\ ColdRight' /\ CleanRight' /\ ~Cleans' /\ Locked'
  <2>1. AfterClose' => AfterClose
    BY <1>2 DEF AfterClose
  <2> QED  BY <1>2, <1>6, <2>1, OnwardMarks
<1>12. SelectionRight'
  BY <1>6, SelectionFrame DEF IInv
<1>13. ToolsRight'
  <2>1. ToBeUndone /\ TodoFits("move", l)
    BY <1>2, FreeStages DEF ToBeUndone, Tooling
  <2> QED  BY <1>2, <1>4, <1>6, <1>8, <1>11, <2>1, ToolsFrame DEF IInv
<1>14. \A k : k \in store' <=> k \in store \/ \E m \in Within(n) : k = MovedOut(m)
  BY DEF Stored
<1>15. \A m : /\ MovedOut(m).name = m /\ MovedOut(m).was = root[m]
              /\ MovedOut(m).gen = txn.gen
  BY DEF MovedOut
<1>16. \A m : IsMoved(m)' <=> m \in Within(n) \/ IsMoved(m)
  BY <1>5, <1>6 DEF IsMoved
<1>17. \A m : SafePlace(m) => SafePlace(m)'
  BY <1>14, StoredStill
<1>18. SafePlace(n)'
  <2>1. CASE root[n] = desk.root[n]
    BY <1>7, <1>14, <1>15, <2>1 DEF SafePlace
  <2> QED  BY <1>17, <2>1 DEF IInv, RootRight, PlacesKept
<1>19. BackupsRight'
  BY <1>7, <1>8, <1>14, <1>15 DEF IInv, RootRight, BackupsRight
<1>20. MovesRight'
  <2>1. /\ txn'.op = "migrate" /\ txn'.at \notin Early
        /\ <<txn'.todo, txn'.moved>> \in MovePlans
    BY <1>3, <1>5, <1>6 DEF Early, Laying, Core
  <2>2. ASSUME NEW m \in Places, IsMoved(m)'
        PROVE  /\ m \in First3 => SafePlace(m)'
               /\ \E k \in store' : k.name = m /\ k.gen = txn'.gen
    <3>1. CASE m \in Within(n)
      <4>1. m \in First3 => SafePlace(m)'
        BY <1>7, <1>18, <3>1
      <4>2. MovedOut(m) \in store' /\ MovedOut(m).name = m /\ MovedOut(m).gen = txn'.gen
        BY <1>6, <1>14, <1>15, <3>1
      <4> QED  BY <4>1, <4>2
    <3>2. CASE IsMoved(m)
      BY <1>6, <1>14, <1>17, <3>2 DEF IInv, RootRight, MovesRight
    <3> QED  BY <1>16, <2>2, <3>1, <3>2
  <2>3. txn'.at = "move"
    BY <1>6
  <2> QED  BY <2>1, <2>2, <2>3 DEF MovesRight, MovesFit
<1>21. MigrationRight'
  <2>1. ToBePutBack
    BY <1>2 DEF ToBePutBack
  <2>2. \A m \in Places \ {"identity"} : IsMoved(m) \/ root[m] = txn.before.root[m]
    BY <1>3, <2>1 DEF IInv, RootRight, MigrationRight
  <2>3. ASSUME NEW k \in store', k.gen = txn'.gen
        PROVE  k.was = txn'.before.root[k.name] /\ IsMoved(k.name)'
    <3>1. CASE k \in store
      BY <1>2, <1>3, <1>6, <1>16, <2>3, <3>1 DEF IInv, RootRight, MigrationRight, Core
    <3>2. ASSUME NEW m \in Within(n), k = MovedOut(m)
          PROVE  k.was = txn'.before.root[k.name] /\ IsMoved(k.name)'
      BY <1>5, <1>6, <1>7, <1>15, <1>16, <2>2, <3>2 DEF Core
    <3> QED  BY <1>14, <2>3, <3>1, <3>2
  <2>4. \A m \in Places \ {"identity"} : IsMoved(m)' \/ root'[m] = txn'.before.root[m]
    BY <1>6, <1>9, <1>16, <2>2 DEF Core
  <2>5. root'["identity"] = root["identity"]
    BY <1>7, <1>9 DEF Places
  <2>6. \/ txn'.before.root["identity"].is = "none"
        \/ root'["identity"] = txn'.before.root["identity"]
    BY <1>3, <1>6, <2>5 DEF IInv, RootRight, MigrationRight, Core
  <2> QED  BY <2>3, <2>4, <2>6 DEF MigrationRight
<1>22. EntriesRight'
  BY <1>6 DEF EntriesRight, EntriesFit
<1>23. PlacesKept'
  <2> SUFFICES ASSUME NEW m \in First3
               PROVE  root'[m] = desk.root[m] \/ SafePlace(m)'
    BY DEF PlacesKept
  <2>1. m \in Places /\ (root[m] = desk.root[m] \/ SafePlace(m))
    BY DEF IInv, RootRight, PlacesKept, First3, Places
  <2> QED  BY <1>7, <1>9, <1>17, <1>18, <2>1
<1> QED  BY <1>10, <1>11, <1>12, <1>13, <1>19, <1>20, <1>21, <1>22, <1>23
         DEF IInv, Types, RootRight

LEMMA MoveKeeps ==
  ASSUME IInv, Move
  PROVE  IInv'
<1>1. /\ At("move") /\ txn.todo # <<>>
      /\ UNCHANGED <<desk, active, gens, temps, slots, tools, kept, parts, settings, seen, wish>>
  BY DEF Move, RootKept
<1>2. "move" \in Stages \ {"rest", "clean", "restore"}
  BY DEF Stages
<1>3. CASE (Fails \/ (Stop /\ Still)) /\ root' = root /\ store' = store
  BY <1>1, <1>2, <1>3, SettingsHere, Failing
<1>4. CASE /\ Still /\ root' = Out(Name) /\ store' = Stored(Name)
           /\ txn' = [txn EXCEPT !.todo = Rest, !.moved = <<Name>> \o txn.moved]
  <2>1. <<txn.todo, txn.moved>> \in MovePlans
    BY <1>1, AtHas DEF IInv, RootRight, MovesRight, MovesFit
  <2>2. Name \in First3
    BY <1>1, <2>1, PlanStep DEF Name
  <2>3. UNCHANGED <<host, boots, life, owners>>
    BY <1>4 DEF Still
  <2> QED  BY <1>1, <1>4, <2>2, <2>3, MovedOutKeeps
<1> QED  BY <1>3, <1>4 DEF Move

-----------------------------------------------------------------------------
(* Changes of the root's places that keep what was there. *)

\* What a first migration has moved, once it has moved all.
LEMMA AllMoved ==
  \A m \in Places \ {"identity"} : HasMoved(<<"config", "ui", "runtime">>, m)
<1> DEFINE s == <<"config", "ui", "runtime">>
<1>1. Len(s) = 3 /\ s[1] = "config" /\ s[2] = "ui" /\ s[3] = "runtime"
  OBVIOUS
<1> HIDE DEF s
<1>2. /\ "config" \in Within(s[1]) /\ "ui" \in Within(s[2]) /\ "program" \in Within(s[2])
      /\ "runtime" \in Within(s[3])
  BY <1>1 DEF Within
<1>3. 1 \in 1 .. Len(s) /\ 2 \in 1 .. Len(s) /\ 3 \in 1 .. Len(s)
  BY <1>1
<1>4. HasMoved(s, "config") /\ HasMoved(s, "ui") /\ HasMoved(s, "program") /\ HasMoved(s, "runtime")
  BY <1>2, <1>3 DEF HasMoved
<1>5. \A m \in Places \ {"identity"} : HasMoved(s, m)
  BY <1>4 DEF Places
<1> QED  BY <1>5 DEF s

\* A place that holds no program and no configuration lost none.
LEMMA NoneThere ==
  ASSUME IInv, NEW m \in First3, root[m].is \notin {"programs", "config"}
  PROVE  SafePlace(m)
BY DEF IInv, RootRight, PlacesKept, SafePlace

LEMMA RootChanges ==
  ASSUME IInv, UNCHANGED <<desk, gens>>, Core, txn'.gen = txn.gen, txn'.moved = txn.moved,
         txn.gen # 0 \/ store' = store, store \subseteq store',
         \A k \in store' : k \in store \/ (k.name \in Places /\ k.was \in Things /\ k.gen = txn.gen),
         root' \in [Places -> Things],
         ToBePutBack' => ToBePutBack, txn.op = "migrate" /\ ~Cleans' => ~Cleans,
         txn.op = "migrate" =>
            /\ store' = store
            /\ \A m \in Places \ {"identity"} : IsMoved(m) \/ root'[m] = root[m]
            /\ \/ root["identity"].is = "none" \/ root'["identity"] = root["identity"]
               \/ txn.before.root["identity"].is = "none",
         \A m \in First3 : root'[m] = root[m] \/ SafePlace(m),
         MovesFit(txn'.at, txn'.todo, txn.moved), EntriesRight'
  PROVE  RootRight'
<1>1. \A m : (IsMoved(m)' <=> IsMoved(m)) /\ (SafePlace(m) => SafePlace(m)')
  BY StoredStill DEF IsMoved
<1>2. BackupsRight'
  <2>1. txn.gen # 0 => txn.gen \in 1 .. Len(gens)
    BY DEF IInv, Types, TxnTypes, Txns
  <2> QED  BY <2>1 DEF IInv, RootRight, BackupsRight
<1>3. MovesRight'
  BY <1>1 DEF IInv, RootRight, MovesRight, MovesFit, Core
<1>4. MigrationRight'
  <2> SUFFICES ASSUME txn.op = "migrate"
               PROVE  /\ \A k \in store' : k.gen = txn'.gen =>
                           /\ IsMoved(k.name)' => k.was = txn'.before.root[k.name]
                           /\ ~Cleans' => IsMoved(k.name)'
                      /\ ToBePutBack' => \A m \in Places \ {"identity"} :
                            IsMoved(m)' \/ root'[m] = txn'.before.root[m]
                      /\ \/ txn'.before.root["identity"].is = "none"
                         \/ root'["identity"] = txn'.before.root["identity"]
    BY DEF MigrationRight, Core
  <2>1. \A k \in store' : k.gen = txn'.gen =>
                           /\ IsMoved(k.name)' => k.was = txn'.before.root[k.name]
                           /\ ~Cleans' => IsMoved(k.name)'
    BY <1>1 DEF IInv, RootRight, MigrationRight, Core
  <2>2. ToBePutBack' => \A m \in Places \ {"identity"} :
                            IsMoved(m)' \/ root'[m] = txn'.before.root[m]
    BY <1>1 DEF IInv, RootRight, MigrationRight, Core
  <2>3. \/ txn'.before.root["identity"].is = "none"
        \/ root'["identity"] = txn'.before.root["identity"]
    BY DEF IInv, RootRight, MigrationRight, Core
  <2> QED  BY <2>1, <2>2, <2>3
<1>5. PlacesKept'
  BY <1>1 DEF IInv, RootRight, PlacesKept
<1> QED  BY <1>2, <1>3, <1>4, <1>5 DEF RootRight

Rooting == Managing \union Refreshing

\* The rest of the invariant, where a stage changes the root's places alone.
LEMMA RootStops ==
  ASSUME IInv, Locked, ~Cleans, Stop, UNCHANGED <<host, boots, life, owners>>,
         UNCHANGED <<desk, active, gens, temps, slots, tools, kept, settings, seen, wish>>,
         root' \in [Places -> Things], RootRight'
  PROVE  IInv'
<1>1. DiskTypes' /\ WishTypes'
  BY RootTyped
<1>2. TxnTypes'
  BY StopTypes DEF IInv, Types
<1>3. ToolsRight'
  BY StopTools DEF IInv, Types
<1>4. SelectionRight' /\ ColdRight' /\ CleanRight'
  BY StopSelection, StopMarks DEF IInv, Types
<1> QED  BY <1>1, <1>2, <1>3, <1>4 DEF IInv, Types

LEMMA RootOnward ==
  ASSUME IInv, Locked, ~Cleans, txn.at \in Rooting, UNCHANGED <<host, boots, life, owners>>,
         UNCHANGED <<desk, active, gens, temps, slots, tools, kept, settings, seen, wish>>,
         txn' \in Txns, Core, Marks, Work, txn'.at \in Rooting \union {"end"},
         txn'.at \in Course(txn.op),
         root' \in [Places -> Things], RootRight'
  PROVE  IInv'
<1>1. DiskTypes' /\ WishTypes'
  BY RootTyped
<1>2. /\ txn'.at \notin {"rest", "clean", "restore", "lay", "swap"}
      /\ txn'.at \notin Early \union {"move"}
      /\ txn.gen # 0 /\ AfterClose
  BY DEF Rooting, Managing, Refreshing, Early, Laying, IInv, Types, TxnTypes, Numberless, AfterClose
<1>3. TxnTypes' /\ ColdRight' /\ CleanRight' /\ ~Cleans' /\ Locked'
  BY <1>2, OnwardMarks DEF Work
<1>4. SelectionRight'
  BY <1>2, SelectionFrame DEF IInv, Work
<1>5. ToolsRight'
  <2>1. ToBeUndone
    BY DEF ToBeUndone
  <2>2. TodoFits(txn'.at, txn'.todo)
    BY FreeStages DEF Rooting, Managing, Refreshing, Tooling
  <2> QED  BY <1>2, <1>3, <2>1, <2>2, LenNat, ToolsFrame DEF IInv, Types, Work
<1> QED  BY <1>1, <1>3, <1>4, <1>5 DEF IInv, Types

\* One place of the root is given something else.
LEMMA RootPut ==
  ASSUME IInv, NEW n \in Places, NEW x \in Things, root' = [root EXCEPT ![n] = x]
  PROVE  /\ root' \in [Places -> Things]
         /\ \A m \in Places : root'[m] = IF m = n THEN x ELSE root[m]
<1>1. root \in [Places -> Things]
  BY DEF IInv, Types, DiskTypes
<1> QED  BY <1>1

LEMMA RootingThen ==
  ASSUME IInv, NEW s \in Rooting, At(s)
  PROVE  /\ Locked /\ ~Cleans /\ txn.at = s /\ txn.at \in Rooting /\ txn.gen # 0
         /\ s \in Stages \ {"rest", "clean", "restore"} /\ s \in Course(txn.op)
         /\ s \in Managing => txn.op \in {"fresh", "migrate"} /\ txn.rel \in Releases
         /\ s \in Refreshing => txn.op = "upgrade" /\ txn.rel \in Releases
         /\ txn.op = "migrate" => txn.moved = <<"config", "ui", "runtime">>
         /\ MovesFit(s, txn.todo, txn.moved)
         /\ \A t \in Rooting \union {"end"} : \A l : MovesFit(t, l, txn.moved)
         /\ \A l : MovesFit("clean", l, txn.moved)
<1>1. /\ s \in Stages \ {"rest", "clean", "restore"} /\ s \notin Early \union {"move"}
      /\ s \notin Numberless
  BY DEF Rooting, Managing, Refreshing, Stages, Early, Laying, Numberless
<1>2. /\ Locked /\ ~Cleans /\ txn.at = s /\ txn.gen # 0 /\ s \in Course(txn.op)
      /\ txn.op \in Ops
  BY <1>1, AtWork, AtHas
<1>3. /\ s \in Managing => txn.op \in {"fresh", "migrate"}
      /\ s \in Refreshing => txn.op = "upgrade"
  BY <1>2 DEF Course, Ops, Laying, Tooling, Managing, Selecting, Refreshing, Ending
<1>4. txn.op \in Making => txn.rel \in Releases
  BY DEF IInv, Types, TxnTypes
<1>5. MovesFit(s, txn.todo, txn.moved)
  BY <1>2 DEF IInv, RootRight, MovesRight
<1>6. /\ txn.op = "migrate" => txn.moved = <<"config", "ui", "runtime">>
      /\ txn.op # "migrate" => txn.moved = <<>>
  BY <1>1, <1>5 DEF MovesFit
<1>7. \A t \in Rooting \union {"end"} : \A l : MovesFit(t, l, txn.moved)
  BY <1>6 DEF MovesFit, Rooting, Managing, Refreshing, Early, Laying
<1>8. \A l : MovesFit("clean", l, txn.moved)
  BY <1>6 DEF MovesFit, Early, Laying
<1> QED  BY <1>1, <1>2, <1>3, <1>4, <1>5, <1>6, <1>7, <1>8 DEF Making, Rooting

LEMMA FixKeeps ==
  ASSUME IInv, Fix
  PROVE  IInv'
<1>1. /\ At("fix") /\ txn.todo # <<>> /\ "fix" \in Rooting
      /\ UNCHANGED <<desk, active, gens, temps, slots, tools, kept, seen, wish, store, settings>>
  BY DEF Fix, RootKept, Rooting, Managing
<1>2. /\ Locked /\ ~Cleans /\ txn.at = "fix" /\ txn.gen # 0 /\ "fix" \in Course(txn.op)
      /\ "fix" \in Stages \ {"rest", "clean", "restore"}
      /\ txn.rel \in Releases
      /\ txn.op = "migrate" => txn.moved = <<"config", "ui", "runtime">>
      /\ \A l : MovesFit("clean", l, txn.moved) /\ MovesFit("fix", l, txn.moved)
  BY <1>1, RootingThen DEF Managing
<1>3. /\ Name \in {"runtime", "ui"} /\ Rest \in {<<"ui">>, <<>>}
      /\ Rest \in Seq(Tools \union Places)
  <2>1. txn.todo \in {<<"runtime", "ui">>, <<"ui">>}
    BY <1>1, <1>2 DEF IInv, RootRight, EntriesRight, EntriesFit
  <2>2. <<"ui">> \in Seq(Tools \union Places) /\ <<>> \in Seq(Tools \union Places)
    BY DEF Places
  <2>3. Name \in {"runtime", "ui"} /\ Rest \in {<<"ui">>, <<>>}
    <3>1. CASE txn.todo = <<"runtime", "ui">>
      BY <3>1 DEF Name, Rest
    <3>2. CASE txn.todo = <<"ui">>
      BY <3>2 DEF Name, Rest
    <3> QED  BY <2>1, <3>1, <3>2
  <2> QED  BY <2>2, <2>3
<1>4. CASE root' = root /\ (Fails \/ (Stop /\ Still))
  BY <1>1, <1>2, <1>4, SettingsHere, Failing
<1>5. ASSUME NEW r \in Releases \union {None}, root' = [root EXCEPT ![Name] = Entry(r)],
             root[Name].is = "none", Core, Work,
             EntriesFit(txn'.at, txn'.todo), txn'.at \notin {"easide", "eplace", "midentity", "mnew"},
             MovesFit(txn'.at, txn'.todo, txn.moved)
      PROVE  root' \in [Places -> Things] /\ RootRight'
  <2>1. Name \in First3 /\ Name \in Places /\ Name # "identity" /\ Entry(r) \in Things
    BY <1>3, OfThings DEF First3, Places
  <2>2. /\ root' \in [Places -> Things]
        /\ \A m \in Places : root'[m] = IF m = Name THEN Entry(r) ELSE root[m]
    BY <1>5, <2>1, RootPut
  <2>3. SafePlace(Name)
    BY <1>5, <2>1, NoneThere
  <2>4. txn.op = "migrate" => IsMoved(Name)
    BY <1>2, <2>1, AllMoved DEF IsMoved
  <2>5. ToBePutBack' => ToBePutBack
    BY <1>2 DEF ToBePutBack
  <2>6. EntriesRight'
    BY <1>5 DEF EntriesRight, EntriesFit
  <2>7. \A m \in First3 : root'[m] = root[m] \/ SafePlace(m)
    BY <2>2, <2>3 DEF First3, Places
  <2>8. txn.op = "migrate" =>
            /\ store' = store
            /\ \A m \in Places \ {"identity"} : IsMoved(m) \/ root'[m] = root[m]
            /\ root["identity"].is = "none" \/ root'["identity"] = root["identity"]
    BY <1>1, <2>1, <2>2, <2>4 DEF Places
  <2> QED  BY <1>1, <1>2, <1>5, <2>2, <2>5, <2>6, <2>7, <2>8, RootChanges DEF Work
<1>6. CASE root[Name].is = "none" /\ root' = [root EXCEPT ![Name] = Entry(None)] /\ Fails
  <2>1. Stop /\ UNCHANGED <<host, boots, life, owners>>
    BY <1>6 DEF Fails
  <2>2. Core /\ Work /\ txn'.at = "clean" /\ txn'.todo = <<>>
    BY <2>1, StopFields DEF IInv, Types, TxnTypes
  <2>3. root' \in [Places -> Things] /\ RootRight'
    BY <1>2, <1>5, <1>6, <2>2, NotFits
  <2> QED  BY <1>1, <1>2, <2>1, <2>3, RootStops
<1>7. CASE /\ root[Name].is = "none" /\ root' = [root EXCEPT ![Name] = Entry(txn.rel)]
           /\ txn' = [txn EXCEPT !.todo = Rest] /\ Still
  <2>1. txn' \in Txns /\ Core /\ Marks /\ Work /\ txn'.at = "fix" /\ txn'.todo = Rest
    BY <1>2, <1>3, <1>7, NextFields DEF IInv, Types, TxnTypes
  <2>2. EntriesFit("fix", Rest)
    BY <1>3 DEF EntriesFit
  <2>3. root' \in [Places -> Things] /\ RootRight'
    BY <1>2, <1>5, <1>7, <2>1, <2>2
  <2> QED  BY <1>1, <1>2, <1>7, <2>1, <2>3, RootOnward DEF Still
<1> QED  BY <1>4, <1>6, <1>7 DEF Fix

LEMMA ManageKeeps ==
  ASSUME IInv, Manage
  PROVE  IInv'
<1>1. /\ At("manage") /\ txn.todo # <<>> /\ "manage" \in Rooting
      /\ UNCHANGED <<desk, active, gens, temps, slots, tools, kept, seen, wish, store, settings>>
  BY DEF Manage, RootKept, Rooting, Managing
<1>2. /\ Locked /\ ~Cleans /\ txn.at = "manage" /\ txn.gen # 0 /\ "manage" \in Course(txn.op)
      /\ "manage" \in Stages \ {"rest", "clean", "restore"}
      /\ txn.rel \in Releases
      /\ txn.op = "migrate" => txn.moved = <<"config", "ui", "runtime">>
      /\ \A l : MovesFit("manage", l, txn.moved)
  BY <1>1, RootingThen DEF Managing
<1>3. /\ Name \in {"identity", "program"} /\ Rest \in {<<"program">>, <<>>}
      /\ Rest \in Seq(Tools \union Places) /\ <<>> \in Seq(Tools \union Places)
  <2>1. txn.todo \in {<<"identity", "program">>, <<"program">>}
    BY <1>1, <1>2 DEF IInv, RootRight, EntriesRight, EntriesFit
  <2>2. <<"program">> \in Seq(Tools \union Places) /\ <<>> \in Seq(Tools \union Places)
    BY DEF Places
  <2>3. Name \in {"identity", "program"} /\ Rest \in {<<"program">>, <<>>}
    <3>1. CASE txn.todo = <<"identity", "program">>
      BY <3>1 DEF Name, Rest
    <3>2. CASE txn.todo = <<"program">>
      BY <3>2 DEF Name, Rest
    <3> QED  BY <2>1, <3>1, <3>2
  <2> QED  BY <2>2, <2>3
<1>4. CASE root' = root /\ (Fails \/ (Stop /\ Still))
  BY <1>1, <1>2, <1>4, SettingsHere, Failing
<1>5. CASE root' = root /\ txn' = [txn EXCEPT !.todo = <<>>] /\ Still
  <2> DEFINE l == <<>>
  <2>1. l \in Seq(Tools \union Places) /\ txn' = [txn EXCEPT !.todo = l] /\ l = <<>>
    BY <1>3, <1>5
  <2> HIDE DEF l
  <2>2. txn' \in Txns /\ Core /\ Marks /\ Work /\ txn'.at = "manage" /\ txn'.todo = l
    BY <1>2, <2>1, NextFields DEF IInv, Types, TxnTypes
  <2>3. TodoFits("manage", l) /\ EntriesFit("manage", l)
    BY <2>1, FreeStages DEF Tooling, EntriesFit
  <2>4. Enters("manage", l)
    BY <1>2, <2>3, LateEnters DEF Managing, Early, Laying
  <2>5. Calm
    BY <1>1, <1>5, SettingsHere, CalmHere DEF Still
  <2> QED  BY <1>2, <2>2, <2>4, <2>5, CalmOnward
<1>6. CASE /\ root[Name].is = "none" /\ root' = [root EXCEPT ![Name] = Manager(txn.rel)]
           /\ txn' = [txn EXCEPT !.todo = Rest] /\ Still
  <2>1. txn' \in Txns /\ Core /\ Marks /\ Work /\ txn'.at = "manage" /\ txn'.todo = Rest
    BY <1>2, <1>3, <1>6, NextFields DEF IInv, Types, TxnTypes
  <2>2. Name \in Places /\ Name \notin First3 /\ Manager(txn.rel) \in Things
    BY <1>2, <1>3, OfThings DEF First3, Places
  <2>3. /\ root' \in [Places -> Things]
        /\ \A m \in Places : root'[m] = IF m = Name THEN Manager(txn.rel) ELSE root[m]
    BY <1>6, <2>2, RootPut
  <2>4. EntriesRight'
    BY <1>3, <2>1 DEF EntriesRight, EntriesFit
  <2>5. \A m \in First3 : root'[m] = root[m]
    BY <2>2, <2>3 DEF First3, Places
  <2>6. txn.op = "migrate" =>
            /\ store' = store
            /\ \A m \in Places \ {"identity"} : IsMoved(m) \/ root'[m] = root[m]
            /\ root["identity"].is = "none" \/ root'["identity"] = root["identity"]
    BY <1>1, <1>2, <1>6, <2>3, AllMoved DEF IsMoved, Places
  <2>7. ToBePutBack
    BY <1>2 DEF ToBePutBack
  <2>8. RootRight'
    BY <1>1, <1>2, <2>1, <2>3, <2>4, <2>5, <2>6, <2>7, RootChanges DEF Work
  <2> QED  BY <1>1, <1>2, <1>6, <2>1, <2>3, <2>8, RootOnward DEF Still
<1> QED  BY <1>4, <1>5, <1>6 DEF Manage

\* After an upgrade: what it replaces of the fixed entries and the manager is no program of the root.
LEMMA RefreshPuts ==
  ASSUME IInv, Locked, ~Cleans, txn.at \in Refreshing, UNCHANGED <<host, boots, life, owners>>,
         UNCHANGED <<desk, active, gens, temps, slots, tools, kept, settings, seen, wish>>,
         txn' \in Txns, Core, Marks, Work, txn'.at \in Refreshing \union {"end"},
         root' \in [Places -> Things], store \subseteq store',
         \A k \in store' : k \in store \/ (k.name \in Places /\ k.was \in Things /\ k.gen = txn.gen),
         \A m \in First3 : root'[m] = root[m] \/ SafePlace(m),
         EntriesRight'
  PROVE  IInv'
<1>1. At(txn.at) /\ txn.at \in Rooting
  BY DEF At, Rooting
<1>2. /\ txn.op = "upgrade" /\ txn.gen # 0
      /\ MovesFit(txn'.at, txn'.todo, txn.moved)
  BY <1>1, RootingThen DEF Rooting
<1>3. ToBePutBack /\ txn'.at \in Course(txn.op)
  BY <1>2 DEF ToBePutBack, Course, Ending
<1>4. RootRight'
  BY <1>2, <1>3, RootChanges DEF Work
<1> QED  BY <1>1, <1>3, <1>4, RootOnward DEF Rooting

LEMMA RefreshingThen ==
  ASSUME IInv, NEW s \in Refreshing, At(s)
  PROVE  /\ Locked /\ ~Cleans /\ txn.at = s /\ txn.at \in Refreshing
         /\ txn.op = "upgrade" /\ txn.rel \in Releases /\ txn.gen # 0 /\ EntriesFit(s, txn.todo)
<1>1. s \in Rooting
  BY DEF Rooting
<1> QED  BY <1>1, RootingThen DEF IInv, RootRight, EntriesRight

\* What the list still names of the entries.
LEMMA EntryNamed ==
  ASSUME IInv, NEW s \in {"easide", "eplace"}, At(s)
  PROVE  /\ Name \in First3 /\ Name \in Places
         /\ root[Name].is = IF s = "easide" THEN "entry" ELSE "none"
         /\ SafePlace(Name)
         /\ Rest \in Seq(Tools \union Places)
         /\ \A i \in 1 .. Len(Rest) : Rest[i] \in {"runtime", "ui"}
         /\ txn.todo # <<>> /\ \A i \in 1 .. Len(txn.todo) : txn.todo[i] \in {"runtime", "ui"}
<1>1. EntriesFit(s, txn.todo)
  BY RefreshingThen DEF Refreshing
<1>2. /\ txn.todo # <<>> /\ \A i \in 1 .. Len(txn.todo) : txn.todo[i] \in {"runtime", "ui"}
      /\ root[Name].is = IF s = "easide" THEN "entry" ELSE "none"
  BY <1>1 DEF EntriesFit, Name
<1>3. txn.todo \in Seq(Tools \union Places)
  BY TypedThere DEF IInv
<1>4. /\ Name = txn.todo[1] /\ Rest \in Seq(Tools \union Places) /\ Len(txn.todo) \in Nat \ {0}
      /\ \A i \in 1 .. Len(Rest) : Rest[i] = txn.todo[i + 1] /\ i + 1 \in 1 .. Len(txn.todo)
  BY <1>2, <1>3, Popped DEF Name, Rest
<1>5. Name \in {"runtime", "ui"}
  BY <1>2, <1>4
<1>6. \A i \in 1 .. Len(Rest) : Rest[i] \in {"runtime", "ui"}
  BY <1>2, <1>4
<1>7. Name \in First3 /\ Name \in Places
  BY <1>5 DEF First3, Places
<1>8. SafePlace(Name)
  BY <1>2, <1>7, NoneThere
<1> QED  BY <1>2, <1>4, <1>6, <1>7, <1>8

LEMMA MoveEntryKeeps ==
  ASSUME IInv, MoveEntry
  PROVE  IInv'
<1>1. /\ At("easide") /\ "easide" \in Refreshing /\ UNCHANGED <<host, boots, life, owners>>
      /\ UNCHANGED <<desk, active, gens, temps, slots, tools, kept, settings, seen, wish, store>>
  BY DEF MoveEntry, Still, Refreshing
<1>2. CASE root' = root /\ EntriesEnd
  BY <1>1, <1>2, EntriesOver
<1>3. CASE root' = [root EXCEPT ![Name] = Nothing] /\ Go("eplace")
  <2>1. /\ Locked /\ ~Cleans /\ txn.at = "easide" /\ "eplace" \in Stages /\ "eplace" \in Refreshing
    BY <1>1, RefreshingThen DEF Stages, Refreshing
  <2>2. txn' \in Txns /\ Core /\ Marks /\ Work /\ txn'.at = "eplace" /\ txn'.todo = txn.todo
    BY <1>3, <2>1, GoFields DEF Go, IInv, Types, TxnTypes
  <2>3. /\ Name \in First3 /\ Name \in Places /\ SafePlace(Name) /\ txn.todo # <<>>
        /\ \A i \in 1 .. Len(txn.todo) : txn.todo[i] \in {"runtime", "ui"}
    BY <1>1, EntryNamed
  <2>4. /\ root' \in [Places -> Things]
        /\ \A m \in Places : root'[m] = IF m = Name THEN Nothing ELSE root[m]
    BY <1>3, <2>3, OfThings, RootPut
  <2>5. root'[Head(txn.todo)].is = "none"
    BY <2>3, <2>4, OfThings DEF Name
  <2>6. EntriesRight'
    BY <2>2, <2>3, <2>5 DEF EntriesRight, EntriesFit
  <2>7. \A m \in First3 : root'[m] = root[m] \/ SafePlace(m)
    BY <2>3, <2>4 DEF First3, Places
  <2> QED  BY <1>1, <2>1, <2>2, <2>4, <2>6, <2>7, RefreshPuts
<1> QED  BY <1>2, <1>3 DEF MoveEntry

LEMMA PlaceEntryKeeps ==
  ASSUME IInv, PlaceEntry
  PROVE  IInv'
<1>1. /\ At("eplace") /\ "eplace" \in Refreshing /\ UNCHANGED <<host, boots, life, owners>>
      /\ UNCHANGED <<desk, active, gens, temps, slots, tools, kept, settings, seen, wish, store>>
  BY DEF PlaceEntry, Still, Refreshing
<1>2. CASE root' = root /\ EntriesEnd
  BY <1>1, <1>2, EntriesOver
<1>3. /\ Locked /\ ~Cleans /\ txn.at = "eplace" /\ "entries" \in Stages /\ "manager" \in Stages
      /\ txn.rel \in Releases /\ "entries" \in Refreshing /\ "manager" \in Refreshing
  BY <1>1, RefreshingThen DEF Stages, Refreshing
<1>4. /\ Name \in First3 /\ Name \in Places /\ SafePlace(Name)
      /\ Rest \in Seq(Tools \union Places) /\ \A i \in 1 .. Len(Rest) : Rest[i] \in {"runtime", "ui"}
  BY <1>1, EntryNamed
<1>5. ASSUME NEW x \in Things, root' = [root EXCEPT ![Name] = x]
      PROVE  /\ root' \in [Places -> Things]
             /\ \A m \in First3 : root'[m] = root[m] \/ SafePlace(m)
  <2>1. /\ root' \in [Places -> Things]
        /\ \A m \in Places : root'[m] = IF m = Name THEN x ELSE root[m]
    BY <1>4, <1>5, RootPut
  <2> QED  BY <1>4, <2>1 DEF First3, Places
<1>6. CASE root' = [root EXCEPT ![Name] = Entry(txn.rel)] /\ Do("entries", Rest)
  <2>1. txn' \in Txns /\ Core /\ Marks /\ Work /\ txn'.at = "entries" /\ txn'.todo = Rest
    BY <1>3, <1>4, <1>6, DoFields DEF Do, IInv, Types, TxnTypes
  <2>2. EntriesRight'
    BY <1>4, <2>1 DEF EntriesRight, EntriesFit
  <2>3. /\ root' \in [Places -> Things]
        /\ \A m \in First3 : root'[m] = root[m] \/ SafePlace(m)
    BY <1>3, <1>5, <1>6, OfThings
  <2> QED  BY <1>1, <1>3, <2>1, <2>2, <2>3, RefreshPuts
<1>7. CASE root' = [root EXCEPT ![Name] = txn.before.root[Name]] /\ EntriesEnd
  <2>1. Do("manager", <<>>) /\ <<>> \in Seq(Tools \union Places)
    BY <1>7 DEF EntriesEnd, Do
  <2>2. txn' \in Txns /\ Core /\ Marks /\ Work /\ txn'.at = "manager" /\ txn'.todo = <<>>
    BY <1>3, <2>1, DoFields DEF Do, IInv, Types, TxnTypes
  <2>3. EntriesRight'
    BY <2>2 DEF EntriesRight, EntriesFit
  <2>4. txn.before.root[Name] \in Things
    BY <1>4, TypedThere DEF IInv
  <2>5. /\ root' \in [Places -> Things]
        /\ \A m \in First3 : root'[m] = root[m] \/ SafePlace(m)
    BY <1>5, <1>7, <2>4
  <2> QED  BY <1>1, <1>3, <2>2, <2>3, <2>5, RefreshPuts
<1> QED  BY <1>2, <1>6, <1>7 DEF PlaceEntry, Do

\* A part of the manager put aside, under the generation's number.
LEMMA PutAside ==
  ASSUME IInv, NEW n \in Places \ First3, txn.gen # 0, root' = [root EXCEPT ![n] = Nothing],
         store' = store \union {MovedOut(n)}
  PROVE  /\ root' \in [Places -> Things] /\ \A m \in First3 : root'[m] = root[m]
         /\ store \subseteq store'
         /\ \A k \in store' : k \in store \/ (k.name \in Places /\ k.was \in Things /\ k.gen = txn.gen)
         /\ \E k \in store' : k.name = n /\ k.gen = txn.gen
<1>1. root[n] \in Things
  BY DEF IInv, Types, DiskTypes
<1>2. MovedOut(n).name = n /\ MovedOut(n).was = root[n] /\ MovedOut(n).gen = txn.gen
  BY DEF MovedOut
<1>3. /\ root' \in [Places -> Things]
      /\ \A m \in Places : root'[m] = IF m = n THEN Nothing ELSE root[m]
  BY OfThings, RootPut
<1>4. \A m \in First3 : root'[m] = root[m]
  BY <1>3 DEF First3, Places
<1> QED  BY <1>1, <1>2, <1>3, <1>4

\* What was put aside under this number is one of the things of the root.
LEMMA WasThing ==
  ASSUME IInv, NEW n, \E k \in store : k.name = n /\ k.gen = txn.gen
  PROVE  Was(n) \in Things
<1>1. \A k \in store : k.was \in Things
  BY DEF IInv, RootRight, BackupsRight
<1>2. (CHOOSE k \in store : k.name = n /\ k.gen = txn.gen) \in store
  OBVIOUS
<1> QED  BY <1>1, <1>2 DEF Was

LEMMA RefreshManagerKeeps ==
  ASSUME IInv, RefreshManager
  PROVE  IInv'
<1>1. /\ At("manager") /\ "manager" \in Refreshing /\ UNCHANGED <<host, boots, life, owners>>
      /\ UNCHANGED <<desk, active, gens, temps, slots, tools, kept, settings, seen, wish>>
  BY DEF RefreshManager, RootKept, Still, Refreshing
<1>2. CASE Go("end") /\ UNCHANGED <<root, store>>
  BY <1>1, <1>2, EntriesOver
<1>3. CASE /\ root' = [root EXCEPT !["program"] = Nothing]
           /\ store' = store \union {MovedOut("program")} /\ Go("midentity")
  <2>1. /\ Locked /\ ~Cleans /\ txn.at = "manager" /\ txn.gen # 0 /\ "midentity" \in Stages
        /\ "midentity" \in Refreshing /\ "program" \in Places \ First3
    BY <1>1, RefreshingThen DEF Stages, Refreshing, Places, First3
  <2>2. /\ txn' \in Txns /\ Core /\ Marks /\ Work /\ txn'.at = "midentity"
        /\ txn'.todo = txn.todo
    BY <1>3, <2>1, GoFields DEF Go, IInv, Types, TxnTypes
  <2>3. /\ root' \in [Places -> Things] /\ \A m \in First3 : root'[m] = root[m]
        /\ store \subseteq store'
        /\ \A k \in store' : k \in store \/ (k.name \in Places /\ k.was \in Things /\ k.gen = txn.gen)
        /\ \E k \in store' : k.name = "program" /\ k.gen = txn.gen
    BY <1>3, <2>1, PutAside
  <2>4. EntriesRight'
    BY <2>2, <2>3 DEF EntriesRight, EntriesFit, Work
  <2> QED  BY <1>1, <2>1, <2>2, <2>3, <2>4, RefreshPuts
<1> QED  BY <1>2, <1>3 DEF RefreshManager

LEMMA MoveIdentityKeeps ==
  ASSUME IInv, MoveIdentity
  PROVE  IInv'
<1>1. /\ At("midentity") /\ "midentity" \in Refreshing /\ UNCHANGED <<host, boots, life, owners>>
      /\ UNCHANGED <<desk, active, gens, temps, slots, tools, kept, settings, seen, wish>>
  BY DEF MoveIdentity, RootKept, Still, Refreshing
<1>2. /\ Locked /\ ~Cleans /\ txn.at = "midentity" /\ txn.gen # 0 /\ "mnew" \in Stages
      /\ "end" \in Stages
      /\ "mnew" \in Refreshing /\ "identity" \in Places \ First3 /\ "program" \in Places \ First3
      /\ \E k \in store : k.name = "program" /\ k.gen = txn.gen
  BY <1>1, RefreshingThen DEF Stages, Refreshing, Ending, Places, First3, EntriesFit
<1>3. CASE store' = store /\ root' = root /\ Go("end")
  BY <1>1, <1>3, EntriesOver
<1>4. CASE /\ root' = [root EXCEPT !["identity"] = Nothing]
           /\ store' = store \union {MovedOut("identity")}
           /\ Do("mnew", <<"identity", "program">>)
  <2>1. <<"identity", "program">> \in Seq(Tools \union Places)
    BY DEF Places
  <2>2. /\ txn' \in Txns /\ Core /\ Marks /\ Work /\ txn'.at = "mnew"
        /\ txn'.todo = <<"identity", "program">>
    BY <1>2, <1>4, <2>1, DoFields DEF Do, IInv, Types, TxnTypes
  <2>3. /\ root' \in [Places -> Things] /\ \A m \in First3 : root'[m] = root[m]
        /\ store \subseteq store'
        /\ \A k \in store' : k \in store \/ (k.name \in Places /\ k.was \in Things /\ k.gen = txn.gen)
        /\ \E k \in store' : k.name = "identity" /\ k.gen = txn.gen
    BY <1>2, <1>4, PutAside
  <2>4. EntriesRight'
    BY <1>2, <2>2, <2>3 DEF EntriesRight, EntriesFit, Work
  <2> QED  BY <1>1, <1>2, <2>2, <2>3, <2>4, RefreshPuts DEF Refreshing
<1>5. CASE /\ root' = [root EXCEPT !["program"] = Was("program")]
           /\ store' = store /\ Go("end")
  <2>1. /\ txn' \in Txns /\ Core /\ Marks /\ Work /\ txn'.at = "end"
        /\ txn'.todo = txn.todo
    BY <1>2, <1>5, GoFields DEF Go, IInv, Types, TxnTypes
  <2>2. Was("program") \in Things
    BY <1>2, WasThing
  <2>3. root' \in [Places -> Things] /\ \A m \in First3 : root'[m] = root[m]
    <3>1. /\ root' \in [Places -> Things]
          /\ \A m \in Places : root'[m] = IF m = "program" THEN Was("program") ELSE root[m]
      BY <1>2, <1>5, <2>2, RootPut
    <3> QED  BY <3>1 DEF First3, Places
  <2>4. EntriesRight'
    BY <2>1 DEF EntriesRight, EntriesFit
  <2> QED  BY <1>1, <1>2, <1>5, <2>1, <2>3, <2>4, RefreshPuts DEF Refreshing
<1> QED  BY <1>3, <1>4, <1>5 DEF MoveIdentity

LEMMA NewManagerKeeps ==
  ASSUME IInv, NewManager
  PROVE  IInv'
<1>1. /\ At("mnew") /\ "mnew" \in Refreshing /\ UNCHANGED <<host, boots, life, owners>>
      /\ UNCHANGED <<desk, active, gens, temps, slots, tools, kept, settings, seen, wish, store>>
  BY DEF NewManager, RootKept, Still, Refreshing
<1>2. /\ Locked /\ ~Cleans /\ txn.at = "mnew" /\ txn.gen # 0 /\ txn.rel \in Releases
      /\ "end" \in Stages /\ "mnew" \in Stages
      /\ \E k \in store : k.name = "program" /\ k.gen = txn.gen
      /\ \E k \in store : k.name = "identity" /\ k.gen = txn.gen
      /\ txn.todo \in {<<"identity", "program">>, <<"program">>, <<>>}
  BY <1>1, RefreshingThen DEF Stages, Refreshing, Ending, EntriesFit
<1>3. CASE root' = root /\ Go("end")
  BY <1>1, <1>3, EntriesOver
<1>4. CASE /\ txn.todo # <<>> /\ root' = [root EXCEPT ![Name] = Manager(txn.rel)]
           /\ txn' = [txn EXCEPT !.todo = Rest]
  <2>1. /\ Name \in {"identity", "program"} /\ Rest \in {<<"program">>, <<>>}
    <3>1. CASE txn.todo = <<"identity", "program">>
      BY <3>1 DEF Name, Rest
    <3>2. CASE txn.todo = <<"program">>
      BY <3>2 DEF Name, Rest
    <3> QED  BY <1>2, <1>4, <3>1, <3>2
  <2>2. <<"program">> \in Seq(Tools \union Places) /\ <<>> \in Seq(Tools \union Places)
    BY DEF Places
  <2>3. txn' \in Txns /\ Core /\ Marks /\ Work /\ txn'.at = "mnew" /\ txn'.todo = Rest
    BY <1>2, <1>4, <2>1, <2>2, NextFields DEF IInv, Types, TxnTypes
  <2>4. Name \in Places /\ Name \notin First3 /\ Manager(txn.rel) \in Things
    BY <1>2, <2>1, OfThings DEF First3, Places
  <2>5. root' \in [Places -> Things] /\ \A m \in First3 : root'[m] = root[m]
    <3>1. /\ root' \in [Places -> Things]
          /\ \A m \in Places : root'[m] = IF m = Name THEN Manager(txn.rel) ELSE root[m]
      BY <1>4, <2>4, RootPut
    <3> QED  BY <2>4, <3>1 DEF First3, Places
  <2>6. EntriesRight'
    BY <1>1, <1>2, <2>1, <2>3 DEF EntriesRight, EntriesFit, Work
  <2> QED  BY <1>1, <1>2, <2>3, <2>5, <2>6, RefreshPuts
<1>5. ASSUME NEW p \in {Nothing, Was("program")}, NEW i \in {Nothing, Was("identity")},
             root' = [root EXCEPT !["program"] = p, !["identity"] = i], Go("end")
      PROVE  IInv'
  <2>1. /\ txn' \in Txns /\ Core /\ Marks /\ Work /\ txn'.at = "end"
        /\ txn'.todo = txn.todo
    BY <1>2, <1>5, GoFields DEF Go, IInv, Types, TxnTypes
  <2>2. p \in Things /\ i \in Things
    BY <1>2, <1>5, WasThing, OfThings
  <2>3. root' \in [Places -> Things] /\ \A m \in First3 : root'[m] = root[m]
    <3>1. root \in [Places -> Things]
      BY DEF IInv, Types, DiskTypes
    <3>2. /\ root' \in [Places -> Things]
          /\ \A m \in Places : m \notin {"program", "identity"} => root'[m] = root[m]
      BY <1>5, <2>2, <3>1
    <3> QED  BY <3>2 DEF First3, Places
  <2>4. EntriesRight'
    BY <2>1 DEF EntriesRight, EntriesFit
  <2> QED  BY <1>1, <1>2, <1>5, <2>1, <2>3, <2>4, RefreshPuts DEF Refreshing
<1> QED  BY <1>3, <1>4, <1>5 DEF NewManager

-----------------------------------------------------------------------------
(* The commit, and what is taken back. *)

LEMMA SwapKeeps ==
  ASSUME IInv, Swap
  PROVE  IInv'
<1>1. /\ At("swap")
      /\ UNCHANGED <<desk, gens, slots, tools, kept, parts, root, store, settings, seen, wish>>
  BY DEF Swap
<1>2. "swap" \in Stages \ {"rest", "clean", "restore"} /\ "said" \in Stages
  BY DEF Stages, Selecting
<1>3. /\ Locked /\ ~Cleans /\ "swap" \in Course(txn.op) /\ txn.op \in Ops /\ txn.at = "swap"
      /\ txn.gen # 0
  BY <1>1, <1>2, AtWork, AtHas DEF Numberless, Laying
<1>4. CASE (Fails \/ (Stop /\ Still)) /\ UNCHANGED <<active, temps>>
  BY <1>1, <1>2, <1>4, SettingsHere, Failing
<1>5. CASE /\ active' = txn.gen /\ temps' = temps \ {txn.gen} /\ Still
           /\ txn' = [txn EXCEPT !.at = "said", !.committed = TRUE]
  <2> DEFINE b == TRUE
  <2>1. b \in BOOLEAN /\ txn' = [txn EXCEPT !.at = "said", !.committed = b]
    BY <1>5
  <2> HIDE DEF b
  <2>2. txn' \in Txns /\ Core /\ Marks /\ Work /\ txn'.at = "said" /\ txn'.todo = txn.todo
    BY <1>2, <2>1, SwapFields DEF IInv, Types, TxnTypes
  <2>3. DiskTypes' /\ WishTypes'
    <3>1. txn.gen \in 0 .. Len(gens)
      BY DEF IInv, Types, TxnTypes
    <3> QED  BY <1>1, <1>5, <3>1 DEF IInv, Types, DiskTypes, WishTypes
  <2>4. SelectionRight'
    <3>1. Loads(txn.gen)
      BY <1>3 DEF IInv, SelectionRight
    <3>2. active' # 0 => Loads(active)'
      BY <1>1, <1>5, <3>1 DEF Loads
    <3>3. \A g \in 1 .. Len(gens') : Fits(gens'[g].shape, gens'[g].rel)
      BY <1>1 DEF IInv, SelectionRight
    <3> QED  BY <2>2, <3>2, <3>3 DEF SelectionRight
  <2>5. TxnTypes' /\ ColdRight' /\ CleanRight' /\ ~Cleans' /\ Locked'
    <3>1. "said" \in Course(txn.op)
      BY <1>3 DEF Course, Ops, Laying, Tooling, Managing, Selecting, Refreshing, Ending
    <3>2. AfterClose
      BY <1>3 DEF AfterClose, Selecting
    <3> QED  BY <1>1, <1>3, <1>5, <2>2, <3>1, <3>2, OnwardMarks DEF Still, Work
  <2>6. /\ TodoFits("said", txn.todo) /\ EntriesFit("said", txn.todo)
        /\ MovesFit("said", txn.todo, txn.moved) /\ "said" \notin Early \union {"move"}
    BY <1>3, FreeStages, FreeMoves DEF IInv, RootRight, MovesRight, Early, Laying, Tooling
  <2>7. ToolsRight'
    BY <1>1, <1>3, <2>2, <2>5, <2>6, LenNat, ToolsFrame DEF IInv, Types, Work, ToBeUndone
  <2>8. RootRight'
    BY <1>1, <1>3, <2>2, <2>5, <2>6, LenNat, RootFrame DEF IInv, Types, Work, ToBePutBack
  <2> QED  BY <2>3, <2>4, <2>5, <2>7, <2>8 DEF IInv, Types
<1> QED  BY <1>4, <1>5 DEF Swap

\* A task of what is taken back is over, `w` says whether it did all it had to.
LEMMA DueThen ==
  ASSUME IInv, NEW t \in Tasks, Cleans, Task = t
  PROVE  /\ Locked /\ txn.clean # <<>> /\ Task = t /\ Left(t)
         /\ t \notin txn.ok /\ Tail(txn.clean) \in Chains
         /\ t \in {"undo", "putback"} \/ txn.well
         /\ \A x \in Items(Tail(txn.clean)) : Left(x) /\ x # t
         /\ txn.op # "migrate" =>
              /\ t \in {"undo", "takeback"}
              /\ Tail(txn.clean) \in {<<>>, <<"takeback">>}
         /\ t = "undo" => txn.op \in Making
         /\ t = "unmanage" => Left("putback")
<1>1. Task = t /\ txn.clean \in Chains
  BY TypedThere DEF IInv
<1>2. txn.clean # <<>> /\ Head(txn.clean) = t
  BY <1>1 DEF Task, Tasks
<1>3. /\ Tail(txn.clean) \in Chains /\ Left(t)
      /\ \A x \in Items(Tail(txn.clean)) : Left(x) /\ x # t
  BY <1>1, <1>2, ChainTail DEF Left
<1>4. Locked
  BY DEF Cleans, Locked
<1>5. t \notin txn.ok /\ (t \in {"undo", "putback"} \/ txn.well)
  BY <1>1, <1>3 DEF IInv, CleanRight
<1>6. ASSUME txn.op # "migrate"
      PROVE  t \in {"undo", "takeback"} /\ Tail(txn.clean) \in {<<>>, <<"takeback">>}
  <2>1. txn.clean \in {<<"undo">>, <<"takeback">>, <<"undo", "takeback">>}
    BY <1>2, <1>6 DEF IInv, CleanRight
  <2>2. CASE txn.clean = <<"undo">>
    BY <1>2, <2>2
  <2>3. CASE txn.clean = <<"takeback">>
    BY <1>2, <2>3
  <2>4. CASE txn.clean = <<"undo", "takeback">>
    BY <1>2, <2>4
  <2> QED  BY <2>1, <2>2, <2>3, <2>4
<1>7. t = "undo" => txn.op \in Making
  BY <1>3 DEF IInv, CleanRight
<1>8. ASSUME t = "unmanage"
      PROVE  Left("putback")
  <2>1. txn.clean[1] = "unmanage"
    BY <1>2, <1>8
  <2>2. txn.clean = <<"unmanage", "putback", "unset">>
    BY <1>1, <1>2, <2>1 DEF Chains
  <2> QED  BY <2>2 DEF Left, Items
<1> QED  BY <1>1, <1>2, <1>3, <1>4, <1>5, <1>6, <1>7, <1>8

LEMMA DoneThen ==
  ASSUME IInv, NEW t \in Tasks, Cleaning(t)
  PROVE  /\ txn.at = "clean" /\ Cleans /\ Locked /\ txn.clean # <<>> /\ Task = t /\ Left(t)
         /\ t \notin txn.ok /\ Tail(txn.clean) \in Chains
         /\ t \in {"undo", "putback"} \/ txn.well
         /\ \A x \in Items(Tail(txn.clean)) : Left(x) /\ x # t
         /\ txn.op # "migrate" =>
              /\ t \in {"undo", "takeback"}
              /\ Tail(txn.clean) \in {<<>>, <<"takeback">>}
         /\ t = "undo" => txn.op \in Making
         /\ t = "unmanage" => Left("putback")
<1>1. Cleans /\ Task = t /\ txn.at = "clean"
  BY DEF Cleaning, At, Cleans
<1> QED  BY <1>1, DueThen

LEMMA DoneFields ==
  ASSUME IInv, NEW t \in Tasks, Cleaning(t), NEW w \in BOOLEAN, Done(t, w)
  PROVE  /\ txn' \in Txns /\ Core /\ Work /\ txn'.at = "clean" /\ txn'.todo = txn.todo
         /\ txn'.clean = Tail(txn.clean) /\ txn'.well
         /\ txn'.ok = IF w THEN txn.ok \union {t} ELSE txn.ok
<1> DEFINE c == Tail(txn.clean)
           b == TRUE
           k == IF w THEN txn.ok \union {t} ELSE txn.ok
<1>1. c \in Chains /\ txn.at = "clean" /\ txn \in Txns
  BY DoneThen DEF IInv, Types, TxnTypes
<1>2. k \in SUBSET Tasks /\ b \in BOOLEAN /\ b
  BY TypedThere DEF IInv
<1>3. txn' = [txn EXCEPT !.clean = c, !.well = b, !.ok = k]
  BY DEF Done
<1> HIDE DEF c, k, b
<1>4. /\ txn' \in Txns /\ Core /\ Work
      /\ txn'.at = txn.at /\ txn'.todo = txn.todo /\ txn'.clean = c /\ txn'.ok = k
      /\ txn'.well = b
  BY <1>1, <1>2, <1>3, CleanFields
<1> QED  BY <1>1, <1>2, <1>4 DEF c, k

\* What is said to be restored is, and nothing else was touched.
Restored(ok) ==
    /\ "takeback" \in ok => active' = txn.base
    /\ "undo" \in ok => \A n \in Tools : Stands(n)'
    /\ "unmanage" \in ok => root'["identity"] = txn.before.root["identity"]
    /\ "putback" \in ok => \A m \in Places \ {"identity"} : root'[m] = txn.before.root[m]
    /\ "unset" \in ok => settings' \in {txn.before.settings, "theirs"}

LEMMA CleanAfter ==
  ASSUME IInv, NEW t \in Tasks, Cleans, Task = t, Core, txn'.at = "clean",
         txn'.clean \in {<<>>, Tail(txn.clean)}, txn'.well,
         txn'.ok \in {txn.ok, txn.ok \union {t}}, Restored(txn'.ok)
  PROVE  /\ CleanRight' /\ (AfterClose' => AfterClose) /\ Cleans'
         /\ ToBeUndone' => ToBeUndone
         /\ t # "putback" => (ToBePutBack' => ToBePutBack)
         /\ t = "putback" => ~ToBePutBack'
<1>1. /\ Locked /\ txn.clean # <<>> /\ Task = t
      /\ t \notin txn.ok /\ Left(t)
      /\ \A x \in Items(Tail(txn.clean)) : Left(x) /\ x # t
  BY DueThen
<1>2. \A x : Left(x)' => Left(x) /\ x # t
  <2>1. CASE txn'.clean = <<>>
    BY <2>1 DEF Left, Items
  <2>2. CASE txn'.clean = Tail(txn.clean)
    BY <1>1, <2>2 DEF Left
  <2> QED  BY <2>1, <2>2
<1>3. CleanRight'
  <2>1. \A x \in txn'.ok : ~Left(x)'
    BY <1>2 DEF IInv, CleanRight
  <2>2. txn.op # "migrate" =>
          /\ txn'.clean \in {<<>>, <<"undo">>, <<"takeback">>, <<"undo", "takeback">>}
          /\ txn'.ok \subseteq {"undo", "takeback"}
    <3>1. txn.op # "migrate" => txn.ok \subseteq {"undo", "takeback"}
      BY DEF IInv, CleanRight
    <3>2. txn.op # "migrate" =>
            t \in {"undo", "takeback"} /\ Tail(txn.clean) \in {<<>>, <<"takeback">>}
      BY DueThen
    <3> QED  BY <3>1, <3>2
  <2>3. txn.op \notin Making => "undo" \notin txn'.ok /\ ~Left("undo")'
    BY <1>2, DueThen DEF IInv, CleanRight
  <2>4. Cleans' /\ txn'.at # "restore"
    BY DEF Cleans
  <2> QED  BY <2>1, <2>2, <2>3, <2>4 DEF CleanRight, Core, Restored
<1>4. (AfterClose' => AfterClose) /\ Cleans'
  BY <1>1 DEF AfterClose, Cleans
<1>5. ToBeUndone' => ToBeUndone
  BY <1>1, <1>2, <1>4 DEF ToBeUndone
<1>6. t # "putback" => (ToBePutBack' => ToBePutBack)
  BY <1>1, <1>2, <1>4 DEF ToBePutBack
<1>7. t = "putback" => ~ToBePutBack'
  BY <1>2, <1>4 DEF ToBePutBack
<1> QED  BY <1>3, <1>4, <1>5, <1>6, <1>7

\* The task changed the selection or the settings alone, or nothing.
LEMMA TakesBack ==
  ASSUME IInv, Cleans, Locked, UNCHANGED <<host, boots, life, owners>>,
         UNCHANGED <<desk, gens, slots, tools, kept, root, store, seen, wish>>,
         NEW a \in 0 .. Len(gens), active' = a, a # 0 => Loads(a),
         temps' \subseteq (-Len(gens)) .. Len(gens), settings' \in Settings,
         txn' \in Txns, Core, Work, Cleans', txn'.at = "restore" => Loads(txn.base),
         AfterClose' => AfterClose, ToBeUndone' => ToBeUndone, ToBePutBack' => ToBePutBack,
         CleanRight'
  PROVE  IInv'
<1>1. DiskTypes' /\ WishTypes'
  BY DEF IInv, Types, DiskTypes, WishTypes
<1>2. txn'.at \in {"clean", "restore"}
  BY DEF Cleans
<1>3. TxnTypes'
  <2>1. txn.op \in Ops \ {"none"}
    BY TypedThere DEF IInv, Types, TxnTypes, Ops, Course, Locked
  <2>2. {"clean", "restore"} \subseteq Course(txn.op)
    BY <2>1 DEF Course, Ops, Ending
  <2> QED  BY <1>2, <2>2 DEF IInv, Types, TxnTypes, Core, Work, Numberless
<1>4. SelectionRight'
  <2>1. \A g \in 1 .. Len(gens') : Fits(gens'[g].shape, gens'[g].rel)
    BY DEF IInv, SelectionRight
  <2>2. active' # 0 => Loads(active)'
    BY DEF Loads
  <2>3. txn'.at = "restore" => Loads(txn.base)'
    BY DEF Loads, Core
  <2> QED  BY <1>2, <2>1, <2>2, <2>3 DEF SelectionRight
<1>5. ColdRight'
  <2>1. txn.op \in Restarting /\ AfterClose' => Gone
    BY DEF IInv, ColdRight
  <2> QED  BY <2>1, ColdFrame DEF IInv
<1>6. ToolsRight'
  <2>1. TodoFits(txn'.at, txn'.todo) /\ txn'.at \notin Early \union {"move"}
    BY <1>2, FreeStages DEF Early, Laying, Tooling
  <2> QED  BY <2>1, LenNat, ToolsFrame DEF IInv, Types, Work
<1>7. RootRight'
  <2>1. EntriesFit(txn'.at, txn'.todo) /\ MovesFit(txn'.at, txn'.todo, txn.moved)
    BY <1>2 DEF EntriesFit, MovesFit, IInv, RootRight, MovesRight, Cleans, Early, Laying
  <2> QED  BY <2>1, LenNat, RootFrame DEF IInv, Types, Work
<1> QED  BY <1>1, <1>3, <1>4, <1>5, <1>6, <1>7 DEF IInv, Types

LEMMA SameStands ==
  ASSUME UNCHANGED <<tools>>, Core
  PROVE  \A n : Stands(n)' <=> Stands(n)
BY DEF Core, Stands, Brings

\* Every task is over when what it was to restore is restored, or it says it did not.
LEMMA TaskKeeps ==
  ASSUME IInv, NEW t \in Tasks \ {"undo", "putback"}, Cleaning(t),
         UNCHANGED <<host, boots, life, owners>>,
         UNCHANGED <<desk, gens, slots, tools, kept, root, store, seen, wish>>,
         NEW a \in 0 .. Len(gens), active' = a, a # 0 => Loads(a),
         a = active \/ (t = "takeback" /\ "takeback" \notin txn.ok),
         temps' \subseteq (-Len(gens)) .. Len(gens), settings' \in Settings,
         settings' = settings \/ t = "unset", NEW w \in BOOLEAN, Done(t, w),
         w => t # "unmanage", w /\ t = "takeback" => a = txn.base,
         w /\ t = "unset" => settings' = txn.before.settings
  PROVE  IInv'
<1>1. /\ txn' \in Txns /\ Core /\ Work /\ txn'.at = "clean" /\ txn'.todo = txn.todo
      /\ txn'.clean = Tail(txn.clean) /\ txn'.well
      /\ txn'.ok = IF w THEN txn.ok \union {t} ELSE txn.ok
  BY DoneFields
<1>2. t \notin txn.ok /\ Cleans /\ Locked /\ Task = t
  BY DoneThen
<1>3. Restored(txn'.ok)
  <2>1. \A x \in txn'.ok : x \in txn.ok \/ (x = t /\ w)
    BY <1>1
  <2>2. "takeback" \in txn'.ok => active' = txn.base
    BY <1>2, <2>1 DEF IInv, CleanRight
  <2>3. "undo" \in txn'.ok => \A n \in Tools : Stands(n)'
    BY <1>1, <2>1, SameStands DEF IInv, CleanRight
  <2>4. /\ "unmanage" \in txn'.ok => root'["identity"] = txn.before.root["identity"]
        /\ "putback" \in txn'.ok => \A m \in Places \ {"identity"} : root'[m] = txn.before.root[m]
    BY <1>1, <2>1 DEF IInv, CleanRight
  <2>5. "unset" \in txn'.ok => settings' \in {txn.before.settings, "theirs"}
    BY <1>2, <2>1 DEF IInv, CleanRight
  <2> QED  BY <2>2, <2>3, <2>4, <2>5 DEF Restored
<1>4. /\ CleanRight' /\ (AfterClose' => AfterClose) /\ Cleans'
      /\ ToBeUndone' => ToBeUndone
      /\ ToBePutBack' => ToBePutBack
  BY <1>1, <1>2, <1>3, CleanAfter
<1> QED  BY <1>1, <1>2, <1>4, TakesBack

\* A migration that cannot take its selection back takes nothing else back.
LEMMA GivesUp ==
  ASSUME IInv, Cleaning("takeback"), UNCHANGED <<host, boots, life, owners>>,
         UNCHANGED <<desk, gens, slots, tools, kept, parts, root, store, settings, seen, wish>>,
         NEW a \in 0 .. Len(gens), active' = a, a # 0 => Loads(a),
         temps' \subseteq (-Len(gens)) .. Len(gens), Stuck
  PROVE  IInv'
<1>1. /\ txn.at = "clean" /\ Cleans /\ Locked /\ "takeback" \notin txn.ok /\ txn.well
      /\ "takeback" \in Tasks /\ Task = "takeback"
  BY DoneThen DEF Tasks
<1>2. settings' \in Settings /\ settings' = settings
  BY DEF IInv, Types, DiskTypes
<1>3. CASE Done("takeback", FALSE)
  <2> DEFINE w == FALSE
  <2>1. w \in BOOLEAN /\ ~w /\ Done("takeback", w)
    BY <1>3
  <2> HIDE DEF w
  <2>2. "takeback" \in Tasks \ {"undo", "putback", "unmanage"}
    BY DEF Tasks
  <2> QED  BY <1>1, <1>2, <2>1, <2>2, TaskKeeps
<1>4. CASE txn' = [txn EXCEPT !.clean = <<>>]
  <2> DEFINE c == <<>>
  <2>1. c \in Chains /\ txn' = [txn EXCEPT !.clean = c]
    BY <1>4 DEF Chains
  <2>2. /\ txn' \in Txns /\ Core /\ Work /\ txn'.at = txn.at
        /\ txn'.todo = txn.todo /\ txn'.clean = c /\ txn'.ok = txn.ok /\ txn'.well = txn.well
    BY <2>1, StuckFields DEF IInv, Types, TxnTypes
  <2>3. Restored(txn'.ok)
    <3>1. "undo" \in txn'.ok => \A n \in Tools : Stands(n)'
      BY <2>2, SameStands DEF IInv, CleanRight
    <3> QED  BY <1>1, <1>2, <2>2, <3>1 DEF Restored, IInv, CleanRight
  <2>4. /\ CleanRight' /\ (AfterClose' => AfterClose) /\ Cleans'
        /\ ToBeUndone' => ToBeUndone
        /\ ToBePutBack' => ToBePutBack
    BY <1>1, <2>2, <2>3, CleanAfter
  <2>5. txn'.at # "restore"
    BY <1>1, <2>2
  <2> QED  BY <1>1, <1>2, <2>2, <2>4, <2>5, TakesBack
<1> QED  BY <1>3, <1>4 DEF Stuck

LEMMA TakeBackKeeps ==
  ASSUME IInv, TakeBack
  PROVE  IInv'
<1>1. /\ Cleaning("takeback") /\ UNCHANGED <<host, boots, life, owners>>
      /\ UNCHANGED <<desk, gens, slots, tools, kept, parts, root, store, settings, seen, wish>>
  BY DEF TakeBack, Still
<1>2. /\ txn.at = "clean" /\ Cleans /\ Locked /\ "takeback" \notin txn.ok /\ txn.well
      /\ "takeback" \in Tasks \ {"undo", "putback", "unmanage"} /\ Task = "takeback"
      /\ Left("takeback")
  BY <1>1, DoneThen DEF Tasks
<1>3. /\ active \in 0 .. Len(gens) /\ 0 \in 0 .. Len(gens) /\ temps \subseteq (-Len(gens)) .. Len(gens)
      /\ settings' \in Settings /\ settings' = settings /\ (active # 0 => Loads(active))
      /\ -txn.gen \in (-Len(gens)) .. Len(gens)
  BY <1>1 DEF IInv, Types, DiskTypes, TxnTypes, SelectionRight
<1>4. CASE UNCHANGED <<active, temps>> /\ Unchanged(txn.base) /\ Done("takeback", TRUE)
  <2> DEFINE w == TRUE
  <2>1. w \in BOOLEAN /\ Done("takeback", w)
    BY <1>4
  <2> HIDE DEF w
  <2> QED  BY <1>1, <1>2, <1>3, <1>4, <2>1, TaskKeeps DEF Unchanged
<1>5. CASE txn.base = 0 /\ active' = 0 /\ temps' = temps /\ Done("takeback", TRUE)
  <2> DEFINE w == TRUE
             a == 0
  <2>1. w \in BOOLEAN /\ Done("takeback", w) /\ active' = a /\ a = 0
    BY <1>5
  <2> HIDE DEF w, a
  <2> QED  BY <1>1, <1>2, <1>3, <1>5, <2>1, TaskKeeps
<1>6. CASE /\ Loads(txn.base) /\ temps' = temps \union {-txn.gen} /\ active' = active
           /\ Go("restore")
  <2>1. "restore" \in Stages
    BY DEF Stages, Ending
  <2>2. txn' \in Txns /\ Core /\ Marks /\ Work /\ txn'.at = "restore" /\ txn'.todo = txn.todo
    BY <1>6, <2>1, GoFields DEF IInv, Types, TxnTypes, Go
  <2>3. Cleans' /\ (AfterClose' => AfterClose)
    BY <1>2, <2>2 DEF Cleans, AfterClose, Marks, Left, Task, Items
  <2>4. Left("undo")' <=> Left("undo")
    BY <2>2 DEF Left, Marks
  <2>5. Left("putback")' <=> Left("putback")
    BY <2>2 DEF Left, Marks
  <2>6. Task' = Task
    BY <2>2 DEF Task, Marks
  <2>7. (ToBeUndone' => ToBeUndone) /\ (ToBePutBack' => ToBePutBack)
    BY <1>2, <2>2, <2>3, <2>4, <2>5, <2>6 DEF ToBeUndone, ToBePutBack, Marks
  <2>8. CleanRight'
    <3>1. \A t : Left(t)' <=> Left(t)
      BY <2>2 DEF Left, Marks
    <3>2. \A n : Stands(n)' <=> Stands(n)
      BY <1>1, <2>2, SameStands
    <3> QED  BY <1>1, <1>2, <1>6, <2>2, <2>3, <2>6, <3>1, <3>2 DEF CleanRight, IInv, Core, Marks
  <2> QED  BY <1>1, <1>2, <1>3, <1>6, <2>2, <2>3, <2>7, <2>8, TakesBack
<1>7. CASE Stuck /\ active' = active /\ temps' \in {temps, temps \union {-txn.gen}}
  BY <1>1, <1>3, <1>7, GivesUp
<1>8. CASE Stuck /\ active' = 0 /\ temps' = temps
  <2> DEFINE a == 0
  <2>1. active' = a /\ a = 0
    BY <1>8
  <2> HIDE DEF a
  <2> QED  BY <1>1, <1>3, <1>8, <2>1, GivesUp
<1> QED  BY <1>4, <1>5, <1>6, <1>7, <1>8 DEF TakeBack

-----------------------------------------------------------------------------
(* The previous selection written again, the manager, the settings. *)

LEMMA RestoreDone ==
  ASSUME IInv, At("restore"), UNCHANGED <<host, boots, life, owners>>,
         UNCHANGED <<desk, gens, slots, tools, kept, parts, root, store, settings, seen, wish>>,
         active' \in {active, txn.base}, temps' \subseteq (-Len(gens)) .. Len(gens),
         txn' \in Txns, Core, Work, txn'.at = "clean", txn'.clean = Tail(txn.clean),
         txn'.ok \in {txn.ok, txn.ok \union {"takeback"}}, txn'.well = txn.well,
         "takeback" \in txn'.ok => active' = txn.base
  PROVE  IInv'
<1>1. /\ Cleans /\ Locked /\ Task = "takeback" /\ "takeback" \in Tasks /\ txn.well
      /\ Loads(txn.base)
  BY DEF At, Cleans, Locked, Tasks, IInv, CleanRight, SelectionRight
<1>2. Restored(txn'.ok)
  <2>1. "undo" \in txn'.ok => \A n \in Tools : Stands(n)'
    BY SameStands DEF IInv, CleanRight
  <2> QED  BY <2>1 DEF Restored, IInv, CleanRight
<1>3. /\ CleanRight' /\ (AfterClose' => AfterClose) /\ Cleans'
      /\ ToBeUndone' => ToBeUndone
      /\ ToBePutBack' => ToBePutBack
  BY <1>1, <1>2, CleanAfter
<1>4. settings' \in Settings
  BY DEF IInv, Types, DiskTypes
<1>5. active \in 0 .. Len(gens) /\ txn.base \in 0 .. Len(gens) /\ (active # 0 => Loads(active))
  BY DEF IInv, Types, DiskTypes, TxnTypes, SelectionRight
<1>6. CASE active' = active
  BY <1>1, <1>3, <1>4, <1>5, <1>6, TakesBack
<1>7. CASE active' = txn.base
  BY <1>1, <1>3, <1>4, <1>5, <1>7, TakesBack
<1> QED  BY <1>6, <1>7

LEMMA RestoreKeeps ==
  ASSUME IInv, Restore
  PROVE  IInv'
<1>1. /\ At("restore") /\ UNCHANGED <<host, boots, life, owners>>
      /\ UNCHANGED <<desk, gens, slots, tools, kept, parts, root, store, settings, seen, wish>>
  BY DEF Restore, Still
<1> DEFINE c == Tail(txn.clean)
           k == txn.ok \union {"takeback"}
           b == FALSE
<1>2. /\ c \in Chains /\ k \in SUBSET Tasks /\ b \in BOOLEAN /\ "clean" \in Stages
      /\ "takeback" \notin txn.ok
  <2>1. Cleans /\ Task = "takeback" /\ "takeback" \in Tasks
    BY <1>1 DEF At, Cleans, Tasks, IInv, CleanRight
  <2> QED  BY <2>1, DueThen, TypedThere DEF IInv, Stages, Ending
<1>3. temps \subseteq (-Len(gens)) .. Len(gens)
  BY DEF IInv, Types, DiskTypes
<1>4. CASE /\ active' = txn.base /\ temps' = temps \ {-txn.gen}
           /\ txn' = [[txn EXCEPT !.at = "clean"] EXCEPT !.committed = FALSE,
                         !.clean = Tail(txn.clean), !.ok = txn.ok \union {"takeback"}]
  <2>1. txn' = [[txn EXCEPT !.at = "clean"] EXCEPT !.committed = b, !.clean = c, !.ok = k]
    BY <1>4
  <2>2. k = txn.ok \union {"takeback"} /\ c = Tail(txn.clean)
    OBVIOUS
  <2> HIDE DEF b, c, k
  <2>3. /\ txn' \in Txns /\ Core /\ Work /\ txn'.at = "clean" /\ txn'.clean = c /\ txn'.ok = k
        /\ txn'.well = txn.well
    BY <1>2, <2>1, RestoreFields DEF IInv, Types, TxnTypes
  <2> QED  BY <1>1, <1>3, <1>4, <2>2, <2>3, RestoreDone
<1>5. CASE /\ UNCHANGED <<active, temps>> \/ (active' = txn.base /\ temps' = temps \ {-txn.gen})
           /\ txn' = [[txn EXCEPT !.at = "clean"] EXCEPT !.clean = Tail(txn.clean)]
  <2>1. txn' = [[txn EXCEPT !.at = "clean"] EXCEPT !.clean = c]
    BY <1>5
  <2>2. c = Tail(txn.clean)
    OBVIOUS
  <2> HIDE DEF c
  <2>3. /\ txn' \in Txns /\ Core /\ Work /\ txn'.at = "clean" /\ txn'.clean = c
        /\ txn'.ok = txn.ok /\ txn'.well = txn.well
    BY <1>2, <2>1, UnrestoredFields DEF IInv, Types, TxnTypes
  <2> QED  BY <1>1, <1>2, <1>3, <1>5, <2>2, <2>3, RestoreDone
<1> QED  BY <1>4, <1>5 DEF Restore

LEMMA UnsetKeeps ==
  ASSUME IInv, Unset
  PROVE  IInv'
<1>1. /\ Cleaning("unset") /\ UNCHANGED <<host, boots, life, owners>>
      /\ UNCHANGED <<desk, active, gens, temps, slots, tools, kept, root, store, seen, wish>>
  BY DEF Unset, RootKept, Still
<1>2. "unset" \in Tasks \ {"undo", "putback"}
  BY DEF Tasks
<1>3. /\ active \in 0 .. Len(gens) /\ temps' \subseteq (-Len(gens)) .. Len(gens)
      /\ settings \in Settings /\ txn.before.settings \in Settings
      /\ (active # 0 => Loads(active)) /\ "torn" \in Settings
  BY <1>1, TypedThere DEF IInv, Types, DiskTypes, SelectionRight, Settings
<1>4. CASE settings' = txn.before.settings /\ Done("unset", TRUE)
  <2> DEFINE w == TRUE
  <2>1. w \in BOOLEAN /\ Done("unset", w)
    BY <1>4
  <2> HIDE DEF w
  <2> QED  BY <1>1, <1>2, <1>3, <1>4, <2>1, TaskKeeps
<1>5. CASE settings' \in {settings, "torn"} /\ Done("unset", FALSE)
  <2> DEFINE w == FALSE
  <2>1. w \in BOOLEAN /\ ~w /\ Done("unset", w)
    BY <1>5
  <2> HIDE DEF w
  <2> QED  BY <1>1, <1>2, <1>3, <1>5, <2>1, TaskKeeps
<1> QED  BY <1>4, <1>5 DEF Unset

\* The task gave places of the root back, and changed nothing else.
LEMMA RootBack ==
  ASSUME IInv, Cleans, Locked, UNCHANGED <<host, boots, life, owners>>,
         UNCHANGED <<desk, active, gens, temps, slots, tools, kept, settings, seen, wish>>,
         txn' \in Txns, Core, txn'.at = "clean", txn'.gen = txn.gen, txn'.done = txn.done,
         AfterClose' => AfterClose, ToBeUndone' => ToBeUndone,
         root' \in [Places -> Things], RootRight', CleanRight'
  PROVE  IInv'
<1>1. DiskTypes' /\ WishTypes'
  BY RootTyped
<1>2. TxnTypes'
  <2>1. txn.op \in Ops \ {"none"}
    BY TypedThere DEF IInv, Types, TxnTypes, Ops, Course, Locked
  <2>2. "clean" \in Course(txn.op)
    BY <2>1 DEF Course, Ops, Ending
  <2> QED  BY <2>2 DEF IInv, Types, TxnTypes, Core, Numberless
<1>3. SelectionRight'
  BY SelectionFrame DEF IInv
<1>4. ColdRight'
  <2>1. txn.op \in Restarting /\ AfterClose' => Gone
    BY DEF IInv, ColdRight
  <2> QED  BY <2>1, ColdFrame DEF IInv
<1>5. ToolsRight'
  <2>1. TodoFits(txn'.at, txn'.todo) /\ txn'.at \notin Early \union {"move"} /\ Cleans'
    BY FreeStages DEF Early, Laying, Tooling, Cleans
  <2> QED  BY <2>1, LenNat, ToolsFrame DEF IInv, Types
<1> QED  BY <1>1, <1>2, <1>3, <1>4, <1>5 DEF IInv, Types

LEMMA UnmanageKeeps ==
  ASSUME IInv, Unmanage
  PROVE  IInv'
<1>1. /\ Cleaning("unmanage") /\ UNCHANGED <<host, boots, life, owners>>
      /\ UNCHANGED <<desk, active, gens, temps, slots, tools, kept, seen, wish, store, settings>>
  BY DEF Unmanage, RootKept, Still
<1>2. "unmanage" \in Tasks \ {"undo", "putback"}
  BY DEF Tasks
<1>3. /\ txn.at = "clean" /\ Cleans /\ Locked /\ txn.op = "migrate" /\ Task = "unmanage"
      /\ Left("putback") /\ "putback" \notin txn.ok
  BY <1>1, <1>2, DoneThen DEF IInv, CleanRight
<1>4. CASE root' = root /\ Done("unmanage", FALSE)
  <2> DEFINE w == FALSE
  <2>1. w \in BOOLEAN /\ ~w /\ Done("unmanage", w)
    BY <1>4
  <2>2. /\ active \in 0 .. Len(gens) /\ temps' \subseteq (-Len(gens)) .. Len(gens)
        /\ settings' \in Settings /\ (active # 0 => Loads(active))
    BY <1>1 DEF IInv, Types, DiskTypes, SelectionRight
  <2> HIDE DEF w
  <2> QED  BY <1>1, <1>2, <1>4, <2>1, <2>2, TaskKeeps
<1>5. CASE /\ root' = IF Made THEN [root EXCEPT !["identity"] = Nothing] ELSE root
           /\ Done("unmanage", TRUE)
  <2> DEFINE w == TRUE
  <2>1. w \in BOOLEAN /\ w /\ Done("unmanage", w)
    BY <1>5
  <2> HIDE DEF w
  <2>2. /\ txn' \in Txns /\ Core /\ Work /\ txn'.at = "clean" /\ txn'.todo = txn.todo
        /\ txn'.clean = Tail(txn.clean) /\ txn'.well
        /\ txn'.ok = txn.ok \union {"unmanage"}
    BY <1>1, <1>2, <2>1, DoneFields
  <2>3. /\ root' \in [Places -> Things] /\ root'["identity"] = txn.before.root["identity"]
        /\ \A m \in Places \ {"identity"} : root'[m] = root[m]
    <3>1. CASE Made
      <4>1. root' = [root EXCEPT !["identity"] = Nothing] /\ Nothing \in Things
            /\ "identity" \in Places
        BY <1>5, <3>1, OfThings DEF Places
      <4>2. txn.before.root["identity"] = Nothing
        <5>1. txn.before.root["identity"] \in Things
          BY <4>1, TypedThere DEF IInv
        <5> QED  BY <3>1, <5>1 DEF Made, Things, Nothing
      <4>3. /\ root' \in [Places -> Things]
            /\ \A m \in Places : root'[m] = IF m = "identity" THEN Nothing ELSE root[m]
        BY <4>1, RootPut
      <4> QED  BY <4>1, <4>2, <4>3
    <3>2. CASE ~Made
      <4>1. root["identity"] = txn.before.root["identity"]
        BY <1>3, <3>2 DEF Made, IInv, RootRight, MigrationRight
      <4> QED  BY <1>5, <3>2, <4>1 DEF IInv, Types, DiskTypes
    <3> QED  BY <3>1, <3>2
  <2>4. Restored(txn'.ok)
    <3>1. "undo" \in txn'.ok => \A n \in Tools : Stands(n)'
      BY <1>1, <2>2, SameStands DEF IInv, CleanRight
    <3> QED  BY <1>1, <1>3, <2>2, <2>3, <3>1 DEF Restored, IInv, CleanRight
  <2>5. /\ CleanRight' /\ (AfterClose' => AfterClose) /\ Cleans'
        /\ (ToBeUndone' => ToBeUndone) /\ (ToBePutBack' => ToBePutBack)
    BY <1>2, <1>3, <2>2, <2>4, CleanAfter
  <2>6. RootRight'
    <3>1. EntriesRight'
      BY <2>2 DEF EntriesRight, EntriesFit
    <3>2. MovesFit(txn'.at, txn'.todo, txn.moved)
      BY <1>3, <2>2, NotFits
    <3>3. \/ root["identity"].is = "none" \/ root'["identity"] = root["identity"]
          \/ txn.before.root["identity"].is = "none"
      BY <1>5 DEF Made
    <3>4. \A m \in First3 : root'[m] = root[m]
      BY <2>3 DEF First3, Places
    <3> QED  BY <1>1, <1>3, <2>2, <2>3, <2>5, <3>1, <3>2, <3>3, <3>4, RootChanges DEF Work
  <2> QED  BY <1>1, <1>3, <2>2, <2>3, <2>5, <2>6, RootBack DEF Work
<1> QED  BY <1>4, <1>5 DEF Unmanage

-----------------------------------------------------------------------------
(* What a first migration moved out, put back. *)

LEMMA UnmoveStep ==
  ASSUME NEW s \in MoveLists, s # <<>>
  PROVE  /\ Head(s) \in First3 /\ Tail(s) \in MoveLists
         /\ \A x : HasMoved(s, x) <=> x \in Within(Head(s)) \/ HasMoved(Tail(s), x)
         /\ \A x \in Within(Head(s)) : ~HasMoved(Tail(s), x)
<1>1. /\ Within("runtime") = {"runtime"} /\ Within("ui") = {"ui", "program"}
      /\ Within("config") = {"config"}
  BY DEF Within
<1>2. \A x : ~HasMoved(<<>>, x)
  BY DEF HasMoved
<1>3. \A x : HasMoved(<<"runtime">>, x) <=> x = "runtime"
  BY <1>1 DEF HasMoved
<1>4. \A x : HasMoved(<<"ui", "runtime">>, x) <=> x \in {"ui", "program", "runtime"}
  BY <1>1 DEF HasMoved
<1>5. \A x : HasMoved(<<"config", "ui", "runtime">>, x)
                 <=> x \in {"config", "ui", "program", "runtime"}
  BY <1>1 DEF HasMoved
<1>6. CASE s = <<"runtime">>
  <2>1. Head(s) = "runtime" /\ Tail(s) = <<>>
    BY <1>6
  <2>2. Head(s) \in First3 /\ Tail(s) \in MoveLists
    BY <2>1 DEF First3, MoveLists
  <2> QED  BY <1>1, <1>2, <1>3, <1>6, <2>1, <2>2
<1>7. CASE s = <<"ui", "runtime">>
  <2>1. Head(s) = "ui" /\ Tail(s) = <<"runtime">>
    BY <1>7
  <2>2. Head(s) \in First3 /\ Tail(s) \in MoveLists
    BY <2>1 DEF First3, MoveLists
  <2> QED  BY <1>1, <1>3, <1>4, <1>7, <2>1, <2>2
<1>8. CASE s = <<"config", "ui", "runtime">>
  <2>1. Head(s) = "config" /\ Tail(s) = <<"ui", "runtime">>
    BY <1>8
  <2>2. Head(s) \in First3 /\ Tail(s) \in MoveLists
    BY <2>1 DEF First3, MoveLists
  <2> QED  BY <1>1, <1>4, <1>5, <1>8, <2>1, <2>2
<1> QED  BY <1>6, <1>7, <1>8 DEF MoveLists

LEMMA PuttingThen ==
  ASSUME IInv, Cleaning("putback")
  PROVE  /\ txn.at = "clean" /\ Cleans /\ Locked /\ Task = "putback" /\ txn.op = "migrate"
         /\ Left("putback") /\ "putback" \notin txn.ok
<1>1. "putback" \in Tasks
  BY DEF Tasks
<1> QED  BY <1>1, DoneThen

\* One place is over: what the transaction says of itself.
LEMMA PutOver ==
  ASSUME IInv, Cleaning("putback"), UNCHANGED <<host, boots, life, owners>>,
         UNCHANGED <<desk, active, gens, temps, slots, tools, kept, settings, seen, wish>>,
         txn' \in Txns, Core, txn'.at = txn.at, txn'.gen = txn.gen, txn'.done = txn.done,
         txn'.clean = txn.clean, txn'.ok = txn.ok, txn'.well \in {txn.well, FALSE},
         root' \in [Places -> Things], root'["identity"] = root["identity"],
         RootRight'
  PROVE  IInv'
<1>1. /\ txn.at = "clean" /\ Cleans /\ Locked /\ Task = "putback" /\ txn.op = "migrate"
      /\ Left("putback") /\ "putback" \notin txn.ok
  BY PuttingThen
<1>2. Cleans' /\ Task' = Task /\ (\A t : Left(t)' <=> Left(t)) /\ (AfterClose' <=> AfterClose)
  <2>1. Cleans'
    BY <1>1 DEF Cleans
  <2>2. Task' = Task
    BY DEF Task
  <2>3. \A t : Left(t)' <=> Left(t)
    BY DEF Left
  <2>4. AfterClose' <=> AfterClose
    BY DEF AfterClose
  <2> QED  BY <2>1, <2>2, <2>3, <2>4
<1>3. ToBeUndone' => ToBeUndone
  BY <1>1, <1>2 DEF ToBeUndone
<1>4. CleanRight'
  <2>1. \A n : Stands(n)' <=> Stands(n)
    BY SameStands
  <2> QED  BY <1>1, <1>2, <2>1 DEF CleanRight, IInv, Core
<1> QED  BY <1>1, <1>2, <1>3, <1>4, RootBack

LEMMA PutBackDone ==
  ASSUME IInv, Cleaning("putback"), txn.moved # <<>>, NEW n, n = Head(txn.moved),
         root' = Back(n), store' = Emptied(n), desk' = desk, gens' = gens,
         Core, txn'.at = "clean", txn'.gen = txn.gen, txn'.clean = txn.clean,
         txn'.moved = Tail(txn.moved), txn'.well = txn.well
  PROVE  root' \in [Places -> Things] /\ root'["identity"] = root["identity"] /\ RootRight'
<1>1. /\ txn.at = "clean" /\ Cleans /\ Locked /\ Task = "putback" /\ txn.op = "migrate"
      /\ Left("putback") /\ txn.moved \in MoveLists
  BY PuttingThen, TypedThere DEF IInv
<1>2. /\ n \in First3 /\ Tail(txn.moved) \in MoveLists
      /\ \A x : IsMoved(x) <=> x \in Within(n) \/ IsMoved(x)'
      /\ \A x \in Within(n) : ~IsMoved(x)'
  BY <1>1, UnmoveStep DEF IsMoved
<1>3. /\ n \in Places /\ n \in Within(n) /\ Within(n) \subseteq Places \ {"identity"}
      /\ \A m \in First3 : m \in Within(n) => m = n
  BY <1>2, WithinPlaces
<1>4. \A k \in store : k.gen = txn.gen /\ IsMoved(k.name) => k.was = txn.before.root[k.name]
  BY <1>1 DEF IInv, RootRight, MigrationRight
<1>5. ASSUME NEW m \in Within(n)
      PROVE  Was(m) = txn.before.root[m]
  <2>1. \E k \in store : k.name = m /\ k.gen = txn.gen
    BY <1>2, <1>3 DEF IInv, RootRight, MovesRight
  <2> QED  BY <1>2, <1>4, <2>1 DEF Was
<1>6. \A m \in Places : root'[m] = IF m \in Within(n) THEN txn.before.root[m] ELSE root[m]
  BY <1>5 DEF Back
<1>7. root' \in [Places -> Things] /\ root'["identity"] = root["identity"]
  <2>1. root' = [m \in Places |-> root'[m]]
    BY DEF Back
  <2>2. root \in [Places -> Things] /\ txn.before.root \in [Places -> Things]
    BY TypedThere DEF IInv, Types, DiskTypes
  <2>3. \A m \in Places : root'[m] \in Things
    BY <1>6, <2>2
  <2>4. "identity" \in Places
    BY DEF Places
  <2> QED  BY <1>3, <1>6, <2>1, <2>3, <2>4
<1>8. /\ store' \subseteq store
      /\ \A k \in store : ~(k.gen = txn.gen /\ k.name \in Within(n)) => k \in store'
  BY DEF Emptied
<1>9. BackupsRight'
  BY <1>8 DEF IInv, RootRight, BackupsRight
<1>10. \A m : m \notin Within(n) /\ SafePlace(m) => SafePlace(m)'
  BY <1>8 DEF SafePlace
<1>11. MovesRight'
  <2>1. ASSUME NEW m \in Places, IsMoved(m)'
        PROVE  /\ m \in First3 => SafePlace(m)'
               /\ \E k \in store' : k.name = m /\ k.gen = txn'.gen
    <3>1. m \notin Within(n) /\ IsMoved(m)
      BY <1>2, <2>1
    <3> QED  BY <1>8, <1>10, <3>1 DEF IInv, RootRight, MovesRight
  <2> QED  BY <1>1, <2>1 DEF MovesRight, MovesFit, Core, Early, Laying
<1>12. MigrationRight'
  <2>1. \A k \in store' : k.gen = txn'.gen => (IsMoved(k.name)' => k.was = txn'.before.root[k.name])
    BY <1>2, <1>4, <1>8 DEF Core
  <2>2. Cleans'
    BY DEF Cleans
  <2>3. ASSUME ToBePutBack', NEW m \in Places \ {"identity"}
        PROVE  IsMoved(m)' \/ root'[m] = txn'.before.root[m]
    <3>1. ToBePutBack
      BY <1>1, <2>2, <2>3 DEF ToBePutBack, Left, Task
    <3>2. IsMoved(m) \/ root[m] = txn.before.root[m]
      BY <1>1, <3>1 DEF IInv, RootRight, MigrationRight
    <3> QED  BY <1>2, <1>6, <3>2 DEF Core
  <2>4. \/ txn'.before.root["identity"].is = "none"
        \/ root'["identity"] = txn'.before.root["identity"]
    BY <1>1, <1>7 DEF IInv, RootRight, MigrationRight, Core
  <2> QED  BY <2>1, <2>2, <2>3, <2>4 DEF MigrationRight
<1>13. EntriesRight'
  BY DEF EntriesRight, EntriesFit
<1>14. PlacesKept'
  <2> SUFFICES ASSUME NEW m \in First3
               PROVE  root'[m] = desk.root[m] \/ SafePlace(m)'
    BY DEF PlacesKept
  <2>1. m \in Places
    BY DEF First3, Places
  <2>2. CASE m \notin Within(n)
    BY <1>6, <1>10, <2>1, <2>2 DEF IInv, RootRight, PlacesKept
  <2>3. CASE m \in Within(n)
    <3>1. SafePlace(m) /\ IsMoved(m)
      BY <1>2, <2>1, <2>3 DEF IInv, RootRight, MovesRight
    <3>2. CASE desk.root[m].is \notin {"programs", "config"}
      BY <3>2 DEF SafePlace
    <3>3. ASSUME NEW k \in store, k.name = m, k.was = desk.root[m]
          PROVE  root'[m] = desk.root[m] \/ SafePlace(m)'
      <4>1. CASE k.gen = txn.gen
        BY <1>4, <1>6, <2>1, <2>3, <3>1, <3>3, <4>1
      <4>2. CASE k.gen # txn.gen
        BY <1>8, <3>3, <4>2 DEF SafePlace
      <4> QED  BY <4>1, <4>2
    <3> QED  BY <3>1, <3>2, <3>3 DEF SafePlace
  <2> QED  BY <2>2, <2>3
<1> QED  BY <1>7, <1>9, <1>11, <1>12, <1>13, <1>14 DEF RootRight

LEMMA PutBackFails ==
  ASSUME IInv, Cleaning("putback"), txn.moved # <<>>, NEW n, n = Head(txn.moved),
         root' \in {root, Out(n)}, store' = store, desk' = desk, gens' = gens,
         Core, txn'.at = "clean", txn'.gen = txn.gen, txn'.clean = txn.clean,
         txn'.moved = Tail(txn.moved), ~txn'.well
  PROVE  root' \in [Places -> Things] /\ root'["identity"] = root["identity"] /\ RootRight'
<1>1. /\ txn.at = "clean" /\ Cleans /\ Locked /\ Task = "putback" /\ txn.op = "migrate"
      /\ Left("putback") /\ txn.moved \in MoveLists
  BY PuttingThen, TypedThere DEF IInv
<1>2. /\ n \in First3 /\ Tail(txn.moved) \in MoveLists
      /\ \A x : IsMoved(x) <=> x \in Within(n) \/ IsMoved(x)'
  BY <1>1, UnmoveStep DEF IsMoved
<1>3. /\ n \in Places /\ n \in Within(n) /\ Within(n) \subseteq Places \ {"identity"}
      /\ \A m \in First3 : m \in Within(n) => m = n
  BY <1>2, WithinPlaces
<1>4. root' \in [Places -> Things] /\ \A m \in Places \ Within(n) : root'[m] = root[m]
  <2>1. root \in [Places -> Things] /\ Nothing \in Things
    BY OfThings DEF IInv, Types, DiskTypes
  <2> QED  BY <2>1 DEF Out
<1>5. root'["identity"] = root["identity"]
  BY <1>3, <1>4 DEF Places
<1>6. \A m : SafePlace(m)' <=> SafePlace(m)
  BY DEF SafePlace
<1>7. BackupsRight'
  BY DEF IInv, RootRight, BackupsRight
<1>8. MovesRight'
  BY <1>1, <1>2, <1>6 DEF IInv, RootRight, MovesRight, MovesFit, Core, Early, Laying
<1>9. MigrationRight'
  <2>1. Cleans' /\ ~ToBePutBack'
    BY <1>1 DEF Cleans, ToBePutBack, Task
  <2> QED  BY <1>1, <1>2, <1>5, <2>1 DEF IInv, RootRight, MigrationRight, Core
<1>10. EntriesRight'
  BY DEF EntriesRight, EntriesFit
<1>11. PlacesKept'
  <2> SUFFICES ASSUME NEW m \in First3
               PROVE  root'[m] = desk.root[m] \/ SafePlace(m)
    BY <1>6 DEF PlacesKept
  <2>1. m \in Places
    BY DEF First3, Places
  <2>2. CASE m \notin Within(n)
    BY <1>4, <2>1, <2>2 DEF IInv, RootRight, PlacesKept
  <2>3. CASE m \in Within(n)
    BY <1>2, <2>1, <2>3 DEF IInv, RootRight, MovesRight
  <2> QED  BY <2>2, <2>3
<1> QED  BY <1>4, <1>5, <1>7, <1>8, <1>9, <1>10, <1>11 DEF RootRight

LEMMA PutBackKeeps ==
  ASSUME IInv, PutBack
  PROVE  IInv'
<1>1. /\ Cleaning("putback") /\ UNCHANGED <<host, boots, life, owners>> /\ txn.moved # <<>>
      /\ UNCHANGED <<desk, active, gens, temps, slots, tools, kept, seen, wish, settings>>
  BY DEF PutBack, RootKept, Still
<1> DEFINE n == Head(txn.moved)
           l == Tail(txn.moved)
           w == FALSE
<1>2. /\ txn.at = "clean" /\ l \in MoveLists /\ txn \in Txns /\ w \in BOOLEAN
  <2>1. txn.at = "clean" /\ txn.moved \in MoveLists
    BY <1>1, PuttingThen, TypedThere DEF IInv
  <2> QED  BY <1>1, <2>1, UnmoveStep DEF IInv, Types, TxnTypes
<1>3. CASE root' = Back(n) /\ store' = Emptied(n) /\ txn' = [txn EXCEPT !.moved = l]
  <2> HIDE DEF l
  <2>1. /\ txn' \in Txns /\ Core /\ Marks
        /\ txn'.at = txn.at /\ txn'.gen = txn.gen /\ txn'.todo = txn.todo
        /\ txn'.done = txn.done /\ txn'.moved = l
    BY <1>2, <1>3, PutOneFields
  <2>2. l = Tail(txn.moved)
    BY DEF l
  <2>3. root' \in [Places -> Things] /\ root'["identity"] = root["identity"] /\ RootRight'
    BY <1>1, <1>2, <1>3, <2>1, <2>2, PutBackDone DEF Marks
  <2> QED  BY <1>1, <2>1, <2>3, PutOver DEF Marks
<1>4. CASE root' \in {root, Out(n)} /\ store' = store
           /\ txn' = [[txn EXCEPT !.moved = l] EXCEPT !.well = FALSE]
  <2>0. txn' = [txn EXCEPT !.moved = l, !.well = w]
    BY <1>4
  <2>2. l = Tail(txn.moved) /\ ~w
    OBVIOUS
  <2> HIDE DEF l, w
  <2>1. /\ txn' \in Txns /\ Core
        /\ txn'.at = txn.at /\ txn'.gen = txn.gen /\ txn'.todo = txn.todo
        /\ txn'.done = txn.done /\ txn'.moved = l /\ txn'.clean = txn.clean
        /\ txn'.ok = txn.ok /\ txn'.well = w
    BY <1>2, <2>0, PutFields
  <2>3. root' \in [Places -> Things] /\ root'["identity"] = root["identity"] /\ RootRight'
    BY <1>1, <1>2, <1>4, <2>1, <2>2, PutBackFails
  <2>4. txn'.well \in {txn.well, FALSE}
    BY <2>1, <2>2, <1>2
  <2> QED  BY <1>1, <2>1, <2>3, <2>4, PutOver
<1> QED  BY <1>3, <1>4 DEF PutBack

LEMMA AllBackKeeps ==
  ASSUME IInv, AllBack
  PROVE  IInv'
<1>1. /\ Cleaning("putback") /\ txn.moved = <<>> /\ Done("putback", txn.well)
      /\ UNCHANGED <<host, boots, life, owners>>
      /\ UNCHANGED <<desk, active, gens, temps, slots, tools, kept, root, store, seen, wish,
                     settings>>
  BY DEF AllBack, Still, diskVars
<1>2. "putback" \in Tasks /\ txn.well \in BOOLEAN
  BY TypedThere DEF Tasks, IInv
<1>3. /\ txn.at = "clean" /\ Cleans /\ Locked /\ Task = "putback" /\ txn.op = "migrate"
      /\ Left("putback") /\ "putback" \notin txn.ok
  BY <1>1, PuttingThen
<1>4. /\ txn' \in Txns /\ Core /\ Work /\ txn'.at = "clean" /\ txn'.todo = txn.todo
      /\ txn'.clean = Tail(txn.clean) /\ txn'.well
      /\ txn'.ok = IF txn.well THEN txn.ok \union {"putback"} ELSE txn.ok
  BY <1>1, <1>2, DoneFields
<1>5. txn.well => \A m \in Places \ {"identity"} : root[m] = txn.before.root[m]
  <2>1. txn.well => ToBePutBack
    BY <1>3 DEF ToBePutBack
  <2>2. \A m : ~IsMoved(m)
    BY <1>1 DEF IsMoved, HasMoved
  <2> QED  BY <1>3, <2>1, <2>2 DEF IInv, RootRight, MigrationRight
<1>6. Restored(txn'.ok)
  <2>1. "undo" \in txn'.ok => \A n \in Tools : Stands(n)'
    BY <1>1, <1>4, SameStands DEF IInv, CleanRight
  <2> QED  BY <1>1, <1>3, <1>4, <1>5, <2>1 DEF Restored, IInv, CleanRight
<1>7. /\ CleanRight' /\ (AfterClose' => AfterClose) /\ Cleans'
      /\ (ToBeUndone' => ToBeUndone) /\ ~ToBePutBack'
  BY <1>2, <1>3, <1>4, <1>6, CleanAfter
<1>8. RootRight'
  <2>1. EntriesFit(txn'.at, txn'.todo) /\ MovesFit(txn'.at, txn'.todo, txn.moved)
    BY <1>3, <1>4, NotFits
  <2> QED  BY <1>1, <1>4, <1>7, <2>1, LenNat, RootFrame DEF IInv, Types, Work
<1>9. root' \in [Places -> Things]
  BY <1>1 DEF IInv, Types, DiskTypes
<1> QED  BY <1>1, <1>3, <1>4, <1>7, <1>8, <1>9, RootBack DEF Work

-----------------------------------------------------------------------------
(* The root's tools given back. *)

LEMMA PopRight ==
  ASSUME NEW s \in Seq({"kept", "placed"} \X Tools), s # <<>>, KeptOnce(s), PlacedOverKept(s),
         NEW n, n = s[1][2], NEW r, r = Tail(s)
  PROVE  /\ r \in Seq({"kept", "placed"} \X Tools) /\ KeptOnce(r) /\ PlacedOverKept(r)
         /\ n \in Tools /\ s[1][1] \in {"kept", "placed"}
         /\ \A m : In(<<"kept", m>>, r) => In(<<"kept", m>>, s)
         /\ s[1][1] = "placed" =>
              /\ In(<<"kept", n>>, r)
              /\ \A m : In(<<"kept", m>>, s) => In(<<"kept", m>>, r)
         /\ s[1][1] = "kept" =>
              /\ In(<<"kept", n>>, s) /\ ~In(<<"kept", n>>, r)
              /\ \A m : m # n /\ In(<<"kept", m>>, s) => In(<<"kept", m>>, r)
<1> DEFINE S == {"kept", "placed"} \X Tools
<1>1. /\ s[1] \in S /\ r \in Seq(S) /\ Len(s) \in Nat \ {0}
      /\ Len(r) = Len(s) - 1 /\ \A i \in 1 .. Len(r) : r[i] = s[i + 1] /\ i + 1 \in 1 .. Len(s)
  BY Popped
<1>2. s[1] = <<s[1][1], n>> /\ n \in Tools /\ s[1][1] \in {"kept", "placed"}
  BY <1>1
<1> HIDE DEF S
<1>3. KeptOnce(r)
  <2> SUFFICES ASSUME NEW i \in 1 .. Len(r), NEW j \in 1 .. Len(r), r[i][1] = "kept", r[i] = r[j]
               PROVE  i = j
    BY DEF KeptOnce
  <2>1. /\ i + 1 \in 1 .. Len(s) /\ j + 1 \in 1 .. Len(s)
        /\ s[i + 1][1] = "kept" /\ s[i + 1] = s[j + 1]
    BY <1>1
  <2>2. i + 1 = j + 1
    BY <2>1 DEF KeptOnce
  <2> QED  BY <2>2
<1>4. \A i \in 1 .. Len(s) : i = 1 \/ (i - 1 \in 1 .. Len(r) /\ r[i - 1] = s[i])
  BY <1>1
<1>5. PlacedOverKept(r)
  <2> SUFFICES ASSUME NEW i \in 1 .. Len(r), r[i][1] = "placed"
               PROVE  \E j \in 1 .. Len(r) : i < j /\ r[j] = <<"kept", r[i][2]>>
    BY DEF PlacedOverKept
  <2>1. i + 1 \in 1 .. Len(s) /\ s[i + 1] = r[i]
    BY <1>1
  <2>2. PICK j \in 1 .. Len(s) : i + 1 < j /\ s[j] = <<"kept", r[i][2]>>
    BY <2>1 DEF PlacedOverKept
  <2>3. j - 1 \in 1 .. Len(r) /\ i < j - 1 /\ r[j - 1] = <<"kept", r[i][2]>>
    BY <1>4, <2>2
  <2> QED  BY <2>3
<1>6. \A m : In(<<"kept", m>>, r) => In(<<"kept", m>>, s)
  <2> SUFFICES ASSUME NEW m, NEW i \in 1 .. Len(r), r[i] = <<"kept", m>>
               PROVE  In(<<"kept", m>>, s)
    BY DEF In
  <2>1. i + 1 \in 1 .. Len(s) /\ s[i + 1] = <<"kept", m>>
    BY <1>1
  <2> QED  BY <2>1 DEF In
<1>7. \A m : In(<<"kept", m>>, s) /\ s[1] # <<"kept", m>> => In(<<"kept", m>>, r)
  <2> SUFFICES ASSUME NEW m, NEW i \in 1 .. Len(s), s[i] = <<"kept", m>>, s[1] # <<"kept", m>>
               PROVE  In(<<"kept", m>>, r)
    BY DEF In
  <2>1. i - 1 \in 1 .. Len(r) /\ r[i - 1] = <<"kept", m>>
    BY <1>4
  <2> QED  BY <2>1 DEF In
<1>8. ASSUME s[1][1] = "placed"
      PROVE  /\ In(<<"kept", n>>, r)
             /\ \A m : In(<<"kept", m>>, s) => In(<<"kept", m>>, r)
  <2>1. \A m : s[1] # <<"kept", m>>
    BY <1>8
  <2>2. PICK j \in 1 .. Len(s) : 1 < j /\ s[j] = <<"kept", n>>
    BY <1>1, <1>8 DEF PlacedOverKept
  <2> QED  BY <1>7, <2>1, <2>2 DEF In
<1>9. ASSUME s[1][1] = "kept"
      PROVE  /\ In(<<"kept", n>>, s) /\ ~In(<<"kept", n>>, r)
             /\ \A m : m # n /\ In(<<"kept", m>>, s) => In(<<"kept", m>>, r)
  <2>1. s[1] = <<"kept", n>> /\ 1 \in 1 .. Len(s)
    BY <1>1, <1>2, <1>9
  <2>2. ASSUME NEW i \in 1 .. Len(r), r[i] = <<"kept", n>>
        PROVE  FALSE
    <3>1. i + 1 \in 1 .. Len(s) /\ s[1] = s[i + 1] /\ 1 \in 1 .. Len(s) /\ i + 1 # 1
      BY <1>1, <2>1, <2>2
    <3> QED  BY <1>9, <3>1 DEF KeptOnce
  <2>3. \A m : m # n => s[1] # <<"kept", m>>
    BY <2>1
  <2> QED  BY <1>7, <2>1, <2>2, <2>3 DEF In
<1> QED  BY <1>1, <1>2, <1>3, <1>5, <1>6, <1>8, <1>9 DEF S

LEMMA UndoingThen ==
  ASSUME IInv, Cleaning("undo")
  PROVE  /\ txn.at = "clean" /\ Cleans /\ Locked /\ Task = "undo" /\ txn.op \in Making
         /\ Left("undo") /\ "undo" \notin txn.ok
<1>1. "undo" \in Tasks
  BY DEF Tasks
<1> QED  BY <1>1, DoneThen

\* One tool is over: the rest of the invariant.
LEMMA UndoOver ==
  ASSUME IInv, Cleaning("undo"), UNCHANGED <<host, boots, life, owners>>,
         UNCHANGED <<desk, active, gens, temps, slots, root, store, settings, seen, wish>>,
         txn' \in Txns, Core, txn'.at = txn.at, txn'.gen = txn.gen, txn'.todo = txn.todo,
         txn'.moved = txn.moved,
         txn'.clean = txn.clean, txn'.ok = txn.ok, txn'.well \in {txn.well, FALSE},
         DiskTypes', WishTypes', ToolsRight'
  PROVE  IInv'
<1>1. /\ txn.at = "clean" /\ Cleans /\ Locked /\ Task = "undo" /\ txn.op \in Making
      /\ Left("undo") /\ "undo" \notin txn.ok
  BY UndoingThen
<1>2. Cleans' /\ Task' = Task /\ (\A t : Left(t)' <=> Left(t)) /\ (AfterClose' <=> AfterClose)
  <2>1. Cleans'
    BY <1>1 DEF Cleans
  <2>2. Task' = Task
    BY DEF Task
  <2>3. \A t : Left(t)' <=> Left(t)
    BY DEF Left
  <2>4. AfterClose' <=> AfterClose
    BY DEF AfterClose
  <2> QED  BY <2>1, <2>2, <2>3, <2>4
<1>3. TxnTypes'
  <2>1. "clean" \in Course(txn.op)
    BY <1>1 DEF IInv, Types, TxnTypes
  <2> QED  BY <1>1, <2>1 DEF IInv, Types, TxnTypes, Core, Numberless
<1>4. SelectionRight'
  BY <1>1, SelectionFrame DEF IInv
<1>5. ColdRight'
  <2>1. txn.op \in Restarting /\ AfterClose' => Gone
    BY <1>2 DEF IInv, ColdRight
  <2> QED  BY <2>1, ColdFrame DEF IInv
<1>6. RootRight'
  <2>1. EntriesFit(txn'.at, txn'.todo) /\ MovesFit(txn'.at, txn'.todo, txn.moved)
    BY DEF IInv, RootRight, EntriesRight, MovesRight
  <2>2. ToBePutBack' => ToBePutBack
    BY <1>1, <1>2 DEF ToBePutBack
  <2> QED  BY <1>2, <2>1, <2>2, LenNat, RootFrame DEF IInv, Types
<1>7. CleanRight'
  BY <1>1, <1>2 DEF CleanRight, IInv, Core
<1> QED  BY <1>3, <1>4, <1>5, <1>6, <1>7 DEF IInv, Types

\* A tool that was placed moves aside.
LEMMA UnplaceKeeps ==
  ASSUME IInv, Cleaning("undo"), txn.done # <<>>, UNCHANGED <<host, boots, life, owners>>,
         UNCHANGED <<desk, active, gens, temps, slots, root, store, settings, seen, wish>>,
         NEW n, n = txn.done[1][2], txn.done[1][1] = "placed",
         tools' = [tools EXCEPT ![n] = None], kept' = kept,
         NEW d, d = Tail(txn.done), txn' = [txn EXCEPT !.done = d]
  PROVE  IInv'
<1>1. /\ txn.at = "clean" /\ Cleans /\ Locked /\ Task = "undo" /\ txn.op \in Making
      /\ Left("undo") /\ "undo" \notin txn.ok
  BY UndoingThen
<1>2. /\ txn.done \in Seq({"kept", "placed"} \X Tools) /\ KeptOnce(txn.done)
      /\ PlacedOverKept(txn.done)
  BY TypedThere DEF IInv, ToolsRight, DoneRight
<1>3. /\ d \in Seq({"kept", "placed"} \X Tools) /\ KeptOnce(d) /\ PlacedOverKept(d) /\ n \in Tools
      /\ In(<<"kept", n>>, d) /\ \A m : In(<<"kept", m>>, d) <=> In(<<"kept", m>>, txn.done)
  <2> DEFINE s == txn.done
  <2>1. s \in Seq({"kept", "placed"} \X Tools) /\ KeptOnce(s) /\ PlacedOverKept(s)
    BY <1>2
  <2>2. s # <<>> /\ n = s[1][2] /\ s[1][1] = "placed" /\ d = Tail(s)
    OBVIOUS
  <2> HIDE DEF s
  <2>3. /\ d \in Seq({"kept", "placed"} \X Tools) /\ KeptOnce(d) /\ PlacedOverKept(d) /\ n \in Tools
        /\ In(<<"kept", n>>, d) /\ \A m : In(<<"kept", m>>, d) => In(<<"kept", m>>, s)
        /\ \A m : In(<<"kept", m>>, s) => In(<<"kept", m>>, d)
    BY <2>1, <2>2, PopRight
  <2> QED  BY <2>3 DEF s
<1>4. /\ txn' \in Txns /\ Core /\ Marks
      /\ txn'.at = txn.at /\ txn'.gen = txn.gen /\ txn'.todo = txn.todo
      /\ txn'.done = d /\ txn'.moved = txn.moved
  BY <1>3, UnfoldFields DEF IInv, Types, TxnTypes
<1>5. DiskTypes' /\ WishTypes' /\ \A m \in Tools : tools'[m] = IF m = n THEN None ELSE tools[m]
  <2>1. None \in FilesOf(n)
    BY DEF FilesOf
  <2> QED  BY <1>3, <2>1, ToolTyped
<1>6. (\A m : (IsKept(m)' <=> IsKept(m)) /\ (Safe(m)' <=> Safe(m))) /\ IsKept(n)
  BY <1>3, <1>4 DEF IsKept, Safe
<1>7. RecordsRight'
  BY DEF IInv, ToolsRight, RecordsRight
<1>8. DoneRight'
  <2>1. Cleans' /\ txn'.at \notin Early \union {"move"}
    BY <1>1, <1>4 DEF Cleans, Early, Laying
  <2> QED  BY <1>3, <1>4, <1>6, <2>1 DEF IInv, ToolsRight, DoneRight, Core
<1>9. StandRight'
  <2>1. ToBeUndone' => ToBeUndone
    <3>1. Task' = Task
      BY <1>4 DEF Task, Marks
    <3> QED  BY <1>1, <1>4, <3>1 DEF ToBeUndone, Marks, Cleans
  <2>2. \A m \in Tools : m # n => (Stands(m)' <=> Stands(m))
    BY <1>4, <1>5 DEF Stands, Core, Brings
  <2> QED  BY <1>6, <2>1, <2>2 DEF IInv, ToolsRight, StandRight
<1>10. TodoRight'
  BY <1>1, <1>4 DEF TodoRight, TodoFits, Tooling
<1>11. ToolsKept'
  <2>1. Safe(n)
    BY <1>3, <1>6 DEF IInv, ToolsRight, DoneRight
  <2> QED  BY <1>5, <1>6, <2>1 DEF IInv, ToolsRight, ToolsKept
<1>12. ToolsRight'
  BY <1>7, <1>8, <1>9, <1>10, <1>11 DEF ToolsRight
<1> QED  BY <1>4, <1>5, <1>12, UndoOver DEF Marks

\* A tool that was kept returns over whatever lies there.
LEMMA UnkeepKeeps ==
  ASSUME IInv, Cleaning("undo"), txn.done # <<>>, UNCHANGED <<host, boots, life, owners>>,
         UNCHANGED <<desk, active, gens, temps, slots, root, store, settings, seen, wish>>,
         NEW n, n = txn.done[1][2], txn.done[1][1] = "kept",
         NEW its, its = {k \in kept : k.name = n /\ k.gen = txn.gen},
         NEW x, x = (CHOOSE k \in its : TRUE).was,
         tools' = [tools EXCEPT ![n] = x], kept' = kept \ its,
         NEW d, d = Tail(txn.done), txn' = [txn EXCEPT !.done = d]
  PROVE  IInv'
<1>1. /\ txn.at = "clean" /\ Cleans /\ Locked /\ Task = "undo" /\ txn.op \in Making
      /\ Left("undo") /\ "undo" \notin txn.ok
  BY UndoingThen
<1>2. /\ txn.done \in Seq({"kept", "placed"} \X Tools) /\ KeptOnce(txn.done)
      /\ PlacedOverKept(txn.done)
  BY TypedThere DEF IInv, ToolsRight, DoneRight
<1>3. /\ d \in Seq({"kept", "placed"} \X Tools) /\ KeptOnce(d) /\ PlacedOverKept(d) /\ n \in Tools
      /\ In(<<"kept", n>>, txn.done) /\ ~In(<<"kept", n>>, d)
      /\ \A m : In(<<"kept", m>>, d) => In(<<"kept", m>>, txn.done)
      /\ \A m : m # n /\ In(<<"kept", m>>, txn.done) => In(<<"kept", m>>, d)
  <2> DEFINE s == txn.done
  <2>1. s \in Seq({"kept", "placed"} \X Tools) /\ KeptOnce(s) /\ PlacedOverKept(s)
    BY <1>2
  <2>2. s # <<>> /\ n = s[1][2] /\ s[1][1] = "kept" /\ d = Tail(s)
    OBVIOUS
  <2> HIDE DEF s
  <2>3. /\ d \in Seq({"kept", "placed"} \X Tools) /\ KeptOnce(d) /\ PlacedOverKept(d) /\ n \in Tools
        /\ In(<<"kept", n>>, s) /\ ~In(<<"kept", n>>, d)
        /\ \A m : In(<<"kept", m>>, d) => In(<<"kept", m>>, s)
        /\ \A m : m # n /\ In(<<"kept", m>>, s) => In(<<"kept", m>>, d)
    BY <2>1, <2>2, PopRight
  <2> QED  BY <2>3 DEF s
<1>4. /\ txn' \in Txns /\ Core /\ Marks
      /\ txn'.at = txn.at /\ txn'.gen = txn.gen /\ txn'.todo = txn.todo
      /\ txn'.done = d /\ txn'.moved = txn.moved
  BY <1>3, UnfoldFields DEF IInv, Types, TxnTypes
<1>5. /\ IsKept(n) /\ ~IsKept(n)' /\ \A m : IsKept(m)' => IsKept(m)
      /\ \A m : m # n /\ IsKept(m) => IsKept(m)'
  BY <1>3, <1>4 DEF IsKept
<1>6. \A k \in its : k.was = txn.before.tools[n] /\ k.was \in FilesOf(n)
  <2>1. \A k \in its : k \in kept /\ k.name = n /\ k.gen = txn.gen
    OBVIOUS
  <2> QED  BY <1>1, <1>5, <2>1 DEF IInv, ToolsRight, DoneRight, RecordsRight
<1>7. x = txn.before.tools[n] /\ x \in FilesOf(n)
  <2>1. \E k \in its : TRUE
    BY <1>3, <1>5 DEF IInv, ToolsRight, DoneRight
  <2> QED  BY <1>6, <2>1
<1>8. DiskTypes' /\ WishTypes' /\ \A m \in Tools : tools'[m] = IF m = n THEN x ELSE tools[m]
  BY <1>3, <1>7, ToolTyped
<1>9. /\ \A k \in kept : k \notin kept' => k.name = n /\ k.was = x
      /\ kept' \subseteq kept
  BY <1>6, <1>7
<1>10. \A m : m # n => (Safe(m) => Safe(m)')
  BY <1>9 DEF Safe
<1>11. RecordsRight'
  BY <1>9 DEF IInv, ToolsRight, RecordsRight
<1>12. DoneRight'
  <2>1. Cleans' /\ txn'.at \notin Early \union {"move"}
    BY <1>1, <1>4 DEF Cleans, Early, Laying
  <2>2. ASSUME NEW m \in Tools, IsKept(m)'
        PROVE  Safe(m)' /\ \E k \in kept' : k.name = m /\ k.gen = txn'.gen
    <3>1. m # n /\ IsKept(m)
      BY <1>5, <2>2
    <3>2. Safe(m) /\ \E k \in kept : k.name = m /\ k.gen = txn.gen
      BY <3>1 DEF IInv, ToolsRight, DoneRight
    <3> QED  BY <1>4, <1>9, <1>10, <3>1, <3>2
  <2>3. \A k \in kept' : k.gen = txn'.gen =>
           (IsKept(k.name)' => k.was = txn'.before.tools[k.name])
    BY <1>1, <1>4, <1>5, <1>9 DEF IInv, ToolsRight, DoneRight, Core
  <2> QED  BY <1>3, <1>4, <2>1, <2>2, <2>3 DEF DoneRight
<1>13. StandRight'
  <2>1. ToBeUndone' => ToBeUndone
    <3>1. Task' = Task
      BY <1>4 DEF Task, Marks
    <3> QED  BY <1>1, <1>4, <3>1 DEF ToBeUndone, Marks, Cleans
  <2>2. \A m \in Tools : m # n => (Stands(m)' <=> Stands(m))
    BY <1>4, <1>8 DEF Stands, Core, Brings
  <2>3. Stands(n)'
    <3>1. tools'[n] = x
      BY <1>3, <1>8
    <3>2. txn'.before = txn.before
      BY <1>4 DEF Core
    <3> QED  BY <1>7, <3>1, <3>2 DEF Stands
  <2> QED  BY <1>5, <2>1, <2>2, <2>3 DEF IInv, ToolsRight, StandRight
<1>14. TodoRight'
  BY <1>1, <1>4 DEF TodoRight, TodoFits, Tooling
<1>15. ToolsKept'
  <2>1. tools'[n] = desk.tools[n] \/ Safe(n)'
    <3>1. Safe(n)
      BY <1>3, <1>5 DEF IInv, ToolsRight, DoneRight
    <3>2. ASSUME NEW k \in kept, k.name = n, k.was = desk.tools[n]
          PROVE  tools'[n] = desk.tools[n] \/ Safe(n)'
      <4>1. CASE k \in kept'
        BY <3>2, <4>1 DEF Safe
      <4>2. CASE k \notin kept'
        BY <1>3, <1>8, <1>9, <3>2, <4>2
      <4> QED  BY <4>1, <4>2
    <3> QED  BY <3>1, <3>2 DEF Safe
  <2>2. ASSUME NEW m \in Tools, m # n
        PROVE  tools'[m] = desk.tools[m] \/ Safe(m)'
    BY <1>8, <1>10, <2>2 DEF IInv, ToolsRight, ToolsKept
  <2> QED  BY <2>1, <2>2 DEF ToolsKept
<1>16. ToolsRight'
  BY <1>11, <1>12, <1>13, <1>14, <1>15 DEF ToolsRight
<1> QED  BY <1>4, <1>8, <1>16, UndoOver DEF Marks

\* One that cannot move is passed over, and the undo is not done well.
LEMMA PassedOver ==
  ASSUME IInv, Cleaning("undo"), txn.done # <<>>, UNCHANGED <<host, boots, life, owners>>,
         UNCHANGED <<desk, active, gens, temps, slots, root, store, settings, seen, wish>>,
         UNCHANGED <<tools, kept>>, NEW w \in BOOLEAN, ~w,
         NEW d, d = Tail(txn.done), txn' = [txn EXCEPT !.done = d, !.well = w]
  PROVE  IInv'
<1>1. /\ txn.at = "clean" /\ Cleans /\ Locked /\ Task = "undo" /\ txn.op \in Making
      /\ Left("undo") /\ "undo" \notin txn.ok
  BY UndoingThen
<1>2. /\ txn.done \in Seq({"kept", "placed"} \X Tools) /\ KeptOnce(txn.done)
      /\ PlacedOverKept(txn.done)
  BY TypedThere DEF IInv, ToolsRight, DoneRight
<1>3. /\ d \in Seq({"kept", "placed"} \X Tools) /\ KeptOnce(d) /\ PlacedOverKept(d)
      /\ \A m : In(<<"kept", m>>, d) => In(<<"kept", m>>, txn.done)
  <2> DEFINE s == txn.done
  <2>1. /\ s \in Seq({"kept", "placed"} \X Tools) /\ s # <<>> /\ KeptOnce(s) /\ PlacedOverKept(s)
        /\ d = Tail(s)
    BY <1>2
  <2> SUFFICES /\ d \in Seq({"kept", "placed"} \X Tools) /\ KeptOnce(d) /\ PlacedOverKept(d)
               /\ \A m : In(<<"kept", m>>, d) => In(<<"kept", m>>, s)
    OBVIOUS
  <2> HIDE DEF s
  <2> QED  BY <2>1, PopRight
<1>4. /\ txn' \in Txns /\ Core
      /\ txn'.at = txn.at /\ txn'.gen = txn.gen /\ txn'.todo = txn.todo
      /\ txn'.done = d /\ txn'.moved = txn.moved /\ txn'.clean = txn.clean
      /\ txn'.ok = txn.ok /\ txn'.well = w
  BY <1>3, UndoFields DEF IInv, Types, TxnTypes
<1>5. DiskTypes' /\ WishTypes'
  BY DEF IInv, Types, DiskTypes, WishTypes
<1>6. \A m : (IsKept(m)' => IsKept(m)) /\ (Safe(m)' <=> Safe(m))
  BY <1>3, <1>4 DEF IsKept, Safe
<1>7. RecordsRight' /\ ToolsKept'
  BY <1>6 DEF IInv, ToolsRight, RecordsRight, ToolsKept
<1>8. DoneRight'
  <2>1. Cleans' /\ txn'.at \notin Early \union {"move"}
    BY <1>1, <1>4 DEF Cleans, Early, Laying
  <2> QED  BY <1>3, <1>4, <1>6, <2>1 DEF IInv, ToolsRight, DoneRight, Core
<1>9. StandRight'
  <2>1. ~ToBeUndone'
    BY <1>1, <1>4 DEF ToBeUndone, Task, Cleans
  <2> QED  BY <2>1 DEF StandRight
<1>10. TodoRight'
  BY <1>1, <1>4 DEF TodoRight, TodoFits, Tooling
<1>11. ToolsRight'
  BY <1>7, <1>8, <1>9, <1>10 DEF ToolsRight
<1>12. txn'.well \in {txn.well, FALSE}
  BY <1>4
<1> QED  BY <1>4, <1>5, <1>11, <1>12, UndoOver

LEMMA UndoKeeps ==
  ASSUME IInv, Undo
  PROVE  IInv'
<1> DEFINE n == txn.done[1][2]
           its == {k \in kept : k.name = n /\ k.gen = txn.gen}
           x == (CHOOSE k \in its : TRUE).was
           d == Tail(txn.done)
           w == FALSE
<1>1. /\ Cleaning("undo") /\ txn.done # <<>> /\ UNCHANGED <<host, boots, life, owners>>
      /\ UNCHANGED <<desk, active, gens, temps, slots, parts, root, store, settings, seen, wish>>
      /\ \/ /\ txn.done[1][1] = "placed" /\ tools' = [tools EXCEPT ![n] = None] /\ kept' = kept
            /\ txn' = [txn EXCEPT !.done = d]
         \/ /\ txn.done[1][1] # "placed" /\ tools' = [tools EXCEPT ![n] = x] /\ kept' = kept \ its
            /\ txn' = [txn EXCEPT !.done = d]
         \/ /\ UNCHANGED <<tools, kept>> /\ txn' = [txn EXCEPT !.done = d, !.well = w]
  BY DEF Undo, Still
<1>2. w \in BOOLEAN /\ ~w
  OBVIOUS
<1>3. txn.done[1][1] \in {"kept", "placed"}
  <2>1. txn.done \in Seq({"kept", "placed"} \X Tools)
    BY TypedThere DEF IInv
  <2> QED  BY <1>1, <2>1
<1> HIDE DEF w
<1>4. CASE txn.done[1][1] = "placed" /\ kept' = kept /\ txn' = [txn EXCEPT !.done = d]
           /\ tools' = [tools EXCEPT ![n] = None]
  BY <1>1, <1>4, UnplaceKeeps
<1>5. CASE txn.done[1][1] = "kept" /\ kept' = kept \ its /\ txn' = [txn EXCEPT !.done = d]
           /\ tools' = [tools EXCEPT ![n] = x]
  BY <1>1, <1>5, UnkeepKeeps
<1>6. CASE UNCHANGED <<tools, kept>> /\ txn' = [txn EXCEPT !.done = d, !.well = w]
  BY <1>1, <1>2, <1>6, PassedOver
<1> QED  BY <1>1, <1>3, <1>4, <1>5, <1>6

LEMMA UndoneKeeps ==
  ASSUME IInv, Undone
  PROVE  IInv'
<1>1. /\ Cleaning("undo") /\ txn.done = <<>> /\ Done("undo", txn.well)
      /\ UNCHANGED <<host, boots, life, owners>>
      /\ UNCHANGED <<desk, active, gens, temps, slots, tools, kept, root, store, seen, wish,
                     settings>>
  BY DEF Undone, Still, diskVars
<1>2. "undo" \in Tasks /\ txn.well \in BOOLEAN
  BY TypedThere DEF Tasks, IInv
<1>3. /\ txn.at = "clean" /\ Cleans /\ Locked /\ Task = "undo" /\ txn.op \in Making
      /\ Left("undo") /\ "undo" \notin txn.ok
  BY <1>1, UndoingThen
<1>4. /\ txn' \in Txns /\ Core /\ Work /\ txn'.at = "clean" /\ txn'.todo = txn.todo
      /\ txn'.clean = Tail(txn.clean) /\ txn'.well
      /\ txn'.ok = IF txn.well THEN txn.ok \union {"undo"} ELSE txn.ok
  BY <1>1, <1>2, DoneFields
<1>5. txn.well => \A n \in Tools : Stands(n)
  <2>1. txn.well => ToBeUndone
    BY <1>3 DEF ToBeUndone
  <2>2. \A n : ~IsKept(n)
    BY <1>1 DEF IsKept, In
  <2> QED  BY <2>1, <2>2 DEF IInv, ToolsRight, StandRight
<1>6. Restored(txn'.ok)
  <2>1. "undo" \in txn'.ok => \A n \in Tools : Stands(n)'
    BY <1>1, <1>3, <1>4, <1>5, SameStands
  <2> QED  BY <1>1, <1>4, <2>1 DEF Restored, IInv, CleanRight
<1>7. /\ CleanRight' /\ (AfterClose' => AfterClose) /\ Cleans'
      /\ (ToBeUndone' => ToBeUndone) /\ (ToBePutBack' => ToBePutBack)
  BY <1>2, <1>3, <1>4, <1>6, CleanAfter
<1>8. /\ active \in 0 .. Len(gens) /\ temps' \subseteq (-Len(gens)) .. Len(gens)
      /\ settings' \in Settings /\ (active # 0 => Loads(active))
  BY <1>1 DEF IInv, Types, DiskTypes, SelectionRight
<1> QED  BY <1>1, <1>3, <1>4, <1>7, <1>8, TakesBack

-----------------------------------------------------------------------------
(* An operation begins, ends, is cut off; the person repairs the manager. *)

LEMMA OpenFields ==
  ASSUME NEW op \in Ops, NEW b \in Nat, NEW f \in Befores, NEW r \in Releases \union {None},
         NEW s \in Slots, NEW h \in {"cold", "transition"}, NEW at \in Stages, NEW x,
         x = [op |-> op, at |-> at, rel |-> r, base |-> b, gen |-> 0,
              slot |-> s, prior |-> None, how |-> h, todo |-> <<>>,
              done |-> <<>>, moved |-> <<>>, clean |-> <<>>, ok |-> {}, well |-> TRUE,
              committed |-> FALSE, wrote |-> FALSE, before |-> f]
  PROVE  /\ x \in Txns /\ x.op = op /\ x.base = b /\ x.before = f /\ x.rel = r /\ x.at = at
         /\ x.gen = 0 /\ x.done = <<>> /\ x.moved = <<>> /\ x.clean = <<>> /\ x.ok = {} /\ x.well
<1> DEFINE e == <<>>
           o == {}
           t == TRUE
           u == FALSE
<1>1. /\ e \in Seq(Tools \union Places) /\ e \in Seq({"kept", "placed"} \X Tools)
      /\ e \in MoveLists /\ e \in Chains /\ o \in SUBSET Tasks /\ t \in BOOLEAN /\ u \in BOOLEAN
      /\ None \in Releases \union {None} /\ 0 \in Nat /\ t
  BY DEF MoveLists, Chains
<1>2. x = [op |-> op, at |-> at, rel |-> r, base |-> b, gen |-> 0,
           slot |-> s, prior |-> None, how |-> h, todo |-> e,
           done |-> e, moved |-> e, clean |-> e, ok |-> o, well |-> t,
           committed |-> u, wrote |-> u, before |-> f]
  OBVIOUS
<1>3. e = <<>> /\ o = {}
  OBVIOUS
<1> HIDE DEF e, o, t, u
<1>4. x \in Txns
  BY <1>1, <1>2 DEF Txns
<1>5. /\ x.op = op /\ x.base = b /\ x.before = f /\ x.rel = r /\ x.at = at
      /\ x.gen = 0 /\ x.done = e /\ x.moved = e /\ x.clean = e /\ x.ok = o
  BY <1>2
<1>6. x.well = t
  BY <1>1, <1>2, <1>4 DEF Txns
<1> QED  BY <1>1, <1>3, <1>4, <1>5, <1>6

\* Where nothing was done yet, or nothing is any more.
LEMMA Begun ==
  ASSUME IInv, UNCHANGED <<desk, active, gens, temps, slots, tools, kept, root, store, settings>>,
         WishTypes', TxnTypes', txn'.gen = 0, txn'.done = <<>>, txn'.moved = <<>>,
         txn'.clean = <<>>, txn'.ok = {}, txn'.well,
         txn'.at \in {"rest", "retain", "number", "pick"},
         \/ txn'.op = "none" /\ txn'.at = "rest"
         \/ txn'.before.tools = tools /\ txn'.before.root = root,
         Apart', life'.at = "closed" => Gone'
  PROVE  IInv'
<1>1. DiskTypes'
  BY DEF IInv, Types, DiskTypes
<1>2. SelectionRight'
  BY DEF IInv, SelectionRight, Loads
<1>3. ColdRight'
  <2>1. ~AfterClose'
    BY DEF AfterClose, Tooling, Managing, Selecting, Refreshing
  <2> QED  BY <2>1 DEF ColdRight
<1>4. ~Cleans' /\ txn'.at \in Early
  BY DEF Cleans, Early, Laying
<1>5. \A k \in kept : k.gen # 0
  <2>1. \A g \in 1 .. Len(gens) : g # 0
    BY DEF IInv, Types, DiskTypes
  <2> QED  BY <2>1 DEF IInv, ToolsRight, RecordsRight
<1>6. \A k \in store : k.gen # 0
  <2>1. \A g \in 1 .. Len(gens) : g # 0
    BY DEF IInv, Types, DiskTypes
  <2> QED  BY <2>1 DEF IInv, RootRight, BackupsRight
<1>7. ToolsRight'
  <2>1. \A n : ~IsKept(n)' /\ (Safe(n)' <=> Safe(n))
    BY DEF IsKept, In, Safe
  <2>2. KeptOnce(txn'.done) /\ PlacedOverKept(txn'.done)
    BY DEF KeptOnce, PlacedOverKept
  <2>3. DoneRight'
    BY <1>5, <2>1, <2>2 DEF DoneRight
  <2>4. StandRight'
    BY DEF StandRight, Stands, ToBeUndone, Locked
  <2>5. TodoRight'
    BY DEF TodoRight, TodoFits, Tooling
  <2>6. RecordsRight' /\ ToolsKept'
    BY <2>1 DEF IInv, ToolsRight, RecordsRight, ToolsKept
  <2> QED  BY <2>3, <2>4, <2>5, <2>6 DEF ToolsRight
<1>8. RootRight'
  <2>1. \A n : ~IsMoved(n)' /\ (SafePlace(n)' <=> SafePlace(n))
    BY DEF IsMoved, HasMoved, SafePlace
  <2>2. MovesRight'
    BY <1>4, <2>1 DEF MovesRight, MovesFit
  <2>3. MigrationRight'
    BY <1>6 DEF MigrationRight, Places
  <2>4. EntriesRight'
    BY DEF EntriesRight, EntriesFit
  <2>5. BackupsRight' /\ PlacesKept'
    BY <2>1 DEF IInv, RootRight, BackupsRight, PlacesKept
  <2> QED  BY <2>2, <2>3, <2>4, <2>5 DEF RootRight
<1>9. CleanRight'
  <2>1. \A t : ~Left(t)'
    BY DEF Left, Items
  <2> QED  BY <1>4, <2>1 DEF CleanRight, Cleans
<1> QED  BY <1>1, <1>2, <1>3, <1>7, <1>8, <1>9 DEF IInv, Types

LEMMA OpenedKeeps ==
  ASSUME IInv, UNCHANGED <<desk, active, gens, temps, slots, tools, kept, root, store, settings>>,
         UNCHANGED <<host, boots, life, owners>>, WishTypes',
         NEW op \in Ops \ {"none"}, NEW b \in 0 .. Len(gens), NEW r \in Releases \union {None},
         NEW s \in Slots, NEW h \in {"cold", "transition"},
         NEW at \in {"retain", "number", "pick"}, at \in Course(op),
         op \in Making => r \in Releases, op \in Replacing => b # 0,
         txn' = [op |-> op, at |-> at, rel |-> r, base |-> b, gen |-> 0,
                 slot |-> s, prior |-> None, how |-> h, todo |-> <<>>,
                 done |-> <<>>, moved |-> <<>>, clean |-> <<>>, ok |-> {}, well |-> TRUE,
                 committed |-> FALSE, wrote |-> FALSE,
                 before |-> [tools |-> tools, root |-> root, settings |-> settings]]
  PROVE  IInv'
<1> DEFINE f == [tools |-> tools, root |-> root, settings |-> settings]
           x == txn'
<1>1. f \in Befores /\ f.tools = tools /\ f.root = root
  BY DEF IInv, Types, DiskTypes, Befores
<1>2. op \in Ops /\ b \in Nat /\ at \in Stages /\ 0 \in 0 .. Len(gens)
  BY DEF Stages, Laying, IInv, Types, DiskTypes
<1>3. /\ txn' \in Txns /\ txn'.op = op /\ txn'.base = b /\ txn'.before = f /\ txn'.rel = r
      /\ txn'.at = at /\ txn'.gen = 0 /\ txn'.done = <<>> /\ txn'.moved = <<>>
      /\ txn'.clean = <<>> /\ txn'.ok = {} /\ txn'.well
  <2>1. x = [op |-> op, at |-> at, rel |-> r, base |-> b, gen |-> 0,
              slot |-> s, prior |-> None, how |-> h, todo |-> <<>>,
              done |-> <<>>, moved |-> <<>>, clean |-> <<>>, ok |-> {}, well |-> TRUE,
              committed |-> FALSE, wrote |-> FALSE, before |-> f]
    OBVIOUS
  <2> HIDE DEF f
  <2> QED  BY <1>1, <1>2, <2>1, OpenFields
<1> HIDE DEF f, x
<1>4. TxnTypes'
  BY <1>2, <1>3 DEF TxnTypes, Numberless, Laying
<1> QED  BY <1>1, <1>3, <1>4, StillSo, Begun

LEMMA SelectedOf ==
  ASSUME IInv, NEW g \in 1 .. Len(gens)
  PROVE  gens[g].slot \in Slots /\ gens[g].rel \in Releases \union {None}
<1>1. gens[g] \in Generations
  BY DEF IInv, Types, DiskTypes
<1> QED  BY <1>1 DEF Generations

LEMMA BeginInstallKeeps ==
  ASSUME IInv, BeginInstall
  PROVE  IInv'
<1>1. /\ UNCHANGED <<desk, active, gens, temps, slots, tools, kept, root, store, settings, seen>>
      /\ UNCHANGED <<host, boots, life, owners>> /\ wish' = NoWish /\ wish.kind # "none"
  BY DEF BeginInstall, Still, diskVars
<1>2. WishTypes' /\ wish.rel \in Releases
  <2>1. NoWish \in Wishes /\ NoWish.kind = "none"
    BY DEF NoWish, Wishes
  <2> QED  BY <1>1, <2>1 DEF IInv, Types, WishTypes
<1> DEFINE h == ControlOf(wish.agreed)
           f == [tools |-> tools, root |-> root, settings |-> settings]
           o == Other(gens[active].slot)
<1>3. h \in {"cold", "transition"} /\ active \in 0 .. Len(gens) /\ First \in Slots
  BY InstallAssumption DEF ControlOf, IInv, Types, DiskTypes
<1>4. \/ txn' = [op |-> "fresh", at |-> "retain", rel |-> wish.rel, base |-> active, gen |-> 0,
                 slot |-> First, prior |-> None, how |-> h, todo |-> <<>>,
                 done |-> <<>>, moved |-> <<>>, clean |-> <<>>, ok |-> {}, well |-> TRUE,
                 committed |-> FALSE, wrote |-> FALSE, before |-> f]
      \/ txn' = [op |-> "migrate", at |-> "retain", rel |-> wish.rel, base |-> active, gen |-> 0,
                 slot |-> First, prior |-> None, how |-> h, todo |-> <<>>,
                 done |-> <<>>, moved |-> <<>>, clean |-> <<>>, ok |-> {}, well |-> TRUE,
                 committed |-> FALSE, wrote |-> FALSE, before |-> f]
      \/ active # 0 /\
         txn' = [op |-> "upgrade", at |-> "retain", rel |-> wish.rel, base |-> active, gen |-> 0,
                 slot |-> o, prior |-> None, how |-> h, todo |-> <<>>,
                 done |-> <<>>, moved |-> <<>>, clean |-> <<>>, ok |-> {}, well |-> TRUE,
                 committed |-> FALSE, wrote |-> FALSE, before |-> f]
      \/ txn' = txn
  <2> HIDE DEF h, o
  <2> QED  BY ZenonT(40) DEF BeginInstall, Opening, NoTxn, h, o
<1>5. active # 0 => o \in Slots
  BY <1>3, SelectedOf, OtherSlot
<1>6. /\ "retain" \in Course("fresh") /\ "retain" \in Course("upgrade")
      /\ "retain" \in Course("migrate") /\ {"fresh", "upgrade", "migrate"} \subseteq Ops \ {"none"}
      /\ {"fresh", "migrate"} \cap Replacing = {} /\ wish.rel \in Releases \union {None}
  BY <1>2 DEF Course, Laying, Ops, Replacing
<1> HIDE DEF h, o
<1>7. CASE txn' = txn
  BY <1>1, <1>2, <1>7, StillSo, QuietKeeps
<1> QED  BY <1>1, <1>2, <1>3, <1>4, <1>5, <1>6, <1>7, OpenedKeeps

LEMMA BeginKeeps ==
  ASSUME IInv, BeginEdit \/ BeginResources \/ BeginRollback
  PROVE  IInv'
<1>1. /\ UNCHANGED <<desk, active, gens, temps, slots, tools, kept, root, store, settings, seen,
                     wish>>
      /\ UNCHANGED <<host, boots, life, owners>>
  BY DEF BeginEdit, BeginResources, BeginRollback, Still, diskVars
<1>2. WishTypes' /\ active \in 0 .. Len(gens) /\ seen \in 0 .. Len(gens)
  BY <1>1, SameWish DEF IInv, Types, DiskTypes, WishTypes
<1> DEFINE f == [tools |-> tools, root |-> root, settings |-> settings]
<1>3. /\ "number" \in Course("edit") /\ "number" \in Course("resources")
      /\ "pick" \in Course("rollback") /\ {"edit", "resources", "rollback"} \subseteq Ops \ {"none"}
      /\ {"edit", "resources", "rollback"} \cap Making = {}
  BY DEF Course, Laying, Ops, Making
<1>4. CASE BeginEdit
  <2> DEFINE r == gens[seen].rel
             s == gens[seen].slot
  <2>1. seen \in 1 .. Len(gens) /\ seen # 0
    BY <1>4 DEF BeginEdit, Loads
  <2>2. r \in Releases \union {None} /\ s \in Slots
    BY <2>1, SelectedOf
  <2> HIDE DEF r, s
  <2>3. txn' = [op |-> "edit", at |-> "number", rel |-> r, base |-> seen, gen |-> 0,
                 slot |-> s, prior |-> None, how |-> "cold", todo |-> <<>>,
                 done |-> <<>>, moved |-> <<>>, clean |-> <<>>, ok |-> {}, well |-> TRUE,
                 committed |-> FALSE, wrote |-> FALSE, before |-> f]
    BY <1>4 DEF BeginEdit, Opening, NoTxn, r, s
  <2> QED  BY <1>1, <1>2, <1>3, <2>1, <2>2, <2>3, OpenedKeeps
<1>5. CASE BeginResources
  <2> DEFINE r == gens[active].rel
             s == gens[active].slot
             h == ControlOf(r)
  <2>1. active \in 1 .. Len(gens) /\ active # 0
    BY <1>5 DEF BeginResources, Loads
  <2>2. r \in Releases \union {None} /\ s \in Slots /\ h \in {"cold", "transition"}
    BY <2>1, SelectedOf DEF ControlOf
  <2> HIDE DEF r, s, h
  <2>3. txn' = [op |-> "resources", at |-> "number", rel |-> r, base |-> active, gen |-> 0,
                 slot |-> s, prior |-> None, how |-> h, todo |-> <<>>,
                 done |-> <<>>, moved |-> <<>>, clean |-> <<>>, ok |-> {}, well |-> TRUE,
                 committed |-> FALSE, wrote |-> FALSE, before |-> f]
    BY <1>5 DEF BeginResources, Opening, NoTxn, r, s, h
  <2>4. /\ "resources" \in Ops \ {"none"} /\ "resources" \notin Making
        /\ active \in 0 .. Len(gens) /\ "number" \in Course("resources")
    BY <1>2, <1>3
  <2> QED  BY <1>1, <1>2, <2>1, <2>2, <2>3, <2>4, OpenedKeeps
<1>6. CASE BeginRollback
  <2> DEFINE s == Other(gens[active].slot)
             r == slots[s]
             h == ControlOf(Previous)
  <2>1. active \in 1 .. Len(gens) /\ active # 0
    BY <1>6 DEF BeginRollback, Loads
  <2>2. gens[active].slot \in Slots
    BY <2>1, SelectedOf
  <2>3. s \in Slots
    BY <2>2, OtherSlot
  <2>4. r \in Releases \union {None} /\ h \in {"cold", "transition"}
    BY <2>3 DEF ControlOf, IInv, Types, DiskTypes
  <2> HIDE DEF r, s, h
  <2>5. txn' = [op |-> "rollback", at |-> "pick", rel |-> r, base |-> active, gen |-> 0,
                 slot |-> s, prior |-> None, how |-> h, todo |-> <<>>,
                 done |-> <<>>, moved |-> <<>>, clean |-> <<>>, ok |-> {}, well |-> TRUE,
                 committed |-> FALSE, wrote |-> FALSE, before |-> f]
    BY <1>6 DEF BeginRollback, Opening, NoTxn, r, s, h
  <2> QED  BY <1>1, <1>2, <1>3, <2>1, <2>3, <2>4, <2>5, OpenedKeeps
<1> QED  BY <1>4, <1>5, <1>6

LEMMA NoTxnFields ==
  /\ NoTxn \in Txns /\ NoTxn.op = "none" /\ NoTxn.at = "rest" /\ NoTxn.base = 0 /\ NoTxn.gen = 0
  /\ NoTxn.done = <<>> /\ NoTxn.moved = <<>> /\ NoTxn.clean = <<>> /\ NoTxn.ok = {} /\ NoTxn.well
<1> DEFINE f == NoBefore
           x == NoTxn
<1>1. f \in Befores
  <2>1. None \in AllFiles \/ Tools = {}
    BY DEF AllFiles, FilesOf
  <2>2. [n \in Tools |-> None] \in [Tools -> AllFiles]
    BY <2>1
  <2>3. [n \in Places |-> Nothing] \in [Places -> Things] /\ "before" \in Settings
    BY OfThings DEF Settings
  <2> QED  BY <2>2, <2>3 DEF NoBefore, Befores
<1>2. x = [op |-> "none", at |-> "rest", rel |-> None, base |-> 0, gen |-> 0,
           slot |-> First, prior |-> None, how |-> "cold", todo |-> <<>>,
           done |-> <<>>, moved |-> <<>>, clean |-> <<>>, ok |-> {}, well |-> TRUE,
           committed |-> FALSE, wrote |-> FALSE, before |-> f]
  BY DEF NoTxn
<1>3. /\ "none" \in Ops /\ "rest" \in Stages /\ 0 \in Nat /\ First \in Slots
      /\ None \in Releases \union {None}
  BY InstallAssumption DEF Ops, Stages
<1> DEFINE op == "none"
           at == "rest"
           h == "cold"
           s == First
           r == None
           b == 0
<1>5. /\ op \in Ops /\ b \in Nat /\ r \in Releases \union {None} /\ s \in Slots
      /\ h \in {"cold", "transition"} /\ at \in Stages
  BY <1>3
<1>6. x = [op |-> op, at |-> at, rel |-> r, base |-> b, gen |-> 0,
           slot |-> s, prior |-> None, how |-> h, todo |-> <<>>,
           done |-> <<>>, moved |-> <<>>, clean |-> <<>>, ok |-> {}, well |-> TRUE,
           committed |-> FALSE, wrote |-> FALSE, before |-> f]
  BY <1>2
<1>7. op = "none" /\ at = "rest" /\ b = 0
  OBVIOUS
<1> HIDE DEF f, x, op, at, h, s, r, b
<1>8. /\ x \in Txns /\ x.op = op /\ x.at = at /\ x.base = b /\ x.gen = 0
      /\ x.done = <<>> /\ x.moved = <<>> /\ x.clean = <<>> /\ x.ok = {} /\ x.well
  BY <1>1, <1>5, <1>6, OpenFields
<1>4. /\ x \in Txns /\ x.op = "none" /\ x.at = "rest" /\ x.base = 0 /\ x.gen = 0
      /\ x.done = <<>> /\ x.moved = <<>> /\ x.clean = <<>> /\ x.ok = {} /\ x.well
  BY <1>7, <1>8
<1> QED  BY <1>4 DEF x

\* The lock is free again, and everything else as it was left.
LEMMA EndsKeeps ==
  ASSUME IInv, End \/ Crash
  PROVE  IInv'
<1>1. /\ txn' = NoTxn /\ life' = AtRest /\ UNCHANGED <<host, boots, owners>>
      /\ UNCHANGED <<desk, active, gens, temps, slots, tools, kept, root, store, settings, seen,
                     wish>>
  BY DEF End, Crash, diskVars
<1>2. TxnTypes' /\ WishTypes'
  <2>1. Len(gens) \in Nat /\ "rest" \in Course("none")
    BY DEF Course, IInv, Types, DiskTypes
  <2>2. WishTypes'
    BY <1>1, SameWish
  <2> QED  BY <1>1, <2>1, <2>2, NoTxnFields DEF TxnTypes, Making, Replacing, Numberless
<1>3. Apart' /\ life'.at # "closed"
  BY <1>1, NoOnes, ApartTypes DEF IInv, ColdRight, Apart
<1> QED  BY <1>1, <1>2, <1>3, NoTxnFields, Begun

LEMMA RepairsKeeps ==
  ASSUME IInv, PersonRepairs
  PROVE  IInv'
<1>1. /\ ~Locked /\ UNCHANGED <<host, boots, life, owners>>
      /\ UNCHANGED <<desk, active, gens, temps, slots, tools, kept, store, settings, seen, wish,
                     txn>>
  BY DEF PersonRepairs, RootKept, Still
<1>2. PICK k \in store : root' = [root EXCEPT !["program"] = k.was, !["identity"] = k.was]
  BY DEF PersonRepairs
<1>3. k.was \in Things /\ root \in [Places -> Things]
  BY DEF IInv, RootRight, BackupsRight, Types, DiskTypes
<1>4. /\ root' \in [Places -> Things]
      /\ \A m \in Places \ {"program", "identity"} : root'[m] = root[m]
  BY <1>2, <1>3
<1>5. txn.op = "none" /\ txn.at = "rest" /\ ~Cleans /\ ~Cleans'
  BY <1>1, AtRestNothing DEF IInv, Types, Cleans
<1>6. DiskTypes' /\ WishTypes' /\ TxnTypes'
  <2>1. DiskTypes' /\ WishTypes'
    BY <1>1, <1>4, RootTyped
  <2> QED  BY <1>1, <2>1 DEF IInv, Types, TxnTypes
<1>7. SelectionRight'
  BY <1>1 DEF IInv, SelectionRight, Loads
<1>8. ColdRight'
  <2>1. AfterClose' <=> AfterClose
    BY <1>1 DEF AfterClose
  <2> QED  BY <1>1, <2>1, StillSo DEF ColdRight
<1>9. ToolsRight'
  <2>1. Core /\ txn'.gen = txn.gen /\ txn'.done = txn.done
    BY <1>1 DEF Core
  <2>2. TodoFits(txn'.at, txn'.todo) /\ (txn.at \in Early \union {"move"} => txn.done = <<>>)
    BY <1>1 DEF IInv, ToolsRight, TodoRight, DoneRight
  <2>3. ~ToBeUndone'
    BY <1>1 DEF ToBeUndone, Locked
  <2> QED  BY <1>1, <1>5, <2>1, <2>2, <2>3, LenNat, ToolsFrame DEF IInv, Types
<1>10. RootRight'
  <2>1. BackupsRight'
    BY <1>1 DEF IInv, RootRight, BackupsRight
  <2>2. \A n : (IsMoved(n)' <=> IsMoved(n)) /\ (SafePlace(n)' <=> SafePlace(n))
    BY <1>1, MovedSame
  <2>3. MovesRight'
    BY <1>1, <2>2 DEF IInv, RootRight, MovesRight, MovesFit
  <2>4. MigrationRight'
    BY <1>1, <1>5 DEF MigrationRight
  <2>5. EntriesRight'
    BY <1>1, <1>5 DEF EntriesRight, EntriesFit
  <2>6. PlacesKept'
    BY <1>1, <1>4, <2>2 DEF IInv, RootRight, PlacesKept, First3, Places
  <2> QED  BY <2>1, <2>3, <2>4, <2>5, <2>6 DEF RootRight
<1>11. CleanRight'
  <2>1. txn.ok = {} /\ txn.clean = <<>> /\ txn.well
    BY <1>5 DEF IInv, CleanRight, Cleans
  <2>2. \A t : ~Left(t)'
    BY <1>1, <2>1 DEF Left, Items
  <2> QED  BY <1>1, <1>5, <2>1, <2>2 DEF CleanRight
<1> QED  BY <1>6, <1>7, <1>8, <1>9, <1>10, <1>11 DEF IInv, Types

-----------------------------------------------------------------------------
(* Every step. *)

LEMMA RuntimeStepKeeps ==
  ASSUME IInv, RuntimeStep
  PROVE  IInv'
BY LifeKeeps, ClosedKeeps, GateKeeps, StartedKeeps DEF RuntimeStep

LEMMA ToolStepKeeps ==
  ASSUME IInv, ToolStep
  PROVE  IInv'
<1>1. CASE Plan \/ Added \/ Keep \/ Place \/ Applied
  BY <1>1, PlanKeeps, AddedKeeps, KeepKeeps, PlaceKeeps, AppliedKeeps
<1>2. CASE Add \/ CopyIn("copy", "place")
  BY <1>2, CopyKeeps, AddPlaceKeeps DEF Add
<1> QED  BY <1>1, <1>2 DEF ToolStep

LEMMA RootStepKeeps ==
  ASSUME IInv, RootStep
  PROVE  IInv'
BY MoveKeeps, MovedKeeps, FixKeeps, FixedKeeps, ManageKeeps, ManagedKeeps, CompareKeeps, WriteKeeps
   DEF RootStep

LEMMA CleanStepKeeps ==
  ASSUME IInv, CleanStep
  PROVE  IInv'
BY UndoKeeps, UndoneKeeps, TakeBackKeeps, RestoreKeeps, UnmanageKeeps, PutBackKeeps, AllBackKeeps,
   UnsetKeeps DEF CleanStep

LEMMA AfterStepKeeps ==
  ASSUME IInv, AfterStep
  PROVE  IInv'
BY CopyEntryKeeps, MoveEntryKeeps, PlaceEntryKeeps, RefreshManagerKeeps, MoveIdentityKeeps,
   NewManagerKeeps DEF AfterStep

LEMMA TxnStepKeeps ==
  ASSUME IInv, TxnStep
  PROVE  IInv'
<1>1. CASE Retain \/ Lay \/ ToolStep \/ Pick \/ Number \/ Seal
  BY <1>1, RetainKeeps, LayKeeps, ToolStepKeeps, PickKeeps, NumberKeeps, SealKeeps
<1>2. CASE RuntimeStep \/ RootStep \/ CleanStep \/ AfterStep \/ End
  BY <1>2, RuntimeStepKeeps, RootStepKeeps, CleanStepKeeps, AfterStepKeeps, EndsKeeps
<1>3. CASE CommitStep
  BY <1>3, TempKeeps, SwapKeeps, SaidKeeps DEF CommitStep
<1> QED  BY <1>1, <1>2, <1>3 DEF TxnStep

LEMMA StutterKeeps ==
  ASSUME IInv, UNCHANGED vars
  PROVE  IInv'
<1>1. /\ UNCHANGED <<desk, active, gens, temps, slots, tools, kept, root, store, txn>>
      /\ UNCHANGED <<seen, wish, settings, host, boots, life, owners>>
  BY DEF vars, diskVars, lifeVars
<1> QED  BY <1>1, SameWish, StillSo, QuietKeeps

LEMMA NextKeeps ==
  ASSUME IInv, [Next]_vars
  PROVE  IInv'
<1>1. ASSUME NEW r \in Releases, Wish(r)
      PROVE  IInv'
  BY <1>1, WishKeeps
<1>2. CASE Begin \/ TxnStep \/ Crash
  BY <1>2, BeginInstallKeeps, BeginKeeps, TxnStepKeeps, EndsKeeps DEF Begin
<1>3. CASE Runtime \/ ConsoleOpens \/ ConsoleSaves \/ Person
  BY <1>3, RuntimeKeeps, ConsoleKeeps, PersonKeeps, RepairsKeeps DEF Person
<1>4. CASE Idle \/ UNCHANGED vars
  BY <1>4, StutterKeeps DEF Idle
<1> QED  BY <1>1, <1>2, <1>3, <1>4 DEF Next

\* An installation as acsetup finds it: nothing is under way.
LEMMA InitIInv ==
  ASSUME Init
  PROVE  IInv
<1>1. desk \in DeskTypes
  BY InstallAssumption DEF Init
<1>2. /\ active = desk.active /\ gens = desk.made /\ slots = desk.slots /\ tools = desk.tools
      /\ root = desk.root /\ host = desk.host /\ temps = {} /\ kept = {} /\ store = {}
      /\ settings = "before" /\ seen = 0 /\ wish = NoWish /\ txn = NoTxn /\ boots = NoBoot
      /\ life = AtRest /\ owners = desk.host.owner
  BY DEF Init
<1>3. /\ gens \in Seq(Generations) /\ \A g \in 1 .. Len(gens) : gens[g].from \in 0 .. Len(gens)
      /\ active \in Nat /\ slots \in [Slots -> Releases \union {None}]
      /\ tools \in [Tools -> AllFiles] /\ \A n \in Tools : tools[n] \in FilesOf(n)
      /\ root \in [Places -> Things] /\ host.owner \in Nat /\ host \in Hosts
  BY <1>1, <1>2 DEF DeskTypes, Generations, AllFiles, Hosts
<1>4. /\ \A g \in 1 .. Len(gens) : Fits(gens[g].shape, gens[g].rel)
      /\ active # 0 => active \in 1 .. Len(gens) /\ Loads(active)
  BY <1>1, <1>2 DEF DeskTypes, Loads
<1>5. DiskTypes
  <2>1. active \in 0 .. Len(gens)
    BY <1>3, <1>4
  <2>2. "before" \in Settings /\ {} \subseteq (-Len(gens)) .. Len(gens)
    BY DEF Settings
  <2> QED  BY <1>1, <1>2, <1>3, <2>1, <2>2 DEF DiskTypes
<1>6. WishTypes
  <2>1. Len(gens) \in Nat
    BY <1>3
  <2>2. NoWish \in Wishes /\ NoWish.kind = "none"
    BY DEF NoWish, Wishes
  <2> QED  BY <1>2, <2>1, <2>2 DEF WishTypes
<1>7. /\ txn \in Txns /\ txn.op = "none" /\ txn.at = "rest" /\ txn.base = 0 /\ txn.gen = 0
      /\ txn.done = <<>> /\ txn.moved = <<>> /\ txn.clean = <<>> /\ txn.ok = {} /\ txn.well
  BY <1>2, NoTxnFields
<1> HIDE DEF Init
<1>8. TxnTypes
  <2>1. Len(gens) \in Nat /\ "rest" \in Course("none")
    BY <1>3 DEF Course
  <2> QED  BY <1>7, <2>1 DEF TxnTypes, Making, Replacing, Numberless
<1>9. SelectionRight
  BY <1>4, <1>7 DEF SelectionRight
<1>10. ColdRight
  <2>1. ~AfterClose
    BY <1>7 DEF AfterClose, Tooling, Managing, Selecting, Refreshing
  <2>2. Apart /\ life.at # "closed"
    BY <1>2, <1>3, NoOnes DEF Apart
  <2> QED  BY <2>1, <2>2 DEF ColdRight
<1>11. ~Cleans /\ txn.at \in Early
  BY <1>7 DEF Cleans, Early
<1>12. ToolsRight
  <2>1. \A n : ~IsKept(n)
    BY <1>7 DEF IsKept, In
  <2>2. KeptOnce(txn.done) /\ PlacedOverKept(txn.done)
    BY <1>7 DEF KeptOnce, PlacedOverKept
  <2>3. DoneRight /\ RecordsRight
    BY <1>2, <1>7, <2>1, <2>2 DEF DoneRight, RecordsRight
  <2>4. StandRight
    BY <1>7 DEF StandRight, ToBeUndone, Locked
  <2>5. TodoRight
    BY <1>7 DEF TodoRight, TodoFits, Tooling
  <2>6. ToolsKept
    BY <1>2 DEF ToolsKept
  <2> QED  BY <2>3, <2>4, <2>5, <2>6 DEF ToolsRight
<1>13. RootRight
  <2>1. \A n : ~IsMoved(n)
    BY <1>7 DEF IsMoved, HasMoved
  <2>2. MovesRight
    BY <1>7, <1>11, <2>1 DEF MovesRight, MovesFit
  <2>3. MigrationRight /\ BackupsRight
    BY <1>2, <1>7 DEF MigrationRight, BackupsRight
  <2>4. EntriesRight
    BY <1>7 DEF EntriesRight, EntriesFit
  <2>5. PlacesKept
    BY <1>2 DEF PlacesKept
  <2> QED  BY <2>2, <2>3, <2>4, <2>5 DEF RootRight
<1>14. CleanRight
  <2>1. \A t : ~Left(t)
    BY <1>7 DEF Left, Items
  <2> QED  BY <1>7, <1>11, <2>1 DEF CleanRight, Cleans
<1> QED  BY <1>5, <1>6, <1>8, <1>9, <1>10, <1>12, <1>13, <1>14 DEF IInv, Types

\* What is said of the installation in every state, and why each part of it holds: the
\* selection is made last, what was moved out is written down as it is moved, and what is
\* taken back is what was written down.
THEOREM InstallRight == Spec => []IInv
<1>1. Init => IInv
  BY InitIInv
<1>2. IInv /\ [Next]_vars => IInv'
  BY NextKeeps
<1> QED  BY <1>1, <1>2, PTL DEF Spec

-----------------------------------------------------------------------------
(* What the runs check. *)

\* Every variable of acsetup's and of the installation's is what it is meant to be: a
\* generation has a slot, a selection is of a generation there is, and a tool in the root is
\* of some release (install.rs, upgrade.rs).
THEOREM InstallTyped == Spec => []TypeOK
<1>1. IInv => TypeOK
  <2> SUFFICES ASSUME IInv  PROVE TypeOK
    OBVIOUS
  <2>1. DiskTypes /\ seen \in 0 .. Len(gens)
        /\ txn.gen \in 0 .. Len(gens) /\ txn.base \in 0 .. Len(gens)
    BY DEF IInv, Types, WishTypes, TxnTypes
  <2>2. \A g \in 1 .. Len(gens) : gens[g].slot \in Slots /\ gens[g].ready \in BOOLEAN
    <3>1. ASSUME NEW g \in 1 .. Len(gens)
          PROVE  gens[g].slot \in Slots /\ gens[g].ready \in BOOLEAN
      <4>1. gens[g] \in Generations
        BY <2>1 DEF DiskTypes
      <4> QED  BY <4>1 DEF Generations
    <3> QED  BY <3>1
  <2>3. \A n \in Tools : tools[n] = None \/ \E r \in Releases : tools[n] = Content[r][n]
    BY <2>1 DEF DiskTypes, FilesOf
  <2> QED  BY <2>1, <2>2, <2>3 DEF TypeOK, DiskTypes
<1> QED  BY <1>1, InstallRight, PTL

\* The selection names whole programs of their slot and a configuration those programs read,
\* at every instant of every operation, of its taking back and of a crash: the slot under the
\* selection is never laid, a generation is sealed before it is selected, and one selected
\* again was checked before it was written (`Snapshot::read`, `commit`, `restore_before_start`).
THEOREM SelectionAlwaysLoads == Spec => []SelectionLoads
<1>1. IInv => SelectionLoads
  BY DEF IInv, SelectionRight, SelectionLoads, Loads
<1> QED  BY <1>1, InstallRight, PTL

\* What the root held when acsetup first came to it is in its place or under the name of the
\* generation that moved it out, whatever fails and wherever the process ends (`keep_tool`,
\* `move_aside`, `undo_tools`, `restore_layout`).
THEOREM NothingIsLost == Spec => []NothingLost
<1>1. IInv => NothingLost
  <2> SUFFICES ASSUME IInv  PROVE NothingLost
    OBVIOUS
  <2>1. \A n \in Tools : \/ desk.tools[n] = None \/ tools[n] = desk.tools[n]
                         \/ \E k \in kept : k.name = n /\ k.was = desk.tools[n]
    BY DEF IInv, ToolsRight, ToolsKept, Safe
  <2>2. \A n \in First3 : desk.root[n].is \in {"programs", "config"} =>
          root[n] = desk.root[n] \/ \E k \in store : k.name = n /\ k.was = desk.root[n]
    BY DEF IInv, RootRight, PlacesKept, SafePlace
  <2> QED  BY <2>1, <2>2 DEF NothingLost, First3
<1> QED  BY <1>1, InstallRight, PTL

\* What a failed operation took back is as it was when it began: its selection, the tools it
\* found when their undo was made, and for a first migration the root's places and the console's
\* settings, unless somebody wrote those since (`undo`, `restore_before_start`, `restore`).
THEOREM RestoredAlwaysOriginal == Spec => []RestoredIsOriginal
<1>1. IInv => RestoredIsOriginal
  <2> SUFFICES ASSUME IInv, At("clean"), txn.clean = <<>>
               PROVE  /\ "takeback" \in txn.ok => active = txn.base
                      /\ "undo" \in txn.ok => \A n \in Tools : txn.before.tools[n] # None
                                                  => tools[n] = txn.before.tools[n]
                      /\ {"takeback", "unmanage", "putback", "unset"} \subseteq txn.ok
                           => root = txn.before.root /\ settings \in {txn.before.settings, "theirs"}
    BY DEF RestoredIsOriginal
  <2>1. "takeback" \in txn.ok => active = txn.base
    BY DEF IInv, CleanRight
  <2>2. "undo" \in txn.ok => \A n \in Tools : txn.before.tools[n] # None
                                => tools[n] = txn.before.tools[n]
    BY DEF IInv, CleanRight, Stands
  <2>3. ASSUME {"unmanage", "putback", "unset"} \subseteq txn.ok
        PROVE  root = txn.before.root /\ settings \in {txn.before.settings, "theirs"}
    <3>1. \A m \in Places : root[m] = txn.before.root[m]
      BY <2>3 DEF IInv, CleanRight
    <3>2. root \in [Places -> Things] /\ txn.before.root \in [Places -> Things]
      BY DEF IInv, Types, DiskTypes, TxnTypes, Txns, Befores
    <3>3. settings \in {txn.before.settings, "theirs"}
      BY <2>3 DEF IInv, CleanRight
    <3> QED  BY <3>1, <3>2, <3>3
  <2> QED  BY <2>1, <2>2, <2>3
<1> QED  BY <1>1, InstallRight, PTL

-----------------------------------------------------------------------------
(* Nothing is changed under a Runtime that was met. *)

\* What a step of an operation that restarts the Runtime does to what that one runs on.
Changes == active' # active \/ kept' # kept \/ \E n \in {"runtime", "ui"} : root'[n] # root[n]

LEMMA TakingBack ==
  ASSUME NEW t \in Tasks, Cleaning(t)
  PROVE  AfterClose
<1>1. txn.at = "clean" /\ txn.clean # <<>>
  BY DEF Cleaning, At, Task, Tasks
<1> QED  BY <1>1 DEF AfterClose

LEMMA CleanStepChanges ==
  ASSUME CleanStep
  PROVE  AfterClose \/ ~Changes
<1>1. CASE Undo \/ Undone \/ TakeBack \/ Unmanage \/ PutBack \/ AllBack \/ Unset
  BY <1>1, TakingBack DEF Undo, Undone, TakeBack, Unmanage, PutBack, AllBack, Unset, Tasks
<1>2. CASE Restore
  BY <1>2 DEF Restore, At, AfterClose
<1> QED  BY <1>1, <1>2 DEF CleanStep

LEMMA ToolStepChanges ==
  ASSUME ToolStep
  PROVE  AfterClose \/ ~Changes
<1>1. CASE Plan \/ Added \/ Applied
  BY <1>1 DEF Plan, Added, Applied, Changes, diskVars
<1>2. CASE Keep
  BY <1>2 DEF Keep, At, AfterClose, Tooling
<1>3. CASE Place
  BY <1>3 DEF Place, PlaceIn, At, AfterClose, Tooling
<1>4. CASE Add \/ CopyIn("copy", "place")
  BY <1>4 DEF Add, CopyIn, PlaceIn, Changes
<1> QED  BY <1>1, <1>2, <1>3, <1>4 DEF ToolStep

LEMMA RootStepChanges ==
  ASSUME RootStep
  PROVE  AfterClose \/ ~Changes
<1>1. CASE Move \/ Fix \/ Manage
  BY <1>1 DEF Move, Fix, Manage, At, AfterClose, Managing
<1>2. CASE Moved \/ Fixed \/ Managed \/ CompareSettings \/ WriteSettings
  BY <1>2 DEF Moved, Fixed, Managed, CompareSettings, WriteSettings, RootKept, Changes, diskVars
<1> QED  BY <1>1, <1>2 DEF RootStep

LEMMA CommitStepChanges ==
  ASSUME CommitStep
  PROVE  AfterClose \/ ~Changes
BY DEF CommitStep, Temp, Swap, Said, At, AfterClose, Selecting

LEMMA AfterStepChanges ==
  ASSUME AfterStep
  PROVE  AfterClose \/ ~Changes
<1>1. CASE CopyEntry \/ MoveEntry \/ PlaceEntry
  BY <1>1 DEF CopyEntry, MoveEntry, PlaceEntry, At, AfterClose, Refreshing
<1>2. CASE RefreshManager \/ MoveIdentity \/ NewManager
  BY <1>2 DEF RefreshManager, MoveIdentity, NewManager, At, AfterClose, Refreshing
<1> QED  BY <1>1, <1>2 DEF AfterStep

LEMMA OtherStepChanges ==
  ASSUME Retain \/ Lay \/ Pick \/ Number \/ Seal \/ RuntimeStep \/ End
  PROVE  ~Changes
<1>1. CASE Retain \/ Lay \/ Pick
  BY <1>1 DEF Retain, Lay, Pick, Changes, diskVars
<1>2. CASE Number \/ Seal \/ End
  BY <1>2 DEF Number, Seal, End, Changes, diskVars
<1>3. CASE RuntimeStep
  BY <1>3 DEF RuntimeStep, CloseRuntime, Closing, RuntimeClosed, Gate, StartRuntime, Starting,
              RuntimeStarted, Changes, diskVars
<1> QED  BY <1>1, <1>2, <1>3

LEMMA TxnStepChanges ==
  ASSUME TxnStep
  PROVE  AfterClose \/ ~Changes
BY CleanStepChanges, ToolStepChanges, RootStepChanges, CommitStepChanges, AfterStepChanges,
   OtherStepChanges DEF TxnStep

LEMMA OthersChange ==
  ASSUME [Next]_vars, ~TxnStep
  PROVE  ~Locked \/ ~Changes
<1>1. ASSUME NEW r \in Releases, Wish(r)
      PROVE  ~Changes
  BY <1>1 DEF Wish, Changes, diskVars
<1>2. CASE Begin
  BY <1>2 DEF Begin, BeginInstall, BeginEdit, BeginResources, BeginRollback
<1>3. CASE Crash \/ Runtime \/ ConsoleOpens
  BY <1>3 DEF Crash, Runtime, ConsoleOpens, Changes, diskVars
<1>4. CASE ConsoleSaves
  BY <1>4 DEF ConsoleSaves, RootKept, Changes
<1>5. CASE Person \/ Idle
  BY <1>5 DEF Person, PersonClears, PersonRepairs, PersonStops, Idle
<1>6. CASE UNCHANGED vars
  BY <1>6 DEF vars, Changes, diskVars
<1> QED  BY <1>1, <1>2, <1>3, <1>4, <1>5, <1>6 DEF Next

\* The Runtime an operation met when it began to close is gone before the selection, a tool
\* or a place of the root changes under it: no stage after the close is reached, forward or in
\* taking back, while that Runtime owns the state root, and no later Runtime is that one
\* (`close_runtime`, `cold_gate`, `CommitShutdown` waited for).
THEOREM SwitchAlwaysCold == Spec => SwitchIsCold
<1>1. ASSUME IInv, [Next]_vars
      PROVE  [(txn.op \in {"upgrade", "migrate", "rollback", "resources"}
               /\ (active' # active \/ kept' # kept \/ \E n \in {"runtime", "ui"} : root'[n] # root[n]))
              => ~(Up /\ host.owner = life.met)]_vars
  <2> SUFFICES ASSUME txn.op \in Restarting, Changes
               PROVE  ~(Up /\ host.owner = life.met)
    BY DEF Restarting, Changes
  <2>1. Locked
    BY <1>1, AtRestNothing DEF IInv, Types, Restarting
  <2>2. AfterClose
    BY <1>1, <2>1, TxnStepChanges, OthersChange
  <2> QED  BY <1>1, <2>2 DEF IInv, ColdRight, Gone
<1> QED  BY <1>1, InstallRight, PTL DEF Spec, SwitchIsCold
=============================================================================
