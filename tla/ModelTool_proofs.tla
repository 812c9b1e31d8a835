--------------------------- MODULE ModelTool_proofs ---------------------------
(***************************************************************************)
(* The engine worker pool takes no answer for another batch's and every    *)
(* call leaves it at rest; the cache serves what the evaluators come to,   *)
(* and as long as runs follow one another every trace has its blob; the    *)
(* watch loses no change of a file and stages what it exports. For any     *)
(* number of workers, requests, calls and restarts, any graph, evaluators, *)
(* processes and files, and any number of edits and ends.                  *)
(***************************************************************************)
EXTENDS EnginePool, Cache, Watch, FiniteSetTheorems, SequenceTheorems, TLAPS

-----------------------------------------------------------------------------
(* A call has no more batches than requests.                               *)
LEMMA BatchesFit ==
  ASSUME NEW n \in 0..MaxRequests, NEW w \in Nat \ {0}
  PROVE  (n + w - 1) \div w \in 0..MaxRequests
<1> USE PoolAssumption
<1>1. PICK q \in Int, r \in 0..(w - 1) : n + w - 1 = w * q + r /\ q = (n + w - 1) \div w
  OBVIOUS
<1>2. q >= 0
  BY <1>1
<1>3. q <= n
  <2>1. SUFFICES ASSUME q >= n + 1 PROVE FALSE
    BY <1>1
  <2>2. w * q >= w * (n + 1)
    BY <2>1
  <2>3. w * (n + 1) = w * n + w
    OBVIOUS
  <2>4. w * n >= n
    OBVIOUS
  <2>5. QED
    BY <1>1, <2>2, <2>3, <2>4
<1>4. QED
  BY <1>1, <1>2, <1>3

(* What a call hands to the loop.                                          *)
LEMMA HandedTypes ==
  ASSUME NEW n \in 0..MaxRequests, NEW w \in 1..BatchSize, Handed(n, w)
  PROVE  /\ size' \in 1..BatchSize
         /\ \E m \in 0..MaxRequests : outcomes' \in [1..m -> {Unsettled, "answered", "failed"}]
         /\ pending' \in Seq(Batches)
<1> USE PoolAssumption DEF Handed
<1>1. (n + w - 1) \div w \in 0..MaxRequests
  BY BatchesFit
<1>2. pending' \in Seq(Batches)
  BY <1>1 DEF Batches
<1>3. outcomes' \in [1..n -> {Unsettled, "answered", "failed"}]
  OBVIOUS
<1>4. QED
  BY <1>2, <1>3

(* The outcomes stay outcomes when a batch gets its own.                   *)
LEMMA SettledTypes ==
  ASSUME TypeOK, NEW b, NEW kind \in {"answered", "failed"}
  PROVE  \E n \in 0..MaxRequests : Settled(b, kind) \in [1..n -> {Unsettled, "answered", "failed"}]
<1>1. PICK n \in 0..MaxRequests : outcomes \in [1..n -> {Unsettled, "answered", "failed"}]
  BY DEF TypeOK
<1>2. Settled(b, kind) \in [1..n -> {Unsettled, "answered", "failed"}]
  BY <1>1 DEF Settled
<1>3. QED
  BY <1>2

(* A slot without a worker and a slot with a new one are right.            *)
LEMMA FreshWorkers ==
  /\ NoWorker \in Workers /\ NoWorker.state = "none" /\ WorkerRight(NoWorker)
  /\ NewWorker \in Workers /\ NewWorker.state = "starting" /\ WorkerRight(NewWorker)
  BY PoolAssumption DEF NoWorker, NewWorker, Workers, WorkerRight

(* Changing one slot keeps the others as they are.                         *)
LEMMA OneSlot ==
  ASSUME TypeOK, \A s \in Slots : WorkerRight(worker[s]),
         NEW t \in Slots, NEW w \in Workers, WorkerRight(w),
         worker' = [worker EXCEPT ![t] = w]
  PROVE  /\ worker' \in [Slots -> Workers]
         /\ \A s \in Slots : WorkerRight(worker'[s])
         /\ \A s \in Slots : worker'[s] = IF s = t THEN w ELSE worker[s]
  BY DEF TypeOK

-----------------------------------------------------------------------------
(* A call that raises leaves an empty pool.                                *)
LEMMA RaisedInv ==
  ASSUME IInv, NEW how \in {"raised", "stuck"}, Raised(how)
  PROVE  IInv'
<1> USE PoolAssumption DEF IInv, Raised, callVars
<1>1. TypeOK'
  <2>1. worker' \in [Slots -> Workers] /\ ready' \subseteq Slots
    BY FreshWorkers
  <2>2. pending' \in Seq(Batches)
    BY EmptySeq
  <2>3. outcomes' \in [1..0 -> {Unsettled, "answered", "failed"}] /\ 0 \in 0..MaxRequests
    OBVIOUS
  <2>4. QED
    BY <2>1, <2>2, <2>3 DEF TypeOK
<1>2. \A s \in Slots : worker'[s] = NoWorker
  OBVIOUS
<1>3. \A s \in Slots : WorkerRight(worker'[s])
  BY <1>2, FreshWorkers
<1>4. Verify \in Slots /\ Main \subseteq Slots
  BY DEF Verify, Main, Slots
<1>5. GroupsApart' /\ PoolAtRest'
  BY <1>2, <1>4, FreshWorkers DEF GroupsApart, PoolAtRest, Alive, Live
<1>6. QED
  BY <1>1, <1>3, <1>5

(* What a step inside a call leaves as it is.                              *)
InCall ==
  /\ pc # "between" /\ UNCHANGED <<callVars, ended>>
  /\ pc' \in {"warm", "room", "loop", "start", "send", "wait", "receive", "timeouts"}
  /\ pc' = pc \/ pc' \notin {"warm", "room"}
  /\ pending' \in Seq(Batches)
  /\ \E n \in 0..MaxRequests : outcomes' \in [1..n -> {Unsettled, "answered", "failed"}]
  /\ ready' \subseteq Slots /\ restarts' \in 0..RestartBudget /\ refused' \in BOOLEAN

(* Such a step that changes no worker.                                     *)
LEMMA NoSlotInv ==
  ASSUME IInv, InCall, worker' = worker
  PROVE  IInv'
  BY DEF IInv, InCall, TypeOK, GroupsApart, PoolAtRest, callVars, Alive, Live

(* Such a step that changes one worker: to one right for its slot, that    *)
(* works only if the slot is of the call's group.                          *)
LEMMA OneSlotInv ==
  ASSUME IInv, InCall, NEW t \in Slots, NEW w \in Workers, WorkerRight(w),
         worker' = [worker EXCEPT ![t] = w],
         \/ w.state = "none"
         \/ w.state = "idle" /\ Alive(t)
         \/ t \in (IF op = "verify" THEN {Verify} ELSE Main)
  PROVE  IInv'
<1> USE PoolAssumption DEF IInv, InCall
<1>1. /\ worker' \in [Slots -> Workers]
      /\ \A s \in Slots : WorkerRight(worker'[s])
      /\ \A s \in Slots : worker'[s] = IF s = t THEN w ELSE worker[s]
  BY OneSlot
<1>2. TypeOK'
  BY <1>1 DEF TypeOK, callVars
<1>3. Verify \in Slots /\ Verify \notin Main /\ Main \subseteq Slots
  BY DEF Verify, Main, Slots
<1>4. GroupsApart'
  BY <1>1, <1>3 DEF GroupsApart, Alive, callVars
<1>5. PoolAtRest'
  BY DEF PoolAtRest
<1>6. QED
  BY <1>1, <1>2, <1>4, <1>5

-----------------------------------------------------------------------------
(* The calls begin with the pool at rest.                                  *)
LEMMA BeginsInv == IInv /\ (Warm \/ Call \/ VerifyCall) => IInv'
<1> SUFFICES ASSUME IInv, Warm \/ Call \/ VerifyCall PROVE IInv'
  OBVIOUS
<1> USE PoolAssumption DEF IInv, Begins
<1>1. /\ pc = "between" /\ worker' = worker /\ ended' = "none" /\ pc' # "between"
      /\ calls' = calls + 1 /\ calls < MaxCalls /\ refused' = FALSE
      /\ UNCHANGED <<ready, restarts>>
  BY DEF Warm, Call, VerifyCall
<1>2. /\ op' \in {"warm", "call", "verify"} /\ limit' \in 0..WorkersMax
      /\ pc' \in {"warm", "loop", "room"}
      /\ pc' = "warm" => op' = "warm"
      /\ pc' = "room" => op' = "verify"
  BY DEF Warm, Call, VerifyCall
<1>3. /\ size' \in 1..BatchSize
      /\ \E m \in 0..MaxRequests : outcomes' \in [1..m -> {Unsettled, "answered", "failed"}]
      /\ pending' \in Seq(Batches)
  <2>1. CASE Warm
    <3>1. outcomes' \in [1..0 -> {Unsettled, "answered", "failed"}] /\ 0 \in 0..MaxRequests
      BY <2>1 DEF Warm
    <3>2. pending' \in Seq(Batches) /\ size' \in 1..BatchSize
      BY <2>1, EmptySeq DEF Warm
    <3>3. QED
      BY <3>1, <3>2
  <2>2. CASE Call \/ VerifyCall
    <3>1. PICK n \in 0..MaxRequests, width \in 1..BatchSize : Handed(n, width)
      BY <2>2 DEF Call, VerifyCall
    <3>2. QED
      BY <3>1, HandedTypes
  <2>3. QED
    BY <2>1, <2>2
<1>4. TypeOK'
  <2>1. calls' \in 0..MaxCalls
    BY <1>1 DEF TypeOK
  <2>2. worker' \in [Slots -> Workers] /\ ready' \subseteq Slots /\ restarts' \in 0..RestartBudget
    BY <1>1 DEF TypeOK
  <2>3. QED
    BY ONLY <2>1, <2>2, <1>1, <1>2, <1>3 DEF TypeOK
<1>5. GroupsApart' /\ PoolAtRest'
  BY <1>1, <1>2 DEF GroupsApart, PoolAtRest, Alive
<1>6. QED
  BY <1>1, <1>4, <1>5

(* A step that only moves the host on.                                     *)
LEMMA GoesInv ==
  ASSUME IInv, pc # "between", NEW next \in {"loop", "send", "wait"}, Goes(next)
  PROVE  IInv'
<1>1. InCall
  BY DEF IInv, TypeOK, InCall, Goes, callVars
<1>2. QED
  BY <1>1, NoSlotInv DEF Goes

(* The room for the verify worker.                                         *)
LEMMA MakeRoomInv == IInv /\ MakeRoom => IInv'
<1> SUFFICES ASSUME IInv, MakeRoom PROVE IInv'
  OBVIOUS
<1>1. InCall
  BY DEF IInv, TypeOK, InCall, MakeRoom, callVars
<1>2. CASE worker' = worker
  BY <1>1, <1>2, NoSlotInv
<1>3. CASE \E s \in Live : worker' = [worker EXCEPT ![s] = NoWorker]
  <2>1. PICK s \in Slots : worker' = [worker EXCEPT ![s] = NoWorker]
    BY <1>3 DEF Live
  <2>2. QED
    BY <1>1, <2>1, FreshWorkers, OneSlotInv
<1>4. QED
  BY <1>2, <1>3 DEF MakeRoom

(* There is a free slot where the group has room.                          *)
LEMMA FreeSlotInGroup ==
  ASSUME IInv, Room
  PROVE  FreeSlot \in (IF op = "verify" THEN {Verify} ELSE Main)
<1> USE PoolAssumption
<1>1. CASE op = "verify"
  BY <1>1 DEF FreeSlot
<1>2. CASE op # "verify"
  <2>1. \E s \in Main : ~Alive(s)
    <3>1. SUFFICES ASSUME \A s \in Main : Alive(s) PROVE FALSE
      OBVIOUS
    <3>2. Group = 1..WorkersMax
      BY <1>2, <3>1 DEF Group, Main
    <3>3. Cardinality(Group) = WorkersMax
      BY <3>2, FS_Interval
    <3>4. QED
      BY <3>3 DEF Room, IInv, TypeOK
  <2>2. QED
    BY <1>2, <2>1 DEF FreeSlot
<1>3. QED
  BY <1>1, <1>2

(* A worker is started.                                                    *)
LEMMA StartsInv == ASSUME IInv, pc # "between", Room, Starts PROVE IInv'
<1>1. CASE Raised("raised")
  BY <1>1, RaisedInv
<1>2. CASE worker' = [worker EXCEPT ![FreeSlot] = NewWorker] /\ ~Raised("raised")
  <2>1. InCall
    BY <1>2 DEF IInv, TypeOK, InCall, Starts, callVars
  <2>2. FreeSlot \in Slots
    BY FreeSlotInGroup, PoolAssumption DEF Verify, Main, Slots
  <2>3. QED
    BY <1>2, <2>1, <2>2, FreshWorkers, FreeSlotInGroup, OneSlotInv
<1>3. QED
  BY <1>1, <1>2 DEF Starts

(* The pass's starts.                                                      *)
LEMMA StartingInv == IInv /\ (WarmStarts \/ StartOne) => IInv'
<1> SUFFICES ASSUME IInv, WarmStarts \/ StartOne PROVE IInv'
  OBVIOUS
<1>1. pc # "between"
  BY DEF WarmStarts, StartOne
<1>2. CASE Room /\ Starts
  BY <1>1, <1>2, StartsInv
<1>3. CASE Goes("loop") \/ Goes("send")
  BY <1>1, <1>3, GoesInv
<1>4. QED
  BY <1>2, <1>3 DEF WarmStarts, StartOne

(* The loop's own steps.                                                   *)
LEMMA LoopInv == IInv /\ (Loop \/ Wait \/ Through) => IInv'
<1> SUFFICES ASSUME IInv, Loop \/ Wait \/ Through PROVE IInv'
  OBVIOUS
<1>1. Group \subseteq Slots /\ Waiting \subseteq Group
  BY PoolAssumption DEF Group, Waiting, Verify, Main, Slots
<1>2. CASE Loop
  <2>1. InCall /\ worker' = worker
    BY <1>2 DEF IInv, TypeOK, InCall, Loop, callVars
  <2>2. QED
    BY <2>1, NoSlotInv
<1>3. CASE Wait
  <2>1. InCall /\ worker' = worker
    BY <1>1, <1>3 DEF IInv, TypeOK, InCall, Wait, callVars
  <2>2. QED
    BY <2>1, NoSlotInv
<1>4. CASE Through
  BY <1>4, GoesInv DEF Through
<1>5. QED
  BY <1>2, <1>3, <1>4

(* A call that returns: nobody is waited for.                              *)
LEMMA ReturnInv == IInv /\ Return => IInv'
<1> SUFFICES ASSUME IInv, Return PROVE IInv'
  OBVIOUS
<1> USE PoolAssumption DEF IInv, Return, callVars
<1>1. Verify \in Slots /\ Verify \notin Main /\ Main \subseteq Slots
  BY DEF Verify, Main, Slots
<1>2. \A s \in Slots : worker'[s] = worker[s] \/ worker'[s] = NoWorker
  BY DEF TypeOK
<1>3. worker' \in [Slots -> Workers] /\ \A s \in Slots : WorkerRight(worker'[s])
  BY <1>2, FreshWorkers DEF TypeOK
<1>4. TypeOK'
  BY <1>3 DEF TypeOK
<1>5. op' = op /\ ~Alive(Verify)'
  <2>1. CASE op = "verify"
    BY <1>1, <2>1, FreshWorkers DEF TypeOK, Alive
  <2>2. CASE op # "verify"
    BY <2>2 DEF GroupsApart, Alive
  <2>3. QED
    BY <2>1, <2>2
<1>6. \A s \in Main : worker'[s].state \in {"none", "idle"}
  <2>1. CASE op = "verify"
    BY <1>1, <1>2, <2>1, FreshWorkers DEF GroupsApart
  <2>2. CASE op # "verify"
    BY <2>2 DEF Waiting, In, Group, Alive
  <2>3. QED
    BY <2>1, <2>2
<1>7. GroupsApart' /\ PoolAtRest'
  BY <1>5, <1>6 DEF GroupsApart, PoolAtRest
<1>8. QED
  BY <1>3, <1>4, <1>7

-----------------------------------------------------------------------------
(* A worker is gone: its batch, if it had one, is to be sent again.        *)
LEMMA AgainTypes ==
  ASSUME NEW batch \in 0..MaxRequests, NEW later \in Seq(Batches)
  PROVE  (IF batch = 0 THEN later ELSE <<batch>> \o later) \in Seq(Batches)
<1>1. CASE batch = 0
  BY <1>1
<1>2. CASE batch # 0
  <2>1. <<batch>> \in Seq(Batches)
    BY <1>2, PoolAssumption DEF Batches
  <2>2. QED
    BY <1>2, <2>1, ConcatProperties
<1>3. QED
  BY <1>1, <1>2

(* The batches to be sent are batches.                                     *)
LEMMA PendingTypes ==
  ASSUME TypeOK, pending # <<>>
  PROVE  Head(pending) \in Batches /\ Tail(pending) \in Seq(Batches)
  BY HeadTailProperties DEF TypeOK

(* One batch to one idle worker of the group.                              *)
LEMMA SendInv == IInv /\ Send => IInv'
<1> SUFFICES ASSUME IInv, Send PROVE IInv'
  OBVIOUS
<1> DEFINE b == Head(pending)
<1>1. b \in Batches /\ Tail(pending) \in Seq(Batches) /\ b \in 0..MaxRequests /\ b # 0
  BY PendingTypes, PoolAssumption DEF Send, IInv, Batches
<1>2. PICK s \in In("idle") :
        IF worker[s].proc = "gone"
          THEN Crashed(s, b, Tail(pending), refused' = TRUE /\ UNCHANGED <<pc, ready>>)
          ELSE /\ worker' = [worker EXCEPT ![s] = [@ EXCEPT !.state = "busy", !.batch = b,
                                                           !.proc = "working", !.job = b]]
               /\ pending' = Tail(pending)
               /\ UNCHANGED <<pc, callVars, outcomes, ready, restarts, ended, refused>>
  BY DEF Send
<1>3. /\ s \in Slots /\ s \in (IF op = "verify" THEN {Verify} ELSE Main)
      /\ worker[s].state = "idle" /\ worker[s] \in Workers /\ WorkerRight(worker[s])
  BY PoolAssumption DEF In, Group, Verify, Main, Slots, IInv, TypeOK
<1>4. pc = "send"
  BY DEF Send
<1> HIDE DEF b
<1>5. CASE worker[s].proc = "gone"
  <2>1. CASE Raised("raised")
    BY <2>1, RaisedInv
  <2>2. CASE ~Raised("raised")
    <3>1. /\ restarts < RestartBudget /\ restarts' = restarts + 1
          /\ worker' = [worker EXCEPT ![s] = NoWorker]
          /\ pending' = IF b = 0 THEN Tail(pending) ELSE <<b>> \o Tail(pending)
          /\ refused' = TRUE /\ UNCHANGED <<pc, ready, callVars, outcomes, ended>>
      BY <1>2, <1>5, <2>2 DEF Crashed, Restarted
    <3>2. pending' \in Seq(Batches)
      BY <1>1, <3>1, AgainTypes
    <3>3. restarts' \in 0..RestartBudget
      BY <3>1, PoolAssumption DEF IInv, TypeOK
    <3>4. /\ ready' \subseteq Slots
          /\ \E n \in 0..MaxRequests : outcomes' \in [1..n -> {Unsettled, "answered", "failed"}]
      BY <3>1 DEF IInv, TypeOK
    <3>5. InCall
      BY <1>4, <3>1, <3>2, <3>3, <3>4 DEF InCall
    <3>6. QED
      BY <3>1, <3>5, <1>3, FreshWorkers, OneSlotInv
  <2>3. QED
    BY <2>1, <2>2
<1>6. CASE worker[s].proc # "gone"
  <2> DEFINE w == [worker[s] EXCEPT !.state = "busy", !.batch = b, !.proc = "working", !.job = b]
  <2>1. w \in Workers
    BY <1>1, <1>3 DEF Workers
  <2>2. WorkerRight(w)
    BY <1>1, <1>3 DEF Workers, WorkerRight
  <2>3. worker' = [worker EXCEPT ![s] = w]
    BY <1>2, <1>6
  <2>4. InCall
    BY <1>1, <1>2, <1>4, <1>6 DEF InCall, IInv, TypeOK, callVars
  <2> HIDE DEF w
  <2>5. QED
    BY <2>1, <2>2, <2>3, <2>4, <1>3, OneSlotInv
<1>7. QED
  BY <1>5, <1>6

(* The sends of the pass are over.                                         *)
LEMMA SentInv == IInv /\ Sent => IInv'
<1> SUFFICES ASSUME IInv, Sent PROVE IInv'
  OBVIOUS
<1>1. CASE Goes("wait") \/ Goes("loop")
  BY <1>1, GoesInv DEF Sent
<1>2. CASE Raised("stuck")
  BY <1>2, RaisedInv
<1>3. QED
  BY <1>1, <1>2 DEF Sent

-----------------------------------------------------------------------------
(* A worker handled in a pass.                                             *)
LEMMA HandlesFacts ==
  ASSUME IInv, pc \in {"receive", "timeouts"}, NEW s \in ready, Handles(s),
         UNCHANGED <<callVars, ended>>, restarts' \in 0..RestartBudget,
         pending' \in Seq(Batches),
         \E n \in 0..MaxRequests : outcomes' \in [1..n -> {Unsettled, "answered", "failed"}]
  PROVE  InCall
  BY DEF IInv, TypeOK, Handles, InCall

(* A worker taken out of its slot while a restart is left.                 *)
LEMMA RemovedInv ==
  ASSUME IInv, pc \in {"receive", "timeouts"}, NEW s \in ready, Handles(s),
         restarts' = restarts \/ (restarts < RestartBudget /\ restarts' = restarts + 1),
         worker' = [worker EXCEPT ![s] = NoWorker],
         pending' \in Seq(Batches),
         \E n \in 0..MaxRequests : outcomes' \in [1..n -> {Unsettled, "answered", "failed"}],
         UNCHANGED <<callVars, ended>>
  PROVE  IInv'
<1>1. restarts' \in 0..RestartBudget /\ s \in Slots
  BY PoolAssumption DEF IInv, TypeOK
<1>2. InCall
  BY <1>1, HandlesFacts
<1>3. QED
  BY <1>1, <1>2, FreshWorkers, OneSlotInv

(* A worker handled after a deadline is one of the live ones.              *)
LEMMA TimedOutInv == ASSUME IInv, NEW s \in ready, TimedOut(s) PROVE IInv'
<1>1. CASE Raised("raised")
  BY <1>1, RaisedInv
<1>2. CASE ~Raised("raised")
  <2>1. /\ pc = "timeouts" /\ restarts < RestartBudget /\ restarts' = restarts + 1
        /\ outcomes' = Settled(worker[s].batch, "failed")
        /\ worker' = [worker EXCEPT ![s] = NoWorker]
        /\ Handles(s) /\ UNCHANGED <<callVars, pending, ended>>
    BY <1>2 DEF TimedOut, Restarted
  <2>2. \E n \in 0..MaxRequests : outcomes' \in [1..n -> {Unsettled, "answered", "failed"}]
    BY <2>1, SettledTypes DEF IInv
  <2>3. pending' \in Seq(Batches)
    BY <2>1 DEF IInv, TypeOK
  <2>4. QED
    BY <2>1, <2>2, <2>3, RemovedInv
<1>3. QED
  BY <1>1, <1>2

(* A channel closed before an answer.                                      *)
LEMMA ReceiveClosedInv ==
  ASSUME IInv, pc = "receive", NEW s \in ready, ReceiveClosed(s) PROVE IInv'
<1>1. CASE Raised("raised")
  BY <1>1, RaisedInv
<1>2. CASE ~Raised("raised")
  <2>1. /\ restarts < RestartBudget /\ restarts' = restarts + 1
        /\ worker' = [worker EXCEPT ![s] = NoWorker]
        /\ pending' = IF worker[s].batch = 0 THEN pending ELSE <<worker[s].batch>> \o pending
        /\ Handles(s) /\ UNCHANGED <<callVars, outcomes, ended>>
    BY <1>2 DEF ReceiveClosed, Crashed, Restarted
  <2>2. worker[s].batch \in 0..MaxRequests /\ pending \in Seq(Batches)
    BY DEF IInv, TypeOK, Workers
  <2>3. pending' \in Seq(Batches)
    BY <2>1, <2>2, AgainTypes
  <2>4. \E n \in 0..MaxRequests : outcomes' \in [1..n -> {Unsettled, "answered", "failed"}]
    BY <2>1 DEF IInv, TypeOK
  <2>5. QED
    BY <2>1, <2>3, <2>4, RemovedInv
<1>3. QED
  BY <1>1, <1>2

(* The first frame of a worker that was started.                           *)
LEMMA ReceiveStartedInv ==
  ASSUME IInv, pc = "receive", NEW s \in ready, ReceiveStarted(s) PROVE IInv'
<1> DEFINE w == [worker[s] EXCEPT !.state = "idle", !.frame = NoFrame]
<1>1. CASE Raised("raised")
  BY <1>1, RaisedInv
<1>2. CASE ~Raised("raised")
  <2>1. /\ worker' = [worker EXCEPT ![s] = w]
        /\ Handles(s) /\ UNCHANGED <<callVars, outcomes, pending, restarts, ended>>
        /\ worker[s].frame # NoFrame /\ worker[s].state = "starting"
    BY <1>2 DEF ReceiveStarted
  <2>2. s \in Slots /\ worker[s] \in Workers /\ WorkerRight(worker[s])
    BY DEF IInv, TypeOK
  <2>3. w \in Workers /\ w.state = "idle" /\ WorkerRight(w)
    BY <2>1, <2>2 DEF Workers, WorkerRight
  <2>4. InCall
    BY <2>1, HandlesFacts DEF IInv, TypeOK
  <2>5. Alive(s)
    BY <2>1 DEF Alive
  <2> HIDE DEF w
  <2>6. QED
    BY <2>1, <2>2, <2>3, <2>4, <2>5, OneSlotInv
<1>3. QED
  BY <1>1, <1>2

(* The answers, of each kind.                                              *)
LEMMA ReceiveAnswerInv ==
  ASSUME IInv, pc = "receive", NEW s \in ready, ReceiveAnswer(s) PROVE IInv'
<1> DEFINE w == [worker[s] EXCEPT !.state = "idle", !.batch = 0, !.frame = NoFrame]
<1>1. CASE Raised("raised")
  BY <1>1, RaisedInv
<1>2. CASE ~Raised("raised")
  <2>1. /\ \/ worker' = [worker EXCEPT ![s] = w]
           \/ worker' = [worker EXCEPT ![s] = NoWorker]
        /\ \E kind \in {"answered", "failed"} : outcomes' = Settled(worker[s].batch, kind)
        /\ restarts' = restarts \/ (restarts < RestartBudget /\ restarts' = restarts + 1)
        /\ Handles(s) /\ UNCHANGED <<callVars, pending, ended>>
    <3>1. CASE ReceiveResult(s)
      BY <1>2, <3>1 DEF ReceiveResult
    <3>2. CASE ReceiveException(s)
      BY <3>2 DEF ReceiveException
    <3>3. CASE ReceiveMemory(s)
      BY <1>2, <3>3 DEF ReceiveMemory, Restarted
    <3>4. QED
      BY <1>2, <3>1, <3>2, <3>3 DEF ReceiveAnswer, ReceiveGuard
  <2>2. \E n \in 0..MaxRequests : outcomes' \in [1..n -> {Unsettled, "answered", "failed"}]
    BY <2>1, SettledTypes DEF IInv
  <2>3. pending' \in Seq(Batches)
    BY <2>1 DEF IInv, TypeOK
  <2>4. CASE worker' = [worker EXCEPT ![s] = NoWorker]
    BY <2>1, <2>2, <2>3, <2>4, RemovedInv
  <2>5. CASE worker' = [worker EXCEPT ![s] = w]
    <3>1. /\ s \in Slots /\ worker[s] \in Workers /\ WorkerRight(worker[s])
          /\ worker[s].frame # NoFrame /\ worker[s].state = "busy"
      BY DEF IInv, TypeOK, ReceiveAnswer
    <3>2. w \in Workers /\ w.state = "idle" /\ WorkerRight(w)
      <4>1. 0 \in 0..MaxRequests
        BY PoolAssumption
      <4>2. w \in Workers
        BY <3>1, <4>1 DEF Workers
      <4>3. w.state = "idle" /\ w.frame = NoFrame /\ w.proc = worker[s].proc
        BY <3>1 DEF Workers
      <4>4. w.proc \in {"idle", "gone"}
        BY <3>1, <4>3 DEF WorkerRight
      <4>5. QED
        BY <4>2, <4>3, <4>4 DEF WorkerRight
    <3>3. restarts' \in 0..RestartBudget
      BY <2>1, PoolAssumption DEF IInv, TypeOK
    <3>4. InCall
      BY <2>1, <2>2, <2>3, <3>3, HandlesFacts
    <3>5. Alive(s)
      BY <3>1 DEF Alive
    <3> HIDE DEF w
    <3>6. QED
      BY <2>5, <3>1, <3>2, <3>4, <3>5, OneSlotInv
  <2>6. QED
    BY <2>1, <2>4, <2>5
<1>3. QED
  BY <1>1, <1>2

-----------------------------------------------------------------------------
(* What a worker's process does, the host sees later: its state and batch  *)
(* there stay.                                                             *)
LEMMA ProcessInv == ASSUME IInv, NEW s \in Slots, Process(s) PROVE IInv'
<1>1. PICK proc \in {"idle", "gone"}, frame \in Frames \cup {NoFrame} :
        /\ ProcessStep(s, proc, frame)
        /\ WorkerRight([worker[s] EXCEPT !.proc = proc, !.frame = frame])
  <2>1. worker[s] \in Workers /\ WorkerRight(worker[s])
    BY DEF IInv, TypeOK
  <2>2. CASE Boots(s)
    <3>1. PICK proc \in {"idle", "gone"}, tag \in {"ready", "boot_failed", "guard"} :
            ProcessStep(s, proc, [tag |-> tag, batch |-> 0])
      BY <2>2 DEF Boots
    <3>2. [tag |-> tag, batch |-> 0] \in Frames
      BY PoolAssumption DEF Frames
    <3>3. worker[s].state = "starting"
      BY <2>1, <2>2 DEF Boots, Workers, WorkerRight
    <3>4. WorkerRight([worker[s] EXCEPT !.proc = proc, !.frame = [tag |-> tag, batch |-> 0]])
      BY <2>1, <3>3 DEF Workers, WorkerRight
    <3>5. QED
      BY <3>1, <3>2, <3>4
  <2>3. CASE Answers(s)
    <3>1. PICK proc \in {"idle", "gone"}, tag \in {"result", "exception", "memory", "guard"} :
            ProcessStep(s, proc, [tag |-> tag, batch |-> worker[s].job])
      BY <2>3 DEF Answers
    <3>2. [tag |-> tag, batch |-> worker[s].job] \in Frames
      BY <2>1 DEF Frames, Workers
    <3>3. worker[s].state = "busy" /\ worker[s].job = worker[s].batch
      BY <2>1, <2>3 DEF Answers, Workers, WorkerRight
    <3>4. WorkerRight([worker[s] EXCEPT !.proc = proc,
                                        !.frame = [tag |-> tag, batch |-> worker[s].job]])
      BY <2>1, <3>3 DEF Workers, WorkerRight
    <3>5. QED
      BY <3>1, <3>2, <3>4
  <2>4. CASE Dies(s)
    <3>1. ProcessStep(s, "gone", worker[s].frame) /\ worker[s].frame \in Frames \cup {NoFrame}
      BY <2>1, <2>4 DEF Dies, Workers
    <3>2. WorkerRight([worker[s] EXCEPT !.proc = "gone", !.frame = worker[s].frame])
      BY <2>1 DEF Workers, WorkerRight
    <3>3. QED
      BY <3>1, <3>2
  <2>5. QED
    BY <2>2, <2>3, <2>4 DEF Process
<1> DEFINE w == [worker[s] EXCEPT !.proc = proc, !.frame = frame]
<1>2. w \in Workers /\ w.state = worker[s].state
  <2>1. worker[s] \in Workers
    BY DEF IInv, TypeOK
  <2>2. w \in Workers
    BY <2>1 DEF Workers
  <2>3. w.state = worker[s].state
    BY <2>1 DEF Workers
  <2>4. QED
    BY <2>2, <2>3
<1>3. worker' = [worker EXCEPT ![s] = w]
  BY <1>1 DEF ProcessStep
<1>4. WorkerRight(w)
  BY <1>1
<1>5. UNCHANGED <<pc, callVars, outcomes, pending, ready, restarts, ended, refused>>
  BY <1>1 DEF ProcessStep
<1> HIDE DEF w
<1>6. /\ worker' \in [Slots -> Workers] /\ \A t \in Slots : WorkerRight(worker'[t])
      /\ \A t \in Slots : worker'[t].state = worker[t].state
  BY <1>2, <1>3, <1>4, OneSlot DEF IInv
<1>7. TypeOK'
  BY <1>5, <1>6 DEF IInv, TypeOK, callVars
<1>8. GroupsApart' /\ PoolAtRest'
  BY <1>5, <1>6, PoolAssumption
  DEF IInv, GroupsApart, PoolAtRest, Alive, Live, callVars, Verify, Main, Slots
<1>9. QED
  BY <1>6, <1>7, <1>8 DEF IInv

-----------------------------------------------------------------------------
(* The pool as it is built.                                                *)
LEMMA InitInv == Init => IInv
<1> SUFFICES ASSUME Init PROVE IInv
  OBVIOUS
<1> USE PoolAssumption DEF Init
<1>1. \A s \in Slots : worker[s] = NoWorker
  OBVIOUS
<1>2. Verify \in Slots /\ Main \subseteq Slots
  BY DEF Verify, Main, Slots
<1>3. TypeOK
  <2>1. outcomes \in [1..0 -> {Unsettled, "answered", "failed"}] /\ 0 \in 0..MaxRequests
    OBVIOUS
  <2>2. pending \in Seq(Batches)
    BY EmptySeq
  <2>3. worker \in [Slots -> Workers]
    BY FreshWorkers
  <2>4. /\ limit \in 0..WorkersMax /\ calls \in 0..MaxCalls /\ size \in 1..BatchSize
        /\ ready \subseteq Slots /\ restarts \in 0..RestartBudget
    OBVIOUS
  <2>5. /\ pc = "between" /\ op = "call" /\ ended = "none" /\ refused = FALSE
    OBVIOUS
  <2>6. QED
    BY ONLY <2>1, <2>2, <2>3, <2>4, <2>5 DEF TypeOK
<1>4. GroupsApart /\ PoolAtRest
  BY <1>1, <1>2, FreshWorkers DEF GroupsApart, PoolAtRest, Alive, Live
<1>5. QED
  BY <1>1, <1>3, <1>4, FreshWorkers DEF IInv

(* Every step keeps it.                                                    *)
LEMMA NextInv == IInv /\ [Next]_vars => IInv'
<1> SUFFICES ASSUME IInv, [Next]_vars PROVE IInv'
  OBVIOUS
<1>1. CASE Warm \/ Call \/ VerifyCall
  BY <1>1, BeginsInv
<1>2. CASE Host
  <2>1. CASE \E s \in ready : TimedOut(s)
    BY <2>1, TimedOutInv
  <2>2. CASE Receive
    BY <2>2, ReceiveClosedInv, ReceiveStartedInv, ReceiveAnswerInv DEF Receive
  <2>3. QED
    BY <1>2, <2>1, <2>2, MakeRoomInv, StartingInv, ReturnInv, LoopInv, SendInv, SentInv
    DEF Host
<1>3. CASE \E s \in Slots : Process(s)
  BY <1>3, ProcessInv
<1>4. CASE UNCHANGED vars
  BY <1>4 DEF IInv, TypeOK, GroupsApart, PoolAtRest, Alive, Live, vars, callVars
<1>5. QED
  BY <1>1, <1>2, <1>3, <1>4 DEF Next

LEMMA Invariant == Spec => []IInv
  BY InitInv, NextInv, PTL DEF Spec

(* The pool's state is of its types, and the restarts never pass the       *)
(* budget of the engine, however many calls there are.                     *)
THEOREM PoolTypes == Spec => []TypeOK
<1>1. IInv => TypeOK
  BY DEF IInv
<1>2. QED
  BY <1>1, Invariant, PTL

(* No late answer is taken for another batch's: what the host receives of  *)
(* a busy worker answers the batch it sent, and an idle one sends nothing. *)
THEOREM PoolAnswersOwnBatch == Spec => []AnswersOwnBatch
<1>1. IInv => AnswersOwnBatch
  BY DEF IInv, WorkerRight, AnswersOwnBatch
<1>2. QED
  BY <1>1, Invariant, PTL

(* Every call, however it ends, leaves no worker at work and none of the   *)
(* verify run's; one that raised leaves none.                              *)
THEOREM PoolComesToRest == Spec => []PoolAtRest
<1>1. IInv => PoolAtRest
  BY DEF IInv
<1>2. QED
  BY <1>1, Invariant, PTL

-----------------------------------------------------------------------------
(* A process may end or send, but takes nothing back that can be read.     *)
LEMMA ProcessKeepsReadable ==
  ASSUME IInv, NEW s \in Slots, Process(s), NEW t \in Slots, Readable(t)
  PROVE  Readable(t)'
<1>1. PICK proc, frame : ProcessStep(s, proc, frame)
  BY DEF Process, Boots, Answers, Dies
<1>2. worker' = [worker EXCEPT ![s] = [worker[s] EXCEPT !.proc = proc, !.frame = frame]]
  BY <1>1 DEF ProcessStep
<1>3. worker[s] \in Workers /\ WorkerRight(worker[s]) /\ worker \in [Slots -> Workers]
  BY DEF IInv, TypeOK
<1>4. CASE t # s
  BY <1>2, <1>3, <1>4 DEF Readable
<1>5. CASE t = s
  <2>1. worker[s].proc \in {"idle", "gone"}
    BY <1>3, <1>5 DEF Readable, WorkerRight
  <2>2. Dies(s)
    BY <2>1 DEF Process, Boots, Answers
  <2>3. worker'[s].proc = "gone"
    BY <1>3, <2>2 DEF Dies, ProcessStep, Workers
  <2>4. QED
    BY <1>5, <2>3 DEF Readable
<1>6. QED
  BY <1>4, <1>5

(* Handling one worker changes no other.                                   *)
LEMMA ReceiveOnlyOne ==
  ASSUME IInv, Receive, pc' # "between"
  PROVE  \E s \in ready : /\ ready' = ready \ {s}
                          /\ \A t \in Slots \ {s} : worker'[t] = worker[t]
                          /\ Alive(s)' => Alive(s)
<1>1. PICK s \in ready : ReceiveClosed(s) \/ ReceiveStarted(s) \/ ReceiveAnswer(s)
  BY DEF Receive
<1>2. ~Raised("raised") /\ s \in Slots /\ worker \in [Slots -> Workers]
  BY DEF Raised, IInv, TypeOK
<1>3. ready' = ready \ {s} /\ \E w : worker' = [worker EXCEPT ![s] = w]
  <2>1. CASE ReceiveClosed(s)
    BY <1>2, <2>1 DEF ReceiveClosed, Crashed, Restarted, Handles
  <2>2. CASE ReceiveStarted(s)
    BY <1>2, <2>2 DEF ReceiveStarted, Handles
  <2>3. CASE ReceiveAnswer(s)
    BY <1>2, <2>3
    DEF ReceiveAnswer, ReceiveResult, ReceiveException, ReceiveMemory, ReceiveGuard,
        Restarted, Handles
  <2>4. QED
    BY <1>1, <2>1, <2>2, <2>3
<1>4. Alive(s)' => Alive(s)
  <2>1. CASE ReceiveClosed(s)
    BY <1>2, <2>1, FreshWorkers DEF ReceiveClosed, Crashed, Restarted, Alive
  <2>2. CASE ReceiveStarted(s) \/ ReceiveAnswer(s)
    BY <2>2 DEF ReceiveStarted, ReceiveAnswer, Alive
  <2>3. QED
    BY <1>1, <2>1, <2>2
<1>5. QED
  BY <1>2, <1>3, <1>4

LEMMA ReadyNext == IInv /\ ReadyReadable /\ [Next]_vars => ReadyReadable'
<1> SUFFICES ASSUME IInv, ReadyReadable, [Next]_vars, pc' = "receive"
             PROVE  \A t \in ready' : Readable(t)'
  BY DEF ReadyReadable
<1>0. ready \subseteq Slots
  BY DEF IInv, TypeOK
<1>1. CASE Wait
  BY <1>1 DEF Wait, Readable
<1>2. CASE Receive
  BY <1>0, <1>2, ReceiveOnlyOne DEF ReadyReadable, Readable, Receive
<1>3. CASE \E s \in Slots : Process(s)
  <2>1. PICK s \in Slots : Process(s)
    BY <1>3
  <2>2. pc = "receive" /\ ready' = ready
    BY <2>1 DEF Process, Boots, Answers, Dies, ProcessStep
  <2>3. QED
    BY <1>0, <2>1, <2>2, ProcessKeepsReadable DEF ReadyReadable
<1>4. CASE Warm \/ Call \/ VerifyCall
  BY <1>4 DEF Warm, Call, VerifyCall
<1>5. CASE MakeRoom \/ Return \/ Loop \/ Sent \/ Through
  BY <1>5 DEF MakeRoom, Return, Loop, Sent, Through, Goes, Raised
<1>6. CASE WarmStarts \/ StartOne
  BY <1>6 DEF WarmStarts, StartOne, Starts, Goes, Raised
<1>7. CASE Send
  BY <1>7 DEF Send, Crashed, Restarted, Raised
<1>8. CASE \E s \in ready : TimedOut(s)
  BY <1>8 DEF TimedOut, Restarted, Raised, Handles
<1>9. CASE UNCHANGED vars
  BY <1>9 DEF vars, ReadyReadable, Readable
<1>10. QED
  BY <1>1, <1>2, <1>3, <1>4, <1>5, <1>6, <1>7, <1>8, <1>9 DEF Next, Host

(* Only a channel closed before an answer puts a batch back after a wait.  *)
LEMMA AgainStep ==
  ASSUME IInv, ReadyReadable, [Next]_vars,
         Len(pending') > Len(pending), pc \in {"receive", "timeouts"}
  PROVE  \E s \in Slots :
           /\ worker[s].proc = "gone" /\ worker[s].frame = NoFrame
           /\ worker[s].batch = Head(pending') /\ worker'[s] = NoWorker
<1>1. pending' # pending /\ ~Raised("raised")
  <2>1. Len(pending) \in Nat
    BY LenProperties DEF IInv, TypeOK
  <2>2. QED
    BY <2>1, EmptySeq DEF Raised
<1>2. Receive
  <2>1. ~(\E s \in Slots : Process(s)) /\ ~UNCHANGED vars
    BY <1>1 DEF Process, Boots, Answers, Dies, ProcessStep, vars
  <2>2. ~(\E s \in ready : TimedOut(s)) /\ ~Through
    BY <1>1 DEF TimedOut, Restarted, Through, Goes
  <2>3. QED
    BY <2>1, <2>2
    DEF Next, Host, Warm, Call, VerifyCall, Begins, MakeRoom, WarmStarts, Return, Loop,
        StartOne, Send, Sent, Wait
<1>3. PICK s \in ready : ReceiveClosed(s)
  BY <1>1, <1>2
  DEF Receive, ReceiveStarted, ReceiveAnswer, ReceiveResult, ReceiveException, ReceiveMemory,
      ReceiveGuard, Restarted
<1>4. /\ worker[s].frame = NoFrame /\ worker' = [worker EXCEPT ![s] = NoWorker]
      /\ pending' = IF worker[s].batch = 0 THEN pending ELSE <<worker[s].batch>> \o pending
  BY <1>1, <1>3 DEF ReceiveClosed, Crashed, Restarted
<1>5. s \in Slots /\ pending \in Seq(Batches) /\ worker[s].batch \in 0..MaxRequests
      /\ worker \in [Slots -> Workers]
  BY DEF IInv, TypeOK, Workers
<1>6. worker[s].proc = "gone"
  BY <1>2, <1>4 DEF Receive, ReadyReadable, Readable
<1>7. worker[s].batch = Head(pending')
  BY <1>1, <1>4, <1>5, PoolAssumption DEF Batches
<1>8. QED
  BY <1>4, <1>5, <1>6, <1>7

(* A batch runs again only because its worker exited without answering:    *)
(* none that timed out, raised or ran out of memory does.                  *)
THEOREM PoolRunsAgainOnlyAfterCrash == Spec => RunAgainOnlyAfterCrash
<1>1. Init => ReadyReadable
  BY DEF Init, ReadyReadable
<1>2. Spec => []ReadyReadable
  BY <1>1, Invariant, ReadyNext, PTL DEF Spec
<1>3. IInv /\ ReadyReadable /\ [Next]_vars =>
        [Len(pending') > Len(pending) /\ pc \in {"receive", "timeouts"}
           => \E s \in Slots :
                /\ worker[s].proc = "gone" /\ worker[s].frame = NoFrame
                /\ worker[s].batch = Head(pending') /\ worker'[s] = NoWorker]_vars
  BY AgainStep
<1>4. QED
  BY <1>2, <1>3, Invariant, PTL DEF Spec, RunAgainOnlyAfterCrash

-----------------------------------------------------------------------------
(* In a verify run no main worker comes up.                                *)
LEMMA NoMainStarts ==
  ASSUME IInv, [Next]_vars, op = "verify", pc # "between", pc' # "between",
         NEW r \in Main, ~Alive(r)
  PROVE  ~Alive(r)'
<1>0. /\ Verify \in Slots /\ Verify \notin Main /\ Main \subseteq Slots /\ ready \subseteq Slots
      /\ worker \in [Slots -> Workers]
  BY PoolAssumption DEF Verify, Main, Slots, IInv, TypeOK
<1>1. CASE MakeRoom
  BY <1>0, <1>1, FreshWorkers DEF MakeRoom, Alive
<1>2. CASE WarmStarts \/ StartOne
  <2>1. worker' = worker \/ worker' = [worker EXCEPT ![Verify] = NewWorker]
    BY <1>2 DEF WarmStarts, StartOne, Starts, FreeSlot, Goes, Raised
  <2>2. QED
    BY <1>0, <2>1 DEF Alive
<1>3. CASE Send
  <2>1. PICK s \in In("idle") : \E w : worker' = [worker EXCEPT ![s] = w]
    BY <1>3 DEF Send, Crashed, Restarted, Raised
  <2>2. s # r
    BY <1>0 DEF In, Group
  <2>3. QED
    BY <1>0, <2>1, <2>2 DEF Alive
<1>4. CASE Receive
  BY <1>0, <1>4, ReceiveOnlyOne DEF Alive
<1>5. CASE \E s \in ready : TimedOut(s)
  BY <1>0, <1>5, FreshWorkers DEF TimedOut, Restarted, Raised, Alive
<1>6. CASE \E s \in Slots : Process(s)
  <2>1. PICK s \in Slots : \E proc, frame : ProcessStep(s, proc, frame)
    BY <1>6 DEF Process, Boots, Answers, Dies
  <2>2. worker'[r].state = worker[r].state
    BY <1>0, <2>1 DEF ProcessStep, Workers
  <2>3. QED
    BY <2>2 DEF Alive
<1>7. CASE Loop \/ Sent \/ Wait \/ Through \/ UNCHANGED vars
  BY <1>7 DEF Loop, Sent, Wait, Through, Goes, Raised, vars, Alive
<1>8. QED
  BY <1>1, <1>2, <1>3, <1>4, <1>5, <1>6, <1>7
  DEF Next, Host, Warm, Call, VerifyCall, Begins, Return

(* With nobody in its group and batches to send, a pass has room to start. *)
LEMMA RoomWhenNobody ==
  ASSUME IInv, RoomToRun, pc = "start", Group = {}, pending # <<>>
  PROVE  Room /\ Len(pending) > Cardinality(In("idle")) + Cardinality(In("starting"))
<1> USE PoolAssumption
<1>0. /\ WorkersMax \in Nat \ {0} /\ limit \in 0..WorkersMax /\ limit > 0
      /\ Verify \in Slots /\ Verify \notin Main /\ Slots = Main \cup {Verify}
  BY DEF IInv, TypeOK, RoomToRun, Verify, Main, Slots
<1>1. Cardinality({}) = 0
  BY FS_EmptySet
<1>2. Cardinality(Live) < WorkersMax
  <2>1. CASE op = "verify"
    <3>1. PICK s \in Main : ~Alive(s)
      BY <2>1 DEF RoomToRun
    <3>2. Live \subseteq Main \ {s} /\ Live \subseteq Main /\ Live # Main
      BY <1>0, <2>1, <3>1 DEF Live, Group
    <3>3. IsFiniteSet(Main) /\ Cardinality(Main) = WorkersMax
      BY <1>0, FS_Interval DEF Main
    <3>4. /\ IsFiniteSet(Live) /\ Cardinality(Live) <= Cardinality(Main)
          /\ Cardinality(Live) # Cardinality(Main)
      BY <3>2, <3>3, FS_Subset
    <3>5. Cardinality(Live) \in Nat
      BY <3>4, FS_CardinalityType
    <3>6. QED
      BY <1>0, <3>3, <3>4, <3>5
  <2>2. CASE op # "verify"
    <3>1. Live = {}
      BY <1>0, <2>2 DEF Live, Group, IInv, GroupsApart
    <3>2. QED
      BY <1>0, <1>1, <3>1
  <2>3. QED
    BY <2>1, <2>2
<1>3. In("idle") = {} /\ In("starting") = {}
  BY DEF In
<1>4. Len(pending) \in Nat /\ Len(pending) > 0
  BY EmptySeq DEF IInv, TypeOK
<1>5. Room
  BY <1>0, <1>1, <1>2 DEF Room
<1>6. Cardinality(In("idle")) = 0 /\ Cardinality(In("starting")) = 0
  BY <1>1, <1>3
<1>7. QED
  BY <1>4, <1>5, <1>6

LEMMA RoomNext == IInv /\ RoomToRun /\ [Next]_vars => RoomToRun'
<1> SUFFICES ASSUME IInv, RoomToRun, [Next]_vars PROVE RoomToRun'
  OBVIOUS
<1>0. /\ WorkersMax \in Nat \ {0} /\ Verify \in Slots /\ Verify \notin Main
      /\ Main \subseteq Slots /\ Slots = Main \cup {Verify} /\ worker \in [Slots -> Workers]
  BY PoolAssumption DEF Verify, Main, Slots, IInv, TypeOK
<1>1. CASE Warm \/ Call \/ VerifyCall
  BY <1>0, <1>1 DEF Warm, Call, VerifyCall, Begins, RoomToRun
<1>2. CASE pc' = "between"
  BY <1>2 DEF RoomToRun
<1>3. CASE pc # "between" /\ pc' # "between"
  <2>1. op' = op /\ limit' = limit
    BY <1>3
    DEF Next, Host, Warm, Call, VerifyCall, Begins, MakeRoom, WarmStarts, Return, Loop,
        StartOne, Starts, Send, Sent, Wait, Through, TimedOut, Receive, ReceiveClosed,
        ReceiveStarted, ReceiveAnswer, ReceiveResult, ReceiveException, ReceiveMemory,
        ReceiveGuard, Crashed, Restarted, Goes, Raised, Process, Boots, Answers, Dies,
        ProcessStep, vars, callVars
  <2>2. (op' = "verify" /\ pc' # "room") => \E s \in Main : ~Alive(s)'
    <3>1. SUFFICES ASSUME op = "verify", pc' # "room" PROVE \E s \in Main : ~Alive(s)'
      BY <2>1
    <3>2. CASE pc = "room"
      <4>1. MakeRoom /\ worker' = worker /\ ~(Live # {} /\ Cardinality(Live) >= WorkersMax)
        BY <3>1, <3>2
        DEF Next, Host, Warm, Call, VerifyCall, Begins, MakeRoom, WarmStarts, Return, Loop,
            StartOne, Send, Sent, Wait, Through, TimedOut, Receive, Process, Boots, Answers,
            Dies, ProcessStep, vars
      <4>2. \E s \in Main : ~Alive(s)
        <5>1. SUFFICES ASSUME \A s \in Main : Alive(s) PROVE FALSE
          OBVIOUS
        <5>2. Main \subseteq Live /\ Live \subseteq Slots
          BY <1>0, <5>1 DEF Live
        <5>3. Cardinality(Main) = WorkersMax /\ IsFiniteSet(Slots)
          BY <1>0, FS_Interval DEF Main, Slots
        <5>4. IsFiniteSet(Live)
          BY <5>2, <5>3, FS_Subset
        <5>5. Cardinality(Main) <= Cardinality(Live) /\ Cardinality(Live) \in Nat
          BY <5>2, <5>4, FS_Subset, FS_CardinalityType
        <5>6. 1 \in Main
          BY <1>0 DEF Main
        <5>7. QED
          BY <1>0, <4>1, <5>2, <5>3, <5>5, <5>6
      <4>3. QED
        BY <4>1, <4>2 DEF Alive
    <3>3. CASE pc # "room"
      <4>1. PICK s \in Main : ~Alive(s)
        BY <1>3, <3>1, <3>3 DEF RoomToRun
      <4>2. QED
        BY <1>3, <3>1, <4>1, NoMainStarts
    <3>4. QED
      BY <3>2, <3>3
  <2>3. (pc' = "send" /\ pending' # <<>> /\ ~refused') => Group' # {}
    <3>1. SUFFICES ASSUME pc' = "send", pending' # <<>>, ~refused' PROVE Group' # {}
      OBVIOUS
    <3>2. CASE StartOne
      <4>1. worker' = worker /\ pending' = pending /\ pc = "start"
            /\ ~(Len(pending) > Cardinality(In("idle")) + Cardinality(In("starting")) /\ Room)
        BY <3>1, <3>2 DEF StartOne, Starts, Goes, Raised
      <4>2. Group # {}
        BY <3>1, <4>1, RoomWhenNobody
      <4>3. QED
        BY <2>1, <4>1, <4>2 DEF Group, Alive
    <3>3. CASE Send
      <4>1. PICK s \in In("idle") :
              worker' = [worker EXCEPT ![s] = [@ EXCEPT !.state = "busy", !.batch = Head(pending),
                                                      !.proc = "working", !.job = Head(pending)]]
        BY <3>1, <3>3 DEF Send, Crashed, Restarted, Raised
      <4>2. s \in Slots /\ s \in (IF op = "verify" THEN {Verify} ELSE Main)
        BY <1>0 DEF In, Group
      <4>3. worker'[s].state = "busy"
        BY <1>0, <4>1, <4>2 DEF Workers
      <4>4. QED
        BY <2>1, <4>2, <4>3 DEF Group, Alive
    <3>4. CASE \E s \in Slots : Process(s)
      <4>1. PICK s \in Slots : \E proc, frame : ProcessStep(s, proc, frame)
        BY <3>4 DEF Process, Boots, Answers, Dies
      <4>2. /\ \A t \in Slots : worker'[t].state = worker[t].state
            /\ UNCHANGED <<pc, pending, refused>>
        BY <1>0, <4>1 DEF ProcessStep, Workers
      <4>3. Group # {}
        BY <3>1, <4>2 DEF RoomToRun
      <4>4. QED
        BY <1>0, <2>1, <4>2, <4>3 DEF Group, Alive
    <3>5. CASE UNCHANGED vars
      BY <3>1, <3>5 DEF vars, RoomToRun, Group, Alive, callVars
    <3>6. QED
      BY <1>3, <3>1, <3>2, <3>3, <3>4, <3>5
      DEF Next, Host, Warm, Call, VerifyCall, Begins, MakeRoom, WarmStarts, Starts, Return,
          Loop, Sent, Wait, Through, TimedOut, Receive, ReceiveClosed, ReceiveStarted,
          ReceiveAnswer, ReceiveResult, ReceiveException, ReceiveMemory, ReceiveGuard, Crashed,
          Restarted, Handles, Goes, Raised
  <2>4. QED
    BY <1>3, <2>1, <2>2, <2>3 DEF RoomToRun
<1>4. CASE pc = "between" /\ pc' # "between" /\ ~(Warm \/ Call \/ VerifyCall)
  BY <1>4
  DEF Next, Host, MakeRoom, WarmStarts, Return, Loop, StartOne, Send, Sent, Wait, Through,
      TimedOut, Receive, Process, Boots, Answers, Dies, ProcessStep, vars
<1>5. QED
  BY <1>1, <1>2, <1>3, <1>4

(* The pool has batches and no one to send them to only after a send of    *)
(* that pass found its worker gone.                                        *)
THEOREM PoolStuckOnlyAfterLostIdle == Spec => StuckOnlyAfterLostIdle
<1>1. Init => RoomToRun
  BY DEF Init, RoomToRun
<1>2. Spec => []RoomToRun
  BY <1>1, Invariant, RoomNext, PTL DEF Spec
<1>3. IInv /\ RoomToRun /\ [Next]_vars => [(ended' = "stuck" /\ ended # "stuck") => refused]_vars
  <2> SUFFICES ASSUME IInv, RoomToRun, [Next]_vars, ended' = "stuck", ended # "stuck"
               PROVE  refused
    OBVIOUS
  <2>1. Sent /\ Raised("stuck") /\ Waiting = {} /\ pending # <<>> /\ pc = "send"
    BY DEF Next, Host, Warm, Call, VerifyCall, Begins, MakeRoom, WarmStarts, Return, Loop,
        StartOne, Starts, Send, Sent, Wait, Through, TimedOut, Receive, ReceiveClosed,
        ReceiveStarted, ReceiveAnswer, ReceiveResult, ReceiveException, ReceiveMemory,
        ReceiveGuard, Crashed, Restarted, Goes, Raised, Process, Boots, Answers, Dies,
        ProcessStep, vars
  <2>2. Group = {}
    BY <2>1 DEF Sent, Waiting
  <2>3. QED
    BY <2>1, <2>2 DEF RoomToRun, IInv, TypeOK
<1>4. QED
  BY <1>2, <1>3, Invariant, PTL DEF Spec, StuckOnlyAfterLostIdle

-----------------------------------------------------------------------------
(* The batches to be sent, less the first.                                 *)
LEMMA MembersTail ==
  ASSUME NEW seq \in Seq(Batches), seq # <<>>, Distinct(seq)
  PROVE  /\ Distinct(Tail(seq))
         /\ Members(Tail(seq)) = Members(seq) \ {Head(seq)}
         /\ Head(seq) \in Members(seq)
<1>1. Len(seq) \in Nat \ {0} /\ Len(Tail(seq)) = Len(seq) - 1 /\ Head(seq) = seq[1]
  BY EmptySeq, HeadTailProperties
<1>2. \A i \in 1..Len(Tail(seq)) : Tail(seq)[i] = seq[i + 1] /\ i + 1 \in 1..Len(seq)
  BY <1>1
<1>3. Distinct(Tail(seq))
  BY <1>1, <1>2 DEF Distinct
<1>4. Members(Tail(seq)) \subseteq Members(seq) \ {Head(seq)}
  BY <1>1, <1>2 DEF Members, Distinct
<1>5. Members(seq) \ {Head(seq)} \subseteq Members(Tail(seq))
  <2>1. SUFFICES ASSUME NEW j \in 1..Len(seq), seq[j] # Head(seq)
                 PROVE  seq[j] \in Members(Tail(seq))
    BY DEF Members
  <2>2. j - 1 \in 1..Len(Tail(seq)) /\ Tail(seq)[j - 1] = seq[j]
    BY <1>1, <1>2, <2>1
  <2>3. QED
    BY <2>2 DEF Members
<1>6. Head(seq) \in Members(seq)
  <2>1. 1 \in 1..Len(seq)
    BY <1>1
  <2>2. QED
    BY <1>1, <2>1 DEF Members
<1>7. QED
  BY <1>3, <1>4, <1>5, <1>6

(* One more before them.                                                   *)
LEMMA MembersAgain ==
  ASSUME NEW seq \in Seq(Batches), NEW b \in Batches, Distinct(seq), b \notin Members(seq)
  PROVE  Distinct(<<b>> \o seq) /\ Members(<<b>> \o seq) = Members(seq) \cup {b}
<1> DEFINE more == <<b>> \o seq
<1>1. /\ Len(seq) \in Nat /\ Len(more) = Len(seq) + 1 /\ more[1] = b
      /\ \A i \in 1..Len(seq) : more[i + 1] = seq[i]
  OBVIOUS
<1>2. \A j \in 1..Len(more) : j = 1 \/ (j - 1 \in 1..Len(seq) /\ more[j] = seq[j - 1])
  BY <1>1
<1> HIDE DEF more
<1>3. Distinct(more)
  <2>1. SUFFICES ASSUME NEW i \in 1..Len(more), NEW j \in 1..Len(more), more[i] = more[j]
                 PROVE  i = j
    BY DEF Distinct
  <2>2. \A k \in 1..Len(seq) : seq[k] # b
    BY DEF Members
  <2>3. CASE i = 1 \/ j = 1
    BY <1>1, <1>2, <2>1, <2>2, <2>3
  <2>4. CASE i # 1 /\ j # 1
    <3>1. i - 1 \in 1..Len(seq) /\ j - 1 \in 1..Len(seq) /\ seq[i - 1] = seq[j - 1]
      BY <1>2, <2>1, <2>4
    <3>2. i - 1 = j - 1
      BY <3>1 DEF Distinct
    <3>3. QED
      BY <3>2
  <2>5. QED
    BY <2>3, <2>4
<1>4. Members(more) \subseteq Members(seq) \cup {b}
  BY <1>1, <1>2 DEF Members
<1>5. b \in Members(more)
  BY <1>1 DEF Members
<1>6. Members(seq) \subseteq Members(more)
  <2>1. SUFFICES ASSUME NEW i \in 1..Len(seq) PROVE seq[i] \in Members(more)
    BY DEF Members
  <2>2. i + 1 \in 1..Len(more) /\ more[i + 1] = seq[i]
    BY <1>1
  <2>3. QED
    BY <2>2 DEF Members
<1>7. QED
  BY <1>3, <1>4, <1>5, <1>6 DEF more

(* Taking the first and putting it back changes nothing.                   *)
LEMMA MembersBack ==
  ASSUME NEW seq \in Seq(Batches), seq # <<>>, Distinct(seq)
  PROVE  /\ Distinct(<<Head(seq)>> \o Tail(seq))
         /\ Members(<<Head(seq)>> \o Tail(seq)) = Members(seq)
<1>1. Head(seq) \in Batches /\ Tail(seq) \in Seq(Batches)
  BY HeadTailProperties
<1>2. Distinct(Tail(seq)) /\ Members(Tail(seq)) = Members(seq) \ {Head(seq)}
      /\ Head(seq) \in Members(seq)
  BY MembersTail
<1>3. Head(seq) \notin Members(Tail(seq)) /\ Members(Tail(seq)) \cup {Head(seq)} = Members(seq)
  BY <1>2
<1> DEFINE b == Head(seq)
           rest == Tail(seq)
<1>4. b \in Batches /\ rest \in Seq(Batches) /\ Distinct(rest) /\ b \notin Members(rest)
  BY <1>1, <1>2, <1>3
<1> HIDE DEF b, rest
<1>5. Distinct(<<b>> \o rest) /\ Members(<<b>> \o rest) = Members(rest) \cup {b}
  BY <1>4, MembersAgain
<1>6. QED
  BY <1>3, <1>5 DEF b, rest

(* The first request of a batch, and the batch of a request.               *)
LEMMA FirstOfBatch ==
  ASSUME NEW n \in Nat, NEW w \in Nat \ {0}, NEW b \in 1..((n + w - 1) \div w)
  PROVE  \E i \in 1..n : ((i - 1) \div w) + 1 = b
<1>1. PICK q \in Int, r \in 0..(w - 1) : n + w - 1 = w * q + r /\ q = (n + w - 1) \div w
  OBVIOUS
<1> DEFINE i == w * (b - 1) + 1
<1>2. w * (b - 1) >= 0
  OBVIOUS
<1>3. w * (b - 1) <= w * (q - 1)
  BY <1>1
<1>4. w * (q - 1) = w * q - w
  BY <1>1
<1>5. i \in 1..n
  BY <1>1, <1>2, <1>3, <1>4
<1>6. ((i - 1) \div w) + 1 = b
  <2>1. i - 1 = w * (b - 1)
    OBVIOUS
  <2>2. (w * (b - 1)) \div w = b - 1
    OBVIOUS
  <2>3. QED
    BY <2>1, <2>2
<1> HIDE DEF i
<1>7. WITNESS i \in 1..n
<1>8. QED
  BY <1>6

LEMMA BatchOfRequest ==
  ASSUME NEW n \in Nat, NEW w \in Nat \ {0}, NEW i \in 1..n
  PROVE  ((i - 1) \div w) + 1 \in 1..((n + w - 1) \div w)
<1>1. PICK q \in Int, r \in 0..(w - 1) : n + w - 1 = w * q + r /\ q = (n + w - 1) \div w
  OBVIOUS
<1>2. PICK p \in Int, t \in 0..(w - 1) : i - 1 = w * p + t /\ p = (i - 1) \div w
  OBVIOUS
<1>3. p >= 0
  BY <1>2
<1>4. p + 1 <= q
  <2>1. SUFFICES ASSUME p >= q PROVE FALSE
    BY <1>1, <1>2
  <2>2. w * p >= w * q
    BY <1>1, <1>2, <2>1
  <2>3. QED
    BY <1>1, <1>2, <2>2
<1>5. QED
  BY <1>1, <1>2, <1>3, <1>4

-----------------------------------------------------------------------------
(* A call begins with each of its batches to be sent.                      *)
LEMMA HandedHeld ==
  ASSUME NEW n \in 0..MaxRequests, NEW w \in 1..BatchSize, Handed(n, w),
         \A s \in Slots : ~Busy(s)'
  PROVE  EachHeldOnce'
<1> USE PoolAssumption
<1> DEFINE N == (n + w - 1) \div w
<1>1. n \in Nat /\ w \in Nat \ {0} /\ N \in Nat
  BY BatchesFit
<1> HIDE DEF N
<1>2. /\ pending' = [b \in 1..N |-> b] /\ size' = w
      /\ outcomes' = [i \in 1..n |-> Unsettled] /\ DOMAIN outcomes' = 1..n
  BY DEF Handed, N
<1>3. Len(pending') = N /\ \A b \in 1..N : pending'[b] = b
  BY <1>1, <1>2
<1>4. Distinct(pending)' /\ Members(pending)' = 1..N
  BY <1>3 DEF Distinct, Members
<1>5. ASSUME NEW b \in 1..N PROVE Whole(b)'
  <2>0. b \in 1..((n + w - 1) \div w)
    BY DEF N
  <2>1. \E i \in 1..n : ((i - 1) \div w) + 1 = b
    BY ONLY <1>1, <2>0, FirstOfBatch, Zenon
  <2>2. QED
    BY <1>2, <2>1 DEF Whole, Positions
<1>6. \A i \in 1..n : ((i - 1) \div w) + 1 \in 1..N
  BY ONLY <1>1, BatchOfRequest DEF N
<1>7. QED
  BY <1>2, <1>4, <1>5, <1>6 DEF EachHeldOnce, BatchOf

(* Slots change, but none that is busy, and no batch moves.                *)
LEMMA StillHeld ==
  ASSUME EachHeldOnce, UNCHANGED <<size, outcomes>>,
         Distinct(pending)', Members(pending)' = Members(pending),
         \A s \in Slots : Busy(s)' <=> Busy(s),
         \A s \in Slots : Busy(s) => worker'[s].batch = worker[s].batch
  PROVE  EachHeldOnce'
<1>1. \A b : Whole(b)' <=> Whole(b)
  BY DEF Whole, Positions
<1>2. \A i : BatchOf(i)' = BatchOf(i)
  BY DEF BatchOf
<1>3. (\A b \in Members(pending) : Whole(b))'
  BY <1>1 DEF EachHeldOnce
<1>4. (\A s \in Slots : Busy(s) => Whole(worker[s].batch) /\ worker[s].batch \notin Members(pending))'
  BY <1>1 DEF EachHeldOnce
<1>5. (\A s, t \in Slots : (Busy(s) /\ Busy(t) /\ worker[s].batch = worker[t].batch) => s = t)'
  BY DEF EachHeldOnce
<1>6. (\A i \in DOMAIN outcomes :
         outcomes[i] = Unsettled =>
           \/ BatchOf(i) \in Members(pending)
           \/ \E s \in Slots : Busy(s) /\ worker[s].batch = BatchOf(i))'
  BY <1>2 DEF EachHeldOnce
<1>7. QED
  BY <1>3, <1>4, <1>5, <1>6 DEF EachHeldOnce

(* The first batch goes to a worker that has none.                         *)
LEMMA SentHeld ==
  ASSUME EachHeldOnce, UNCHANGED <<size, outcomes>>, pending \in Seq(Batches), pending # <<>>,
         pending' = Tail(pending), NEW t \in Slots, ~Busy(t), Busy(t)',
         worker'[t].batch = Head(pending),
         \A s \in Slots \ {t} : worker'[s] = worker[s]
  PROVE  EachHeldOnce'
<1> DEFINE b == Head(pending)
<1>1. /\ Distinct(pending)' /\ Members(pending)' = Members(pending) \ {b}
      /\ b \in Members(pending)
  BY MembersTail DEF EachHeldOnce
<1> HIDE DEF b
<1>2. \A c : Whole(c)' <=> Whole(c)
  BY DEF Whole, Positions
<1>3. \A i : BatchOf(i)' = BatchOf(i)
  BY DEF BatchOf
<1>4. worker'[t].batch = b /\ \A s \in Slots \ {t} : Busy(s)' <=> Busy(s)
  BY DEF b, Busy
<1>5. (\A c \in Members(pending) : Whole(c))'
  BY <1>1, <1>2 DEF EachHeldOnce
<1>6. (\A s \in Slots : Busy(s) => Whole(worker[s].batch) /\ worker[s].batch \notin Members(pending))'
  BY <1>1, <1>2, <1>4 DEF EachHeldOnce
<1>7. (\A s, r \in Slots : (Busy(s) /\ Busy(r) /\ worker[s].batch = worker[r].batch) => s = r)'
  BY <1>1, <1>4 DEF EachHeldOnce
<1>8. (\A i \in DOMAIN outcomes :
         outcomes[i] = Unsettled =>
           \/ BatchOf(i) \in Members(pending)
           \/ \E s \in Slots : Busy(s) /\ worker[s].batch = BatchOf(i))'
  BY <1>1, <1>3, <1>4 DEF EachHeldOnce
<1>9. QED
  BY <1>1, <1>5, <1>6, <1>7, <1>8 DEF EachHeldOnce

(* The batch of a worker that crashed is to be sent again.                 *)
LEMMA CrashedHeld ==
  ASSUME EachHeldOnce, UNCHANGED <<size, outcomes>>, pending \in Seq(Batches),
         NEW t \in Slots, Busy(t), worker[t].batch \in Batches,
         pending' = <<worker[t].batch>> \o pending, ~Busy(t)',
         \A s \in Slots \ {t} : worker'[s] = worker[s]
  PROVE  EachHeldOnce'
<1> DEFINE b == worker[t].batch
<1>1. /\ Distinct(pending)' /\ Members(pending)' = Members(pending) \cup {b}
      /\ b \notin Members(pending) /\ Whole(b)
  BY MembersAgain DEF EachHeldOnce
<1>2. \A s \in Slots \ {t} : (Busy(s)' <=> Busy(s)) /\ (Busy(s) => worker[s].batch # b)
  BY DEF EachHeldOnce, Busy
<1>3. \A c : Whole(c)' <=> Whole(c)
  BY DEF Whole, Positions
<1>4. \A i : BatchOf(i)' = BatchOf(i)
  BY DEF BatchOf
<1>5. (\A c \in Members(pending) : Whole(c))'
  BY <1>1, <1>3 DEF EachHeldOnce
<1>6. (\A s \in Slots : Busy(s) => Whole(worker[s].batch) /\ worker[s].batch \notin Members(pending))'
  BY <1>1, <1>2, <1>3 DEF EachHeldOnce
<1>7. (\A s, r \in Slots : (Busy(s) /\ Busy(r) /\ worker[s].batch = worker[r].batch) => s = r)'
  BY <1>2 DEF EachHeldOnce
<1>8. (\A i \in DOMAIN outcomes :
         outcomes[i] = Unsettled =>
           \/ BatchOf(i) \in Members(pending)
           \/ \E s \in Slots : Busy(s) /\ worker[s].batch = BatchOf(i))'
  BY <1>1, <1>2, <1>4 DEF EachHeldOnce
<1>9. QED
  BY <1>1, <1>5, <1>6, <1>7, <1>8 DEF EachHeldOnce

(* The batch of a worker that answered, or was late, gets its outcomes.    *)
LEMMA SettledHeld ==
  ASSUME EachHeldOnce, UNCHANGED <<size, pending>>,
         NEW t \in Slots, Busy(t), NEW kind \in {"answered", "failed"},
         outcomes' = Settled(worker[t].batch, kind), ~Busy(t)',
         \A s \in Slots \ {t} : worker'[s] = worker[s]
  PROVE  EachHeldOnce'
<1> DEFINE b == worker[t].batch
<1>0. kind # Unsettled
  BY PoolAssumption
<1>1. /\ Whole(b) /\ b \notin Members(pending)
      /\ Distinct(pending)' /\ Members(pending)' = Members(pending)
  BY DEF EachHeldOnce
<1>2. \A s \in Slots \ {t} : (Busy(s)' <=> Busy(s)) /\ (Busy(s) => worker[s].batch # b)
  BY DEF EachHeldOnce, Busy
<1>3. /\ DOMAIN outcomes' = DOMAIN outcomes
      /\ \A i \in DOMAIN outcomes : outcomes'[i] = IF BatchOf(i) = b THEN kind ELSE outcomes[i]
  BY DEF Settled, Positions, BatchOf
<1>4. \A i : BatchOf(i)' = BatchOf(i)
  BY DEF BatchOf
<1>5. \A c : (c # b /\ Whole(c)) => Whole(c)'
  <2>1. \A c : Positions(c)' = Positions(c) /\ Positions(c) = {i \in DOMAIN outcomes : BatchOf(i) = c}
    BY <1>3 DEF Positions, BatchOf
  <2>2. QED
    BY <1>3, <2>1 DEF Whole
<1>6. (\A c \in Members(pending) : Whole(c))'
  BY <1>1, <1>5 DEF EachHeldOnce
<1>7. (\A s \in Slots : Busy(s) => Whole(worker[s].batch) /\ worker[s].batch \notin Members(pending))'
  BY <1>1, <1>2, <1>5 DEF EachHeldOnce
<1>8. (\A s, r \in Slots : (Busy(s) /\ Busy(r) /\ worker[s].batch = worker[r].batch) => s = r)'
  BY <1>2 DEF EachHeldOnce
<1>9. (\A i \in DOMAIN outcomes :
         outcomes[i] = Unsettled =>
           \/ BatchOf(i) \in Members(pending)
           \/ \E s \in Slots : Busy(s) /\ worker[s].batch = BatchOf(i))'
  BY <1>0, <1>1, <1>2, <1>3, <1>4 DEF EachHeldOnce
<1>10. QED
  BY <1>1, <1>6, <1>7, <1>8, <1>9 DEF EachHeldOnce

-----------------------------------------------------------------------------
(* The slot a start takes is free.                                         *)
LEMMA FreeSlotIsFree ==
  ASSUME IInv, RoomToRun, pc # "between", Room
  PROVE  ~Alive(FreeSlot)
<1> USE PoolAssumption
<1>1. CASE op = "verify"
  <2>1. Cardinality(Group) < 1
    BY <1>1 DEF RoomToRun, Room
  <2>2. SUFFICES ASSUME Alive(Verify) PROVE FALSE
    BY <1>1 DEF FreeSlot
  <2>3. Group = {Verify}
    BY <1>1, <2>2 DEF Group
  <2>4. Cardinality({Verify}) = 1
    BY FS_Singleton
  <2>5. QED
    BY <2>1, <2>3, <2>4
<1>2. CASE op # "verify"
  <2>1. \E s \in Main : ~Alive(s)
    <3>1. SUFFICES ASSUME \A s \in Main : Alive(s) PROVE FALSE
      OBVIOUS
    <3>2. Group = 1..WorkersMax
      BY <1>2, <3>1 DEF Group, Main
    <3>3. Cardinality(Group) = WorkersMax
      BY <3>2, FS_Interval
    <3>4. QED
      BY <3>3 DEF Room, IInv, TypeOK
  <2>2. QED
    BY <1>2, <2>1 DEF FreeSlot
<1>3. QED
  BY <1>1, <1>2

(* Batch 0 is nobody's: no request is of it.                               *)
LEMMA SettledNobody ==
  ASSUME TypeOK, NEW kind PROVE Settled(0, kind) = outcomes
<1>1. PICK n \in 0..MaxRequests : outcomes \in [1..n -> {Unsettled, "answered", "failed"}]
  BY DEF TypeOK
<1>2. n \in Nat /\ size \in Nat \ {0}
  BY PoolAssumption DEF TypeOK
<1>3. ASSUME NEW i \in 1..n PROVE ((i - 1) \div size) + 1 # 0
  <2>1. (i - 1) \div size >= 0
    BY <1>2
  <2>2. (i - 1) \div size \in Int
    BY <1>2
  <2>3. QED
    BY <2>1, <2>2
<1>4. Positions(0) = {}
  BY <1>1, <1>3 DEF Positions
<1>5. QED
  BY <1>1, <1>4 DEF Settled

(* A worker that is handled and was not busy: no batch moves.              *)
LEMMA IdleHandled ==
  ASSUME IInv, EachHeldOnce, UNCHANGED <<size, outcomes, pending>>, NEW s \in Slots, ~Busy(s),
         NEW w, worker' = [worker EXCEPT ![s] = w], w.state # "busy"
  PROVE  EachHeldOnce'
<1>1. worker \in [Slots -> Workers] /\ Distinct(pending)
  BY DEF IInv, TypeOK, EachHeldOnce
<1>2. \A t \in Slots : worker'[t] = IF t = s THEN w ELSE worker[t]
  BY <1>1
<1>3. Distinct(pending)' /\ Members(pending)' = Members(pending)
  BY <1>1
<1>4. \A t \in Slots : (Busy(t)' <=> Busy(t)) /\ (Busy(t) => worker'[t].batch = worker[t].batch)
  BY <1>2 DEF Busy
<1>5. QED
  BY <1>3, <1>4, StillHeld

LEMMA ReceiveHeld ==
  ASSUME IInv, EachHeldOnce, pc' # "between", NEW s \in ready,
         ReceiveClosed(s) \/ ReceiveStarted(s) \/ ReceiveAnswer(s) \/ TimedOut(s)
  PROVE  EachHeldOnce'
<1>0. /\ s \in Slots /\ worker[s] \in Workers /\ WorkerRight(worker[s])
      /\ worker \in [Slots -> Workers] /\ pending \in Seq(Batches)
  BY DEF IInv, TypeOK
<1>1. ~Raised("raised")
  BY DEF Raised
<1>2. CASE ReceiveClosed(s)
  <2>1. /\ worker' = [worker EXCEPT ![s] = NoWorker] /\ UNCHANGED <<size, outcomes>>
        /\ pending' = IF worker[s].batch = 0 THEN pending ELSE <<worker[s].batch>> \o pending
    BY <1>1, <1>2 DEF ReceiveClosed, Crashed, Restarted, callVars
  <2>2. CASE Busy(s)
    <3>1. worker[s].batch # 0 /\ worker[s].batch \in Batches
      BY <1>0, <2>2, PoolAssumption DEF Busy, WorkerRight, Workers, Batches
    <3>2. ~Busy(s)' /\ \A t \in Slots \ {s} : worker'[t] = worker[t]
      BY <1>0, <2>1, FreshWorkers DEF Busy
    <3>3. QED
      BY <1>0, <2>1, <2>2, <3>1, <3>2, CrashedHeld
  <2>3. CASE ~Busy(s)
    <3>1. worker[s].batch = 0
      BY <1>0, <2>3 DEF Busy, WorkerRight
    <3>2. QED
      BY <1>0, <2>1, <2>3, <3>1, FreshWorkers, IdleHandled
  <2>4. QED
    BY <2>2, <2>3
<1>3. CASE ReceiveStarted(s)
  <2> DEFINE w == [worker[s] EXCEPT !.state = "idle", !.frame = NoFrame]
  <2>1. /\ worker' = [worker EXCEPT ![s] = w] /\ UNCHANGED <<size, outcomes, pending>>
        /\ ~Busy(s)
    BY <1>1, <1>3 DEF ReceiveStarted, callVars, Busy
  <2>2. w.state # "busy"
    BY <1>0 DEF Workers
  <2> HIDE DEF w
  <2>3. QED
    BY <1>0, <2>1, <2>2, IdleHandled
<1>4. CASE ReceiveAnswer(s)
  <2> DEFINE w == [worker[s] EXCEPT !.state = "idle", !.batch = 0, !.frame = NoFrame]
  <2>1. /\ \/ worker' = [worker EXCEPT ![s] = w]
           \/ worker' = [worker EXCEPT ![s] = NoWorker]
        /\ \E kind \in {"answered", "failed"} : outcomes' = Settled(worker[s].batch, kind)
        /\ UNCHANGED <<size, pending>>
    <3>1. CASE ReceiveResult(s)
      BY <1>1, <3>1 DEF ReceiveResult, callVars
    <3>2. CASE ReceiveException(s)
      BY <3>2 DEF ReceiveException, callVars
    <3>3. CASE ReceiveMemory(s)
      BY <1>1, <3>3 DEF ReceiveMemory, Restarted, callVars
    <3>4. QED
      BY <1>1, <1>4, <3>1, <3>2, <3>3 DEF ReceiveAnswer, ReceiveGuard
  <2>2. w.state = "idle"
    BY <1>0 DEF Workers
  <2> HIDE DEF w
  <2>3. Busy(s) /\ ~Busy(s)' /\ \A t \in Slots \ {s} : worker'[t] = worker[t]
    BY <1>0, <1>4, <2>1, <2>2, FreshWorkers DEF ReceiveAnswer, Busy
  <2>4. QED
    BY <1>0, <2>1, <2>3, SettledHeld
<1>5. CASE TimedOut(s)
  <2>1. /\ worker' = [worker EXCEPT ![s] = NoWorker] /\ UNCHANGED <<size, pending>>
        /\ outcomes' = Settled(worker[s].batch, "failed")
    BY <1>1, <1>5 DEF TimedOut, Restarted, callVars
  <2>2. CASE Busy(s)
    <3>1. ~Busy(s)' /\ \A t \in Slots \ {s} : worker'[t] = worker[t]
      BY <1>0, <2>1, FreshWorkers DEF Busy
    <3>2. QED
      BY <1>0, <2>1, <2>2, <3>1, SettledHeld
  <2>3. CASE ~Busy(s)
    <3>1. outcomes' = outcomes
      BY <1>0, <2>1, <2>3, SettledNobody DEF Busy, WorkerRight, IInv
    <3>2. QED
      BY <1>0, <2>1, <2>3, <3>1, FreshWorkers, IdleHandled
  <2>4. QED
    BY <2>2, <2>3
<1>6. QED
  BY <1>2, <1>3, <1>4, <1>5

(* Every step keeps each batch in one place, until it is settled.          *)
LEMMA HeldNext == IInv /\ RoomToRun /\ HeldInv /\ [Next]_vars => HeldInv'
<1> SUFFICES ASSUME IInv, RoomToRun, HeldInv, [Next]_vars PROVE HeldInv'
  OBVIOUS
<1>0. /\ worker \in [Slots -> Workers] /\ ready \subseteq Slots /\ pending \in Seq(Batches)
      /\ \A s \in Slots : WorkerRight(worker[s])
      /\ Main \subseteq Slots /\ Verify \in Slots /\ Slots = Main \cup {Verify}
  BY PoolAssumption DEF IInv, TypeOK, Verify, Main, Slots
<1>1. pc = "between" => \A s \in Slots : ~Busy(s)
  BY <1>0 DEF IInv, PoolAtRest, Alive, Busy
<1>2. CASE pc' = "between"
  BY <1>2 DEF HeldInv, NobodyIsBusy
<1>3. CASE Warm \/ Call \/ VerifyCall
  <2>1. \A s \in Slots : ~Busy(s)'
    BY <1>1, <1>3 DEF Warm, Call, VerifyCall, Begins, Busy
  <2>2. PICK n \in 0..MaxRequests, w \in 1..BatchSize : Handed(n, w)
    <3>1. CASE Warm
      <4>1. (0 + 1 - 1) \div 1 = 0 /\ 1 \in 1..BatchSize /\ 0 \in 0..MaxRequests
        BY PoolAssumption
      <4>2. outcomes' = [i \in 1..0 |-> Unsettled] /\ pending' = [b \in 1..0 |-> b]
        BY <3>1 DEF Warm
      <4>3. Handed(0, 1)
        BY <3>1, <4>1, <4>2 DEF Warm, Handed
      <4>4. QED
        BY <4>1, <4>3
    <3>2. CASE Call \/ VerifyCall
      BY <3>2, PoolAssumption DEF Call, VerifyCall
    <3>3. QED
      BY <1>3, <3>1, <3>2
  <2>3. QED
    BY <2>1, <2>2, HandedHeld DEF HeldInv, NobodyIsBusy
<1>4. CASE Host /\ pc' # "between"
  <2>1. pc # "between" /\ EachHeldOnce /\ ~Raised("raised")
    BY <1>4
    DEF HeldInv, Host, MakeRoom, WarmStarts, Return, Loop, StartOne, Send, Sent, Wait, Through,
        TimedOut, Receive, Raised
  <2>2. CASE MakeRoom
    <3>1. pc = "room" /\ \A s \in Slots : ~Busy(s)
      BY <2>2 DEF MakeRoom, HeldInv, NobodyIsBusy
    <3>2. \A s \in Slots : ~Busy(s)'
      BY <1>0, <2>2, <3>1, FreshWorkers DEF MakeRoom, Busy
    <3>3. Distinct(pending)' /\ Members(pending)' = Members(pending) /\ UNCHANGED <<size, outcomes>>
      BY <2>1, <2>2 DEF MakeRoom, EachHeldOnce, callVars
    <3>4. EachHeldOnce'
      BY <2>1, <3>1, <3>2, <3>3, StillHeld
    <3>5. QED
      BY <3>2, <3>4 DEF HeldInv, NobodyIsBusy
  <2>3. CASE WarmStarts \/ StartOne
    <3>1. UNCHANGED <<size, outcomes, pending>> /\ pc' # "room"
      BY <2>1, <2>3 DEF WarmStarts, StartOne, Starts, Goes, callVars
    <3>2. CASE worker' = worker
      BY <2>1, <3>1, <3>2, StillHeld DEF EachHeldOnce, HeldInv, NobodyIsBusy, Busy
    <3>3. CASE Room /\ worker' = [worker EXCEPT ![FreeSlot] = NewWorker]
      <4>1. ~Alive(FreeSlot) /\ FreeSlot \in Slots
        BY <1>0, <2>1, <3>3, FreeSlotIsFree, FreeSlotInGroup
      <4>2. EachHeldOnce'
        BY <2>1, <3>1, <3>3, <4>1, FreshWorkers, IdleHandled DEF Alive, Busy
      <4>3. QED
        BY <3>1, <4>2 DEF HeldInv, NobodyIsBusy
    <3>4. QED
      BY <2>1, <2>3, <3>2, <3>3 DEF WarmStarts, StartOne, Starts, Goes
  <2>4. CASE Send
    <3>1. PICK s \in In("idle") :
            \/ /\ worker' = [worker EXCEPT ![s] = NoWorker]
               /\ pending' = IF Head(pending) = 0 THEN Tail(pending)
                             ELSE <<Head(pending)>> \o Tail(pending)
            \/ /\ worker' = [worker EXCEPT ![s] =
                     [worker[s] EXCEPT !.state = "busy", !.batch = Head(pending),
                                       !.proc = "working", !.job = Head(pending)]]
               /\ pending' = Tail(pending)
      BY <2>1, <2>4 DEF Send, Crashed, Restarted
    <3>2. /\ UNCHANGED <<size, outcomes>> /\ pc' # "room" /\ pending # <<>>
          /\ s \in Slots /\ ~Busy(s)
      BY <1>0, <2>1, <2>4 DEF Send, Crashed, Restarted, callVars, In, Group, Busy
    <3>3. CASE worker' = [worker EXCEPT ![s] = NoWorker] /\ pending' # Tail(pending)
      <4>1. pending' = <<Head(pending)>> \o Tail(pending)
        BY <3>1, <3>3
      <4>2. Distinct(pending)' /\ Members(pending)' = Members(pending)
        BY <1>0, <2>1, <3>2, <4>1, MembersBack DEF EachHeldOnce
      <4>3. /\ \A t \in Slots : Busy(t)' <=> Busy(t)
            /\ \A t \in Slots : Busy(t) => worker'[t].batch = worker[t].batch
        BY <1>0, <3>2, <3>3, FreshWorkers DEF Busy
      <4>4. QED
        BY <2>1, <3>2, <4>2, <4>3, StillHeld DEF HeldInv, NobodyIsBusy
    <3>4. CASE /\ worker' = [worker EXCEPT ![s] =
                    [worker[s] EXCEPT !.state = "busy", !.batch = Head(pending),
                                      !.proc = "working", !.job = Head(pending)]]
               /\ pending' = Tail(pending)
      <4>1. /\ Busy(s)' /\ worker'[s].batch = Head(pending)
            /\ \A t \in Slots \ {s} : worker'[t] = worker[t]
        BY <1>0, <3>2, <3>4 DEF Busy, Workers
      <4>2. EachHeldOnce'
        BY <1>0, <2>1, <3>2, <3>4, <4>1, SentHeld
      <4>3. QED
        BY <3>2, <4>2 DEF HeldInv, NobodyIsBusy
    <3>5. Head(pending) # 0 /\ <<Head(pending)>> \o Tail(pending) # Tail(pending)
      BY <1>0, <3>2, HeadTailProperties, PoolAssumption DEF Batches
    <3>6. QED
      BY <3>1, <3>3, <3>4, <3>5
  <2>5. CASE Loop \/ Sent \/ Wait \/ Through
    <3>1. UNCHANGED <<size, outcomes, pending, worker>> /\ pc' # "room"
      BY <1>4, <2>5 DEF Loop, Sent, Wait, Through, Goes, Raised, callVars
    <3>2. QED
      BY <2>1, <3>1, StillHeld DEF EachHeldOnce, HeldInv, NobodyIsBusy, Busy
  <2>6. CASE Receive \/ \E s \in ready : TimedOut(s)
    <3>1. EachHeldOnce'
      BY <1>4, <2>1, <2>6, ReceiveHeld DEF Receive
    <3>2. pc' = pc /\ pc # "room"
      BY <1>4, <2>1, <2>6
      DEF Receive, TimedOut, ReceiveClosed, ReceiveStarted, ReceiveAnswer, ReceiveResult,
          ReceiveException, ReceiveMemory, ReceiveGuard, Crashed, Restarted, Handles
    <3>3. QED
      BY <3>1, <3>2 DEF HeldInv, NobodyIsBusy
  <2>7. QED
    BY <1>4, <2>2, <2>3, <2>4, <2>5, <2>6 DEF Host, Return
<1>5. CASE \E s \in Slots : Process(s)
  <2>1. PICK s \in Slots : \E proc, frame : ProcessStep(s, proc, frame)
    BY <1>5 DEF Process, Boots, Answers, Dies
  <2>2. /\ \A t \in Slots : Busy(t)' <=> Busy(t)
        /\ \A t \in Slots : worker'[t].batch = worker[t].batch
        /\ UNCHANGED <<pc, size, outcomes, pending>>
    BY <1>0, <2>1 DEF ProcessStep, Workers, Busy, callVars
  <2>3. EachHeldOnce => EachHeldOnce'
    BY <2>2, StillHeld DEF EachHeldOnce
  <2>4. QED
    BY <2>2, <2>3 DEF HeldInv, NobodyIsBusy
<1>6. CASE UNCHANGED vars
  <2>1. EachHeldOnce => EachHeldOnce'
    BY <1>6, StillHeld DEF EachHeldOnce, vars, callVars, Busy
  <2>2. QED
    BY <1>6, <2>1 DEF HeldInv, NobodyIsBusy, vars, Busy
<1>7. QED
  BY <1>2, <1>3, <1>4, <1>5, <1>6 DEF Next

LEMMA HeldInvariant == Spec => [](IInv /\ RoomToRun /\ HeldInv)
<1>1. Init => RoomToRun /\ HeldInv
  BY DEF Init, RoomToRun, HeldInv, NobodyIsBusy
<1>2. QED
  BY <1>1, InitInv, NextInv, RoomNext, HeldNext, PTL DEF Spec

(* Until its requests have their outcomes, a batch of the running call is  *)
(* to be sent or with one worker, whatever crashed or was late meanwhile.  *)
THEOREM PoolHoldsEachBatchOnce == Spec => []EachBatchOnce
<1>1. IInv /\ HeldInv => EachBatchOnce
  <2> SUFFICES ASSUME IInv, HeldInv, pc # "between", NEW b \in 1..NumBatches
               PROVE  IF \E i \in Positions(b) : outcomes[i] = Unsettled
                        THEN Count(b) = 1 /\ \A i \in Positions(b) : outcomes[i] = Unsettled
                        ELSE Count(b) = 0
    BY DEF EachBatchOnce
  <2> DEFINE P == {i \in 1..Len(pending) : pending[i] = b}
             W == {s \in Slots : worker[s].state = "busy" /\ worker[s].batch = b}
  <2>1. EachHeldOnce
    BY DEF HeldInv
  <2>2. Cardinality({}) = 0 /\ \A x : Cardinality({x}) = 1
    BY FS_EmptySet, FS_Singleton
  <2>3. Count(b) = Cardinality(P) + Cardinality(W)
    BY DEF Count
  <2>4. (b \notin Members(pending) => P = {}) /\ (b \in Members(pending) => \E k : P = {k})
    <3>1. Distinct(pending)
      BY <2>1 DEF EachHeldOnce
    <3>2. b \notin Members(pending) => P = {}
      BY DEF Members
    <3>3. ASSUME b \in Members(pending) PROVE \E k : P = {k}
      <4>1. PICK k \in 1..Len(pending) : pending[k] = b
        BY <3>3 DEF Members
      <4>2. P = {k}
        BY <3>1, <4>1 DEF Distinct
      <4>3. QED
        BY <4>2
    <3>4. QED
      BY <3>2, <3>3
  <2>5. \A s \in W : Busy(s) /\ s \in Slots /\ worker[s].batch = b
    BY DEF Busy
  <2>6. \A s, t \in W : s = t
    BY <2>1, <2>5 DEF EachHeldOnce
  <2>7. W # {} => \E k : W = {k}
    <3>1. SUFFICES ASSUME NEW k \in W PROVE W = {k}
      OBVIOUS
    <3>2. QED
      BY <2>6
  <2>8. (b \in Members(pending) => W = {}) /\ (b \in Members(pending) \/ W # {} => Whole(b))
    BY <2>1, <2>5 DEF EachHeldOnce
  <2>9. CASE \E i \in Positions(b) : outcomes[i] = Unsettled
    <3>1. PICK i \in DOMAIN outcomes : BatchOf(i) = b /\ outcomes[i] = Unsettled
      BY <2>9 DEF Positions, BatchOf
    <3>2. b \in Members(pending) \/ \E s \in Slots : Busy(s) /\ worker[s].batch = b
      BY <2>1, <3>1 DEF EachHeldOnce
    <3>3. b \in Members(pending) \/ W # {}
      BY <3>2 DEF Busy
    <3> HIDE DEF P, W
    <3>4. CASE b \in Members(pending)
      <4>1. PICK k : P = {k}
        BY <2>4, <3>4
      <4>2. Cardinality(P) = 1
        BY <2>2, <4>1
      <4>3. Cardinality(W) = 0
        BY <2>2, <2>8, <3>4
      <4>4. Count(b) = 1
        BY <2>3, <4>2, <4>3
      <4>5. Whole(b)
        BY <2>8, <3>4
      <4>6. QED
        BY <2>9, <4>4, <4>5 DEF Whole
    <3>5. CASE b \notin Members(pending)
      <4>1. Cardinality(P) = 0
        BY <2>2, <2>4, <3>5
      <4>2. PICK k : W = {k}
        BY <2>7, <3>3, <3>5
      <4>3. Cardinality(W) = 1
        BY <2>2, <4>2
      <4>4. Count(b) = 1
        BY <2>3, <4>1, <4>3
      <4>5. Whole(b)
        BY <2>8, <3>3
      <4>6. QED
        BY <2>9, <4>4, <4>5 DEF Whole
    <3>6. QED
      BY <3>4, <3>5
  <2>10. CASE ~\E i \in Positions(b) : outcomes[i] = Unsettled
    <3>1. ~Whole(b)
      BY <2>10 DEF Whole
    <3> HIDE DEF P, W
    <3>2. P = {} /\ W = {}
      BY <2>4, <2>8, <3>1
    <3>3. QED
      BY <2>2, <2>3, <2>10, <3>2
  <2>11. QED
    BY <2>9, <2>10
<1>2. QED
  BY <1>1, HeldInvariant, PTL

-----------------------------------------------------------------------------
(* What is settled was unsettled: a step of EngineCall.                    *)
LEMMA SettlesOnce ==
  ASSUME IInv, HeldInv, pc # "between", pc' # "between", ended' = ended,
         NEW s \in Slots, NEW kind \in {"answered", "failed"},
         outcomes' = Settled(worker[s].batch, kind)
  PROVE  Promised!CallSettles
<1> DEFINE S == Positions(worker[s].batch)
<1>1. S \subseteq {i \in DOMAIN outcomes : outcomes[i] = Unsettled}
  <2>1. CASE Busy(s)
    BY <2>1 DEF HeldInv, EachHeldOnce, Whole, Positions
  <2>2. CASE ~Busy(s)
    <3>1. worker[s].batch = 0
      BY <2>2 DEF IInv, WorkerRight, Busy
    <3>2. size \in Nat \ {0} /\ \E n \in Nat : DOMAIN outcomes = 1..n
      BY PoolAssumption DEF IInv, TypeOK
    <3>3. ASSUME NEW i \in DOMAIN outcomes PROVE ((i - 1) \div size) + 1 # 0
      <4>1. i \in Nat \ {0}
        BY <3>2
      <4>2. (i - 1) \div size >= 0 /\ (i - 1) \div size \in Int
        BY <3>2, <4>1
      <4>3. QED
        BY <4>2
    <3>4. S = {}
      BY <3>1, <3>3 DEF Positions
    <3>5. QED
      BY <3>4
  <2>3. QED
    BY <2>1, <2>2
<1>2. outcomes' = [i \in DOMAIN outcomes |-> IF i \in S THEN kind ELSE outcomes[i]]
  BY DEF Settled
<1> HIDE DEF S
<1>3. QED
  BY <1>1, <1>2 DEF Promised!CallSettles, Promised!Kinds

LEMMA RaisedIsRaises ==
  ASSUME pc # "between", NEW how \in {"raised", "stuck"}, Raised(how)
  PROVE  Promised!CallRaises
  BY DEF Raised, Promised!CallRaises

(* Every step of the pool is a step of the call it promises, or none.      *)
LEMMA StepIsPromised ==
  IInv /\ RoomToRun /\ HeldInv /\ [Next]_vars => [Promised!CallNext]_(Promised!callVars)
<1> SUFFICES ASSUME IInv, RoomToRun, HeldInv, [Next]_vars,
                    ~UNCHANGED <<pc # "between", outcomes, IF ended = "stuck" THEN "raised" ELSE ended>>
             PROVE  Promised!CallNext
  BY DEF Promised!callVars
<1>0. ready \subseteq Slots
  BY DEF IInv, TypeOK
<1>1. CASE Warm \/ Call \/ VerifyCall
  <2>1. pc = "between" /\ pc' # "between" /\ ended' = "none"
    BY <1>1 DEF Warm, Call, VerifyCall, Begins
  <2>2. \E n \in 0..MaxRequests : outcomes' = [i \in 1..n |-> Unsettled]
    <3>1. CASE Warm
      <4>1. outcomes' = [i \in 1..0 |-> Unsettled] /\ 0 \in 0..MaxRequests
        BY <3>1, PoolAssumption DEF Warm
      <4>2. QED
        BY <4>1
    <3>2. CASE Call \/ VerifyCall
      <4>1. PICK n \in 0..MaxRequests : \E w : Handed(n, w)
        BY <3>2 DEF Call, VerifyCall
      <4>2. QED
        BY <4>1 DEF Handed
    <3>3. QED
      BY <1>1, <3>1, <3>2
  <2>3. QED
    BY <2>1, <2>2 DEF Promised!CallNext, Promised!CallBegins
<1>2. CASE Host
  <2>1. pc # "between"
    BY <1>2
    DEF Host, MakeRoom, WarmStarts, Return, Loop, StartOne, Send, Sent, Wait, Through,
        TimedOut, Receive
  <2>2. CASE \E how \in {"raised", "stuck"} : Raised(how)
    BY <2>1, <2>2, RaisedIsRaises DEF Promised!CallNext
  <2>3. CASE Return
    <3>1. /\ pending = <<>> /\ \A s \in Slots : ~Busy(s)
          /\ pc' = "between" /\ ended' = "returned" /\ outcomes' = outcomes
      <4>1. \A s \in Slots : Busy(s) => s \in Group
        BY PoolAssumption
        DEF IInv, GroupsApart, Busy, Alive, Group, Verify, Main, Slots
      <4>2. \A s \in Group : worker[s].state = "idle"
        BY <2>3 DEF Return, Waiting, In
      <4>3. QED
        BY <2>3, <4>1, <4>2 DEF Return, Busy
    <3>2. Members(pending) = {}
      BY <3>1, EmptySeq DEF Members
    <3>3. \A i \in DOMAIN outcomes : outcomes[i] # Unsettled
      BY <2>1, <3>1, <3>2 DEF HeldInv, EachHeldOnce
    <3>4. QED
      BY <2>1, <3>1, <3>3 DEF Promised!CallNext, Promised!CallReturns
  <2>4. CASE (Receive \/ \E s \in ready : TimedOut(s)) /\ ~Raised("raised")
    <3>1. pc' # "between" /\ ended' = ended
      BY <2>1, <2>4
      DEF Receive, TimedOut, ReceiveClosed, ReceiveStarted, ReceiveAnswer, ReceiveResult,
          ReceiveException, ReceiveMemory, ReceiveGuard, Crashed, Restarted, Handles
    <3>2. outcomes' # outcomes
      BY <2>1, <3>1
    <3>3. \E s \in Slots, kind \in {"answered", "failed"} :
            outcomes' = Settled(worker[s].batch, kind)
      BY <1>0, <2>4, <3>2
      DEF Receive, TimedOut, ReceiveClosed, ReceiveStarted, ReceiveAnswer, ReceiveResult,
          ReceiveException, ReceiveMemory, ReceiveGuard, Crashed, Restarted
    <3>4. QED
      BY <2>1, <3>1, <3>3, SettlesOnce DEF Promised!CallNext
  <2>5. CASE /\ MakeRoom \/ WarmStarts \/ Loop \/ StartOne \/ Send \/ Sent \/ Wait \/ Through
             /\ ~\E how \in {"raised", "stuck"} : Raised(how)
    <3>1. pc' # "between" /\ outcomes' = outcomes /\ ended' = ended
      BY <2>1, <2>5
      DEF MakeRoom, WarmStarts, Starts, Loop, StartOne, Send, Sent, Wait, Through, Crashed,
          Restarted, Goes
    <3>2. QED
      BY <2>1, <3>1
  <2>6. QED
    BY <1>2, <2>2, <2>3, <2>4, <2>5 DEF Host
<1>3. CASE (\E s \in Slots : Process(s)) \/ UNCHANGED vars
  BY <1>3 DEF Process, Boots, Answers, Dies, ProcessStep, vars
<1>4. QED
  BY <1>1, <1>2, <1>3 DEF Next

(* Every request of a call gets one outcome that stays; the call returns   *)
(* only with all of them, or raises and keeps none.                        *)
THEOREM PoolImplementsCalls == Spec => ImplementsCalls
<1>1. Init => Promised!CallInit
  BY DEF Init, Promised!CallInit
<1>2. QED
  BY <1>1, HeldInvariant, StepIsPromised, PTL DEF Spec, ImplementsCalls, Promised!CallSpec

-----------------------------------------------------------------------------
\* The cache: what its state is made of.

\* The keys of traces: what a node came to, under the spec it came to it.
Keys == {key \in [spec : Specs, computation : UNION {Computations[spec] : spec \in Specs}] :
            key.computation \in Computations[key.spec]}
Queued == [do : {"touch", "keep"}, key : Keys]
Runs == [pc : {"off", "begin", "work", "removing"}, used : Nat, version : Versions,
         inputs : Inputs, stack : Seq(Nodes), memo : [Nodes -> Values \cup {NotYet}],
         looked : SUBSET Nodes, traces : [Nodes -> SUBSET Keys], corrupt : SUBSET Keys,
         valid : SUBSET Values, queue : Seq(Queued), doomed : SUBSET Values]

CacheTypes ==
    /\ DOMAIN index \subseteq Keys /\ uses \in Nat /\ together \in BOOLEAN
    /\ session \in [Processes -> Runs]

-----------------------------------------------------------------------------
\* The cache: its inductive invariant.

\* What the index was asked for a node are traces of the node as this run has it.
TracesAreOf(r) == \A n \in Nodes : \A key \in r.traces[n] : key.spec = SpecOf(r, n)

\* The nodes a run is at wait for one another: none is computed yet, and none twice.
StackWaits(r) ==
    /\ \A i \in DOMAIN r.stack : r.memo[r.stack[i]] = NotYet
    /\ \A i, j \in DOMAIN r.stack : r.stack[i] = r.stack[j] => i = j

\* A node's value is that of a computation that holds in the run.
Served(r) ==
    \A n \in Nodes : r.memo[n] # NotYet =>
        \E c \in Computations[SpecOf(r, n)] : Holds(r, c) /\ r.memo[n] = c.value

\* What a run has met or written is there, what it is to keep it has met or written, and what it
\* is to remove no trace names.
RunHasItsBlobs(r, keys, there) ==
    /\ r.valid \subseteq there
    /\ r.pc # "removing" => Named(KeptKeys(r)) \subseteq r.valid
    /\ \A key \in keys : ValueOf(key) \notin r.doomed

\* As long as runs follow one another.
OneByOne ==
    ~together =>
        /\ \A p, q \in Going : p = q
        /\ \A p \in Going : RunHasItsBlobs(session[p], DOMAIN index, blobs)
        /\ Named(DOMAIN index) \subseteq blobs

RunKnows(r) == TracesAreOf(r) /\ StackWaits(r) /\ Served(r)

CacheInv == CacheTypes /\ (\A p \in Processes : RunKnows(session[p])) /\ OneByOne

-----------------------------------------------------------------------------
\* The cache: types.

LEMMA NoRunTypes ==
    /\ NoRun \in Runs
    /\ NoRun.pc = "off" /\ NoRun.queue = <<>> /\ NoRun.doomed = {} /\ NoRun.stack = <<>>
    /\ \A n \in Nodes : NoRun.memo[n] = NotYet /\ NoRun.traces[n] = {}
<1> DEFINE version == CHOOSE v \in Versions : TRUE
           inputs == CHOOSE i \in Inputs : TRUE
<1>1. version \in Versions /\ inputs \in Inputs
    BY CacheAssumption
<1> HIDE DEF version, inputs
<1>2. NoRun = [pc |-> "off", used |-> 0, version |-> version, inputs |-> inputs,
               stack |-> <<>>, memo |-> [n \in Nodes |-> NotYet],
               looked |-> {}, traces |-> [n \in Nodes |-> {}], corrupt |-> {},
               valid |-> {}, queue |-> <<>>, doomed |-> {}]
    BY DEF NoRun, version, inputs
<1>3. /\ [n \in Nodes |-> NotYet] \in [Nodes -> Values \cup {NotYet}]
      /\ [n \in Nodes |-> {}] \in [Nodes -> SUBSET Keys]
      /\ <<>> \in Seq(Nodes) /\ <<>> \in Seq(Queued)
    OBVIOUS
<1> QED
    BY <1>1, <1>2, <1>3 DEF Runs

LEMMA StackTypes ==
    ASSUME NEW stack \in Seq(Nodes), stack # <<>>
    PROVE  /\ stack[Len(stack)] \in Nodes /\ Len(stack) \in DOMAIN stack
           /\ Pop(stack) \in Seq(Nodes)
           /\ \A i \in DOMAIN Pop(stack) :
                  i \in DOMAIN stack /\ i # Len(stack) /\ Pop(stack)[i] = stack[i]
<1>1. Len(stack) \in Nat /\ Len(stack) > 0
    OBVIOUS
<1>2. DOMAIN Pop(stack) = 1 .. Len(stack) - 1
    BY <1>1 DEF Pop
<1> QED
    BY <1>1, <1>2 DEF Pop

LEMMA KeyTypes ==
    ASSUME NEW spec \in Specs, NEW c \in Computations[spec]
    PROVE  [spec |-> spec, computation |-> c] \in Keys
BY DEF Keys

LEMMA KeptTypes ==
    ASSUME NEW r \in Runs
    PROVE  KeptKeys(r) \subseteq Keys /\ \A key \in Keys : ValueOf(key) \in Values
<1>1. KeptKeys(r) \subseteq Keys
    <2>1. r.queue \in Seq(Queued)
        BY DEF Runs
    <2>2. \A i \in DOMAIN r.queue : r.queue[i] \in Queued
        BY <2>1
    <2>3. \A i \in DOMAIN r.queue : r.queue[i].key \in Keys
        BY <2>2 DEF Queued
    <2> QED
        BY <2>3 DEF KeptKeys
<1>2. \A key \in Keys : ValueOf(key) \in Values
    BY CacheAssumption DEF Keys, ValueOf
<1> QED
    BY <1>1, <1>2

\* What a run knows of its own.
LEMMA RunFields ==
    ASSUME CacheTypes, NEW p \in Processes
    PROVE  LET r == session[p]
           IN  /\ r \in Runs /\ r.used \in Nat /\ r.version \in Versions /\ r.inputs \in Inputs
               /\ r.stack \in Seq(Nodes) /\ r.memo \in [Nodes -> Values \cup {NotYet}]
               /\ r.looked \subseteq Nodes /\ r.traces \in [Nodes -> SUBSET Keys]
               /\ r.corrupt \subseteq Keys /\ r.valid \subseteq Values
               /\ r.queue \in Seq(Queued) /\ r.doomed \subseteq Values
               /\ \A n \in Nodes : SpecOf(r, n) \in Specs
BY DEF CacheTypes, Runs, SpecOf, Specs

\* How each step changes the run that takes it.
BegunAs(version, inputs) ==
    [NoRun EXCEPT !.pc = "begin", !.used = uses + 1, !.version = version, !.inputs = inputs]

LEMMA BeginRun ==
    ASSUME CacheTypes, NEW p \in Processes, Begin(p)
    PROVE  /\ session' = [session EXCEPT ![p] = session'[p]] /\ session'[p] \in Runs
           /\ session'[p].pc = "begin"
           /\ \A n \in Nodes : session'[p].memo[n] = NotYet /\ session'[p].traces[n] = {}
           /\ session'[p].queue = <<>> /\ session'[p].doomed = {} /\ session'[p].stack = <<>>
           /\ session'[p].valid = {}
<1>1. PICK version \in Versions, inputs \in Inputs :
          session' = [session EXCEPT ![p] = BegunAs(version, inputs)]
    BY DEF Begin, BegunAs
<1> DEFINE used == uses + 1
<1>2. used \in Nat
    BY DEF CacheTypes
<1> HIDE DEF used
<1> DEFINE r == [NoRun EXCEPT !.pc = "begin", !.used = used, !.version = version, !.inputs = inputs]
<1>3. BegunAs(version, inputs) = r
    BY DEF BegunAs, used
<1>4. r \in Runs
    BY <1>2, NoRunTypes DEF Runs
<1>5. /\ r.pc = "begin" /\ r.memo = NoRun.memo /\ r.traces = NoRun.traces /\ r.valid = NoRun.valid
      /\ r.queue = NoRun.queue /\ r.doomed = NoRun.doomed /\ r.stack = NoRun.stack
    BY NoRunTypes DEF Runs
<1>6. NoRun.valid = {}
    BY DEF NoRun
<1> HIDE DEF r
<1> QED
    BY <1>1, <1>3, <1>4, <1>5, <1>6, NoRunTypes DEF CacheTypes

LEMMA ReuseRun ==
    ASSUME CacheTypes, NEW p \in Processes, Reuse(p)
    PROVE  \E key \in Traces(session[p]) :
               LET r == session[p]
                   n == Top(r)
                   s == session'[p]
               IN  /\ Holds(r, key.computation)
                   /\ session' = [session EXCEPT ![p] = s] /\ s \in Runs
                   /\ UNCHANGED <<index, blobs, uses, together>>
                   /\ s.pc = r.pc /\ s.version = r.version /\ s.inputs = r.inputs
                   /\ s.traces = r.traces /\ s.doomed = r.doomed
                   /\ \/ /\ ValueOf(key) \in blobs
                         /\ s.memo = [r.memo EXCEPT ![n] = ValueOf(key)] /\ s.stack = Pop(r.stack)
                         /\ s.valid = r.valid \cup {ValueOf(key)}
                         /\ s.queue = Append(r.queue, [do |-> "touch", key |-> key])
                      \/ /\ s.memo = r.memo /\ s.stack = r.stack /\ s.valid = r.valid
                         /\ s.queue = r.queue
<1> DEFINE r == session[p]
           n == Top(r)
<1>1. /\ r.stack # <<>> /\ n \in Nodes
    BY RunFields, StackTypes DEF Reuse, AtHand, Working, Top
<1>2. PICK key \in Traces(r) :
          /\ Holds(r, key.computation)
          /\ IF ValueOf(key) \in blobs \ damaged
             THEN session' = [session EXCEPT
                      ![p].memo[n] = ValueOf(key), ![p].stack = Pop(@),
                      ![p].valid = @ \cup {ValueOf(key)},
                      ![p].queue = Append(@, [do |-> "touch", key |-> key])]
             ELSE session' = [session EXCEPT ![p].corrupt = @ \cup {key}]
    BY DEF Reuse
<1>3. key \in Keys /\ ValueOf(key) \in Values
    BY <1>1, RunFields, KeptTypes DEF Traces
<1>4. UNCHANGED <<index, blobs, uses, together>>
    BY DEF Reuse
<1>5. CASE ValueOf(key) \in blobs \ damaged
    <2> DEFINE memo == [r.memo EXCEPT ![n] = ValueOf(key)]
               stack == Pop(r.stack)
               valid == r.valid \cup {ValueOf(key)}
               entry == [do |-> "touch", key |-> key]
               queue == Append(r.queue, entry)
    <2>1. memo \in [Nodes -> Values \cup {NotYet}] /\ valid \in SUBSET Values
        BY <1>1, <1>3, RunFields
    <2>2. stack \in Seq(Nodes)
        BY <1>1, RunFields, StackTypes
    <2>3. entry \in Queued
        BY <1>3 DEF Queued
    <2> HIDE DEF entry
    <2>4. queue \in Seq(Queued)
        BY <2>3, RunFields
    <2>5. session' = [session EXCEPT ![p] = [r EXCEPT !.memo = memo, !.stack = stack,
                                                      !.valid = valid, !.queue = queue]]
        BY <1>2, <1>5 DEF entry, CacheTypes, Runs
    <2> HIDE DEF memo, stack, valid, queue
    <2> DEFINE s == [r EXCEPT !.memo = memo, !.stack = stack, !.valid = valid, !.queue = queue]
    <2>6. r \in Runs
        BY RunFields
    <2> HIDE DEF r
    <2>7. s \in Runs
        BY <2>1, <2>2, <2>4, <2>6 DEF Runs
    <2>8. /\ s.pc = r.pc /\ s.version = r.version /\ s.inputs = r.inputs /\ s.traces = r.traces
          /\ s.doomed = r.doomed /\ s.memo = memo /\ s.stack = stack /\ s.valid = valid
          /\ s.queue = queue
        BY <2>6 DEF Runs
    <2> HIDE DEF s
    <2>9. session'[p] = s /\ session' = [session EXCEPT ![p] = session'[p]]
        BY <2>5 DEF s, CacheTypes
    <2> QED
        BY <1>2, <1>4, <1>5, <2>7, <2>8, <2>9 DEF memo, stack, valid, queue, entry, r
<1>6. CASE ValueOf(key) \notin blobs \ damaged
    <2>1. session' = [session EXCEPT ![p] = [r EXCEPT !.corrupt = r.corrupt \cup {key}]]
        BY <1>2, <1>6 DEF CacheTypes
    <2>2. r \in Runs /\ r.corrupt \cup {key} \in SUBSET Keys
        BY <1>3, RunFields
    <2> DEFINE s == [r EXCEPT !.corrupt = r.corrupt \cup {key}]
    <2>3. s \in Runs
        BY <2>2 DEF Runs
    <2>4. /\ s.pc = r.pc /\ s.version = r.version /\ s.inputs = r.inputs /\ s.traces = r.traces
          /\ s.doomed = r.doomed /\ s.memo = r.memo /\ s.stack = r.stack /\ s.valid = r.valid
          /\ s.queue = r.queue
        BY <2>2 DEF Runs
    <2> HIDE DEF s
    <2>5. session'[p] = s /\ session' = [session EXCEPT ![p] = session'[p]]
        BY <2>1 DEF s, CacheTypes
    <2> QED
        BY <1>2, <1>4, <2>3, <2>4, <2>5
<1> QED
    BY <1>5, <1>6

LEMMA ComputeRun ==
    ASSUME CacheTypes, NEW p \in Processes, Compute(p)
    PROVE  \E c \in Computations[SpecOf(session[p], Top(session[p]))] :
               LET r == session[p]
                   n == Top(r)
                   s == session'[p]
               IN  /\ Holds(r, c)
                   /\ session' = [session EXCEPT ![p] = s] /\ s \in Runs
                   /\ UNCHANGED <<index, uses, together>>
                   /\ blobs \subseteq blobs' /\ (c.value \in r.valid \/ c.value \in blobs')
                   /\ s.pc = r.pc /\ s.version = r.version /\ s.inputs = r.inputs
                   /\ s.traces = r.traces /\ s.doomed = r.doomed
                   /\ s.memo = [r.memo EXCEPT ![n] = c.value] /\ s.stack = Pop(r.stack)
                   /\ s.valid = r.valid \cup {c.value}
                   /\ s.queue = Append(r.queue,
                          [do |-> "keep", key |-> [spec |-> SpecOf(r, n), computation |-> c]])
<1> DEFINE r == session[p]
           n == Top(r)
<1>1. /\ r.stack # <<>> /\ n \in Nodes /\ SpecOf(r, n) \in Specs
    BY RunFields, StackTypes DEF Compute, AtHand, Working, Top
<1>2. PICK c \in Computations[SpecOf(r, n)] :
          /\ Holds(r, c)
          /\ IF c.value \in r.valid
             THEN UNCHANGED <<blobs, damaged>>
             ELSE blobs' = blobs \cup {c.value} /\ damaged' = damaged \ {c.value}
          /\ session' = [session EXCEPT
                 ![p].memo[n] = c.value, ![p].stack = Pop(@),
                 ![p].valid = @ \cup {c.value},
                 ![p].queue = Append(@, [do |-> "keep",
                     key |-> [spec |-> SpecOf(r, n), computation |-> c]])]
    BY DEF Compute
<1> DEFINE key == [spec |-> SpecOf(r, n), computation |-> c]
           entry == [do |-> "keep", key |-> key]
           memo == [r.memo EXCEPT ![n] = c.value]
           stack == Pop(r.stack)
           valid == r.valid \cup {c.value}
           queue == Append(r.queue, entry)
<1>3. c.value \in Values
    BY <1>1, CacheAssumption
<1>4. memo \in [Nodes -> Values \cup {NotYet}] /\ valid \in SUBSET Values
    BY <1>1, <1>3, RunFields
<1>5. stack \in Seq(Nodes)
    BY <1>1, RunFields, StackTypes
<1>6. key \in Keys
    BY <1>1, KeyTypes
<1> HIDE DEF key
<1>7. entry \in Queued
    BY <1>6 DEF Queued
<1> HIDE DEF entry
<1>8. queue \in Seq(Queued)
    BY <1>7, RunFields
<1>9. session' = [session EXCEPT ![p] = [r EXCEPT !.memo = memo, !.stack = stack,
                                                  !.valid = valid, !.queue = queue]]
    BY <1>2 DEF entry, key, CacheTypes, Runs
<1> HIDE DEF memo, stack, valid, queue
<1> DEFINE s == [r EXCEPT !.memo = memo, !.stack = stack, !.valid = valid, !.queue = queue]
<1>10. r \in Runs
    BY RunFields
<1> HIDE DEF r
<1>11. s \in Runs
    BY <1>4, <1>5, <1>8, <1>10 DEF Runs
<1>12. /\ s.pc = r.pc /\ s.version = r.version /\ s.inputs = r.inputs /\ s.traces = r.traces
       /\ s.doomed = r.doomed /\ s.memo = memo /\ s.stack = stack /\ s.valid = valid
       /\ s.queue = queue
    BY <1>10 DEF Runs
<1> HIDE DEF s
<1>13. session'[p] = s /\ session' = [session EXCEPT ![p] = session'[p]]
    BY <1>9 DEF s, CacheTypes
<1>14. UNCHANGED <<index, uses, together>> /\ blobs \subseteq blobs'
       /\ (c.value \in r.valid \/ c.value \in blobs')
    BY <1>2 DEF Compute, r
<1> QED
    BY <1>2, <1>11, <1>12, <1>13, <1>14 DEF memo, stack, valid, queue, entry, key, r

\* The steps of a run that neither come to a value nor touch the index or the blobs.
Turns(p) == Begun(p) \/ Root(p) \/ Select(p) \/ Need(p)

LEMMA TurnRun ==
    ASSUME CacheTypes, NEW p \in Processes, Turns(p)
    PROVE  LET r == session[p]
               s == session'[p]
           IN  /\ session' = [session EXCEPT ![p] = s] /\ s \in Runs
               /\ UNCHANGED <<index, blobs, together>> /\ uses' \in Nat
               /\ r.pc \in {"begin", "work"} /\ s.pc = "work"
               /\ s.version = r.version /\ s.inputs = r.inputs /\ s.memo = r.memo
               /\ s.valid = r.valid /\ s.queue = r.queue /\ s.doomed = r.doomed
               /\ \/ s.traces = r.traces
                  \/ \E n \in Nodes : s.traces = [r.traces EXCEPT ![n] = Found(r, n)]
               /\ \/ s.stack = r.stack
                  \/ \E n \in Nodes : r.stack = <<>> /\ r.memo[n] = NotYet /\ s.stack = <<n>>
                  \/ \E n \in Nodes : /\ r.memo[n] = NotYet /\ s.stack = Append(r.stack, n)
                                      /\ \A i \in DOMAIN r.stack : r.stack[i] # n
<1> DEFINE r == session[p]
<1>1. r \in Runs /\ session \in [Processes -> Runs] /\ uses \in Nat
    BY RunFields DEF CacheTypes
<1>2. CASE Begun(p)
    <2>1. /\ session' = [session EXCEPT ![p] = [r EXCEPT !.pc = "work"]] /\ r.pc = "begin"
          /\ uses' = r.used /\ UNCHANGED <<index, blobs, together>>
        BY <1>1, <1>2 DEF Begun
    <2> QED
        BY <1>1, <2>1 DEF Runs
<1>3. CASE Root(p)
    <2>1. PICK n \in Goals : r.memo[n] = NotYet /\ session' = [session EXCEPT ![p].stack = <<n>>]
        BY <1>3 DEF Root
    <2>2. n \in Nodes /\ <<n>> \in Seq(Nodes)
        BY CacheAssumption
    <2>3. /\ session' = [session EXCEPT ![p] = [r EXCEPT !.stack = <<n>>]] /\ r.pc = "work"
          /\ r.stack = <<>> /\ UNCHANGED <<index, blobs, uses, together>>
        BY <1>1, <1>3, <2>1 DEF Root
    <2> DEFINE stack == <<n>>
    <2> HIDE DEF stack
    <2>4. session' = [session EXCEPT ![p] = [r EXCEPT !.stack = stack]] /\ stack \in Seq(Nodes)
        BY <2>2, <2>3 DEF stack
    <2> DEFINE s == [r EXCEPT !.stack = stack]
    <2> HIDE DEF r
    <2>5. s \in Runs
        BY <1>1, <2>4 DEF Runs
    <2>6. /\ s.pc = r.pc /\ s.version = r.version /\ s.inputs = r.inputs /\ s.memo = r.memo
          /\ s.valid = r.valid /\ s.queue = r.queue /\ s.doomed = r.doomed
          /\ s.traces = r.traces /\ s.stack = stack
        BY <1>1 DEF Runs
    <2> HIDE DEF s
    <2>7. session'[p] = s /\ session' = [session EXCEPT ![p] = session'[p]]
        BY <1>1, <2>4 DEF s
    <2> QED
        BY <1>1, <2>1, <2>2, <2>3, <2>5, <2>6, <2>7 DEF stack, r
<1>4. CASE Select(p)
    <2> DEFINE n == Top(r)
               looked == r.looked \cup {n}
               found == Found(r, n)
               traces == [r.traces EXCEPT ![n] = found]
    <2>1. n \in Nodes
        BY <1>4, RunFields, StackTypes DEF Select, Working, Top
    <2>2. looked \in SUBSET Nodes /\ found \in SUBSET Keys
        BY <2>1, RunFields DEF Found, CacheTypes
    <2> HIDE DEF found
    <2>3. traces \in [Nodes -> SUBSET Keys]
        BY <2>1, <2>2, RunFields
    <2>4. session' = [session EXCEPT ![p] = [r EXCEPT !.looked = looked, !.traces = traces]]
        BY <1>1, <1>4 DEF Select, found, Runs
    <2>5. r.pc = "work" /\ UNCHANGED <<index, blobs, uses, together>>
        BY <1>4 DEF Select, Working
    <2>6. \E m \in Nodes : traces = [r.traces EXCEPT ![m] = Found(r, m)]
        BY <2>1 DEF found
    <2> HIDE DEF looked, traces
    <2> DEFINE s == [r EXCEPT !.looked = looked, !.traces = traces]
    <2> HIDE DEF r
    <2>7. s \in Runs
        BY <1>1, <2>2, <2>3 DEF Runs
    <2>8. /\ s.pc = r.pc /\ s.version = r.version /\ s.inputs = r.inputs /\ s.memo = r.memo
          /\ s.valid = r.valid /\ s.queue = r.queue /\ s.doomed = r.doomed /\ s.traces = traces
          /\ s.stack = r.stack
        BY <1>1 DEF Runs
    <2> HIDE DEF s
    <2>9. session'[p] = s /\ session' = [session EXCEPT ![p] = session'[p]]
        BY <1>1, <2>4 DEF s
    <2> QED
        BY <1>1, <2>5, <2>6, <2>7, <2>8, <2>9 DEF r
<1>5. CASE Need(p)
    <2>1. PICK item \in Nodes :
              /\ \A i \in DOMAIN r.stack : r.stack[i] # item
              /\ \E c : Asks(r, c, item)
              /\ session' = [session EXCEPT ![p].stack = Append(@, item)]
        BY <1>5 DEF Need
    <2>2. r.memo[item] = NotYet
        BY <2>1 DEF Asks, Known
    <2>3. Append(r.stack, item) \in Seq(Nodes)
        BY RunFields
    <2>4. /\ session' = [session EXCEPT ![p] = [r EXCEPT !.stack = Append(r.stack, item)]]
          /\ r.pc = "work" /\ UNCHANGED <<index, blobs, uses, together>>
        BY <1>1, <1>5, <2>1 DEF Need, AtHand, Working
    <2> DEFINE stack == Append(r.stack, item)
    <2> HIDE DEF stack
    <2>5. session' = [session EXCEPT ![p] = [r EXCEPT !.stack = stack]] /\ stack \in Seq(Nodes)
        BY <2>3, <2>4 DEF stack
    <2> DEFINE s == [r EXCEPT !.stack = stack]
    <2> HIDE DEF r
    <2>6. s \in Runs
        BY <1>1, <2>5 DEF Runs
    <2>7. /\ s.pc = r.pc /\ s.version = r.version /\ s.inputs = r.inputs /\ s.memo = r.memo
          /\ s.valid = r.valid /\ s.queue = r.queue /\ s.doomed = r.doomed
          /\ s.traces = r.traces /\ s.stack = stack
        BY <1>1 DEF Runs
    <2> HIDE DEF s
    <2>8. session'[p] = s /\ session' = [session EXCEPT ![p] = session'[p]]
        BY <1>1, <2>5 DEF s
    <2> QED
        BY <1>1, <2>1, <2>2, <2>4, <2>6, <2>7, <2>8 DEF stack, r
<1> QED
    BY <1>2, <1>3, <1>4, <1>5 DEF Turns

\* A run plans an eviction and removes what it freed.
LEMMA FinishRun ==
    ASSUME CacheTypes, NEW p \in Processes, Finish(p)
    PROVE  LET r == session[p]
               s == session'[p]
           IN  /\ session' = [session EXCEPT ![p] = s] /\ s \in Runs
               /\ UNCHANGED <<blobs, uses, together>> /\ r.pc = "work" /\ s.pc = "removing"
               /\ s.version = r.version /\ s.inputs = r.inputs /\ s.memo = r.memo
               /\ s.traces = r.traces /\ s.stack = r.stack /\ s.valid = r.valid
               /\ DOMAIN index' \subseteq DOMAIN index \cup KeptKeys(r)
               /\ \A key \in DOMAIN index' : ValueOf(key) \notin s.doomed
<1> DEFINE r == session[p]
           rows == Flushed(r)
<1>1. PICK gone \in Plans(rows, r.used) :
          /\ index' = [key \in DOMAIN rows \ gone |-> rows[key]]
          /\ session' = [session EXCEPT ![p].pc = "removing",
                                        ![p].doomed = Freed(gone, DOMAIN rows \ gone)]
    BY DEF Finish
<1>2. DOMAIN rows = DOMAIN index \cup KeptKeys(r)
    BY DEF Flushed
<1>3. DOMAIN rows \subseteq Keys
    BY <1>2, RunFields, KeptTypes DEF CacheTypes
<1> HIDE DEF rows
<1>4. gone \subseteq DOMAIN rows
    BY DEF Plans
<1> DEFINE left == DOMAIN rows \ gone
           doomed == Freed(gone, left)
<1>5. doomed \in SUBSET Values
    BY <1>3, <1>4, KeptTypes, RunFields DEF Freed, Named
<1>6. DOMAIN index' = left /\ \A key \in left : ValueOf(key) \notin doomed
    BY <1>1 DEF Freed, Named
<1>7. r.pc = "work" /\ UNCHANGED <<blobs, uses, together>>
    BY DEF Finish
<1> HIDE DEF doomed, left
<1>8. session' = [session EXCEPT ![p] = [r EXCEPT !.pc = "removing", !.doomed = doomed]]
    BY <1>1 DEF doomed, left, CacheTypes, Runs
<1>9. r \in Runs /\ session \in [Processes -> Runs]
    BY RunFields DEF CacheTypes
<1> HIDE DEF r
<1> DEFINE s == [r EXCEPT !.pc = "removing", !.doomed = doomed]
<1>10. s \in Runs
    BY <1>5, <1>9 DEF Runs
<1>11. /\ s.pc = "removing" /\ s.version = r.version /\ s.inputs = r.inputs /\ s.memo = r.memo
       /\ s.traces = r.traces /\ s.stack = r.stack /\ s.valid = r.valid /\ s.doomed = doomed
    BY <1>9 DEF Runs
<1> HIDE DEF s
<1>12. session'[p] = s /\ session' = [session EXCEPT ![p] = session'[p]]
    BY <1>8, <1>9 DEF s
<1>13. DOMAIN index' \subseteq DOMAIN index \cup KeptKeys(r)
    BY <1>2, <1>6 DEF left
<1> QED
    BY <1>6, <1>7, <1>10, <1>11, <1>12, <1>13 DEF r

LEMMA RemoveRun ==
    ASSUME CacheTypes, NEW p \in Processes, Remove(p)
    PROVE  \E value \in session[p].doomed :
               LET r == session[p]
                   s == session'[p]
               IN  /\ session' = [session EXCEPT ![p] = s] /\ s \in Runs
                   /\ blobs' = blobs \ {value} /\ UNCHANGED <<index, uses, together>>
                   /\ r.pc = "removing" /\ s.pc = r.pc
                   /\ s.version = r.version /\ s.inputs = r.inputs /\ s.memo = r.memo
                   /\ s.traces = r.traces /\ s.stack = r.stack
                   /\ s.valid = r.valid \ {value} /\ s.doomed = r.doomed \ {value}
<1> DEFINE r == session[p]
<1>1. PICK value \in r.doomed :
          /\ blobs' = blobs \ {value}
          /\ session' = [session EXCEPT ![p].doomed = @ \ {value}, ![p].valid = @ \ {value}]
    BY DEF Remove
<1> DEFINE doomed == r.doomed \ {value}
           valid == r.valid \ {value}
<1>2. doomed \in SUBSET Values /\ valid \in SUBSET Values
    BY RunFields
<1>3. session' = [session EXCEPT ![p] = [r EXCEPT !.doomed = doomed, !.valid = valid]]
    BY <1>1 DEF CacheTypes, Runs
<1>4. r.pc = "removing" /\ UNCHANGED <<index, uses, together>>
    BY DEF Remove
<1>5. r \in Runs /\ session \in [Processes -> Runs]
    BY RunFields DEF CacheTypes
<1> HIDE DEF doomed, valid
<1> DEFINE s == [r EXCEPT !.doomed = doomed, !.valid = valid]
<1>6. s \in Runs
    BY <1>2, <1>5 DEF Runs
<1>7. /\ s.pc = r.pc /\ s.version = r.version /\ s.inputs = r.inputs /\ s.memo = r.memo
      /\ s.traces = r.traces /\ s.stack = r.stack /\ s.valid = valid /\ s.doomed = doomed
    BY <1>5 DEF Runs
<1> HIDE DEF s
<1>8. session'[p] = s /\ session' = [session EXCEPT ![p] = session'[p]]
    BY <1>3, <1>5 DEF s
<1> QED
    BY <1>1, <1>4, <1>6, <1>7, <1>8 DEF valid, doomed

\* A run that ends, whichever way.
LEMMA EndRun ==
    ASSUME CacheTypes, NEW p \in Processes, Close(p) \/ RunEnds(p)
    PROVE  /\ session' = [session EXCEPT ![p] = session'[p]] /\ session'[p] = NoRun
           /\ UNCHANGED <<index, blobs, uses, together>>
BY DEF Close, RunEnds, CacheTypes

\* What the processes together do not reach: `cache gc` and damage.
LEMMA AsideKeeps ==
    ASSUME CacheTypes, Gc \/ Damage \/ UNCHANGED cacheVars
    PROVE  /\ UNCHANGED <<session, uses, together>> /\ DOMAIN index' \subseteq DOMAIN index
           /\ \/ UNCHANGED <<index, blobs>>
              \/ /\ Going = {}
                 /\ Named(DOMAIN index) \subseteq blobs => Named(DOMAIN index') \subseteq blobs'
<1>1. CASE Gc
    <2>1. PICK gone \in Plans(index, uses + 1) :
              LET left == DOMAIN index \ gone
              IN  /\ index' = [key \in left |-> index[key]]
                  /\ \E removed \in SUBSET (Freed(gone, left) \cup (blobs \ Named(DOMAIN index))) :
                         blobs' = blobs \ removed
        BY <1>1 DEF Gc
    <2>2. DOMAIN index' = DOMAIN index \ gone
        BY <2>1
    <2>3. PICK removed \in SUBSET (Freed(gone, DOMAIN index')
                                       \cup (blobs \ Named(DOMAIN index))) :
              blobs' = blobs \ removed
        BY <2>1, <2>2
    <2>4. Named(DOMAIN index') \subseteq Named(DOMAIN index)
        BY <2>2 DEF Named
    <2>5. Named(DOMAIN index') \cap removed = {}
        BY <2>3, <2>4 DEF Freed
    <2>6. Named(DOMAIN index) \subseteq blobs => Named(DOMAIN index') \subseteq blobs'
        BY <2>3, <2>4, <2>5
    <2> QED
        BY <1>1, <2>2, <2>6 DEF Gc
<1>2. CASE Damage \/ UNCHANGED cacheVars
    BY <1>2 DEF Damage, cacheVars
<1> QED
    BY <1>1, <1>2

LEMMA CacheTypesStep ==
    ASSUME CacheTypes, [CacheNext]_cacheVars
    PROVE  CacheTypes'
<1>1. ASSUME NEW p \in Processes, RunStep(p)
      PROVE  CacheTypes'
    <2>1. CASE Begin(p)
        <3>1. session' = [session EXCEPT ![p] = session'[p]] /\ session'[p] \in Runs
            BY <2>1, BeginRun
        <3>2. together' = (together \/ Going # {}) /\ UNCHANGED <<index, uses>>
            BY <2>1 DEF Begin
        <3>3. together' \in BOOLEAN
            BY <3>2
        <3> QED
            BY <3>1, <3>2, <3>3 DEF CacheTypes
    <2>2. CASE Turns(p)
        BY <2>2, TurnRun DEF CacheTypes
    <2>3. CASE Reuse(p)
        BY <2>3, ReuseRun DEF CacheTypes
    <2>4. CASE Compute(p)
        BY <2>4, ComputeRun DEF CacheTypes
    <2>5. CASE Finish(p)
        <3>1. KeptKeys(session[p]) \subseteq Keys
            BY RunFields, KeptTypes
        <3> QED
            BY <2>5, <3>1, FinishRun DEF CacheTypes
    <2>6. CASE Remove(p)
        BY <2>6, RemoveRun DEF CacheTypes
    <2>7. CASE Close(p) \/ RunEnds(p)
        BY <2>7, EndRun, NoRunTypes DEF CacheTypes
    <2> QED
        BY <1>1, <2>1, <2>2, <2>3, <2>4, <2>5, <2>6, <2>7 DEF RunStep, Turns
<1>2. CASE Gc \/ Damage \/ UNCHANGED cacheVars
    BY <1>2, AsideKeeps DEF CacheTypes
<1> QED
    BY <1>1, <1>2 DEF CacheNext

-----------------------------------------------------------------------------
\* The cache: a run serves what its evaluators come to.

\* What a run has read stays what it was when a node it has not come to is computed.
LEMMA HoldsStays ==
    ASSUME NEW r \in Runs, NEW s \in Runs, NEW n \in Nodes, NEW value,
           r.memo[n] = NotYet, s.memo = [r.memo EXCEPT ![n] = value], s.inputs = r.inputs,
           NEW c, Holds(r, c)
    PROVE  Holds(s, c)
<1> SUFFICES ASSUME NEW i \in DOMAIN c.reads PROVE Fits(s, c.reads[i])
    BY DEF Holds
<1> DEFINE read == c.reads[i]
<1>1. Fits(r, read)
    BY DEF Holds
<1> HIDE DEF read
<1>2. read.item \in Nodes => read.item # n
    BY <1>1 DEF Fits, Known
<1>3. r.memo \in [Nodes -> Values \cup {NotYet}]
    BY DEF Runs
<1>4. Fits(s, read)
    BY <1>1, <1>2, <1>3 DEF Fits, Known, Current
<1> QED
    BY <1>4 DEF read

\* A node that comes to a value by a computation that holds.
LEMMA ServedStays ==
    ASSUME NEW r \in Runs, NEW s \in Runs, r.stack # <<>>, RunKnows(r),
           NEW c \in Computations[SpecOf(r, Top(r))], Holds(r, c),
           s.memo = [r.memo EXCEPT ![Top(r)] = c.value], s.stack = Pop(r.stack),
           s.inputs = r.inputs, s.version = r.version, s.traces = r.traces
    PROVE  RunKnows(s)
<1> DEFINE n == Top(r)
<1>1. r.stack \in Seq(Nodes) /\ r.memo \in [Nodes -> Values \cup {NotYet}]
    BY DEF Runs
<1>2. n \in Nodes /\ Len(r.stack) \in DOMAIN r.stack /\ n = r.stack[Len(r.stack)]
    BY <1>1, StackTypes DEF Top
<1>3. r.memo[n] = NotYet
    BY <1>2 DEF RunKnows, StackWaits
<1>4. \A d : Holds(r, d) => Holds(s, d)
    BY <1>2, <1>3, HoldsStays
<1>5. \A m \in Nodes : SpecOf(s, m) = SpecOf(r, m)
    BY DEF SpecOf
<1>6. Served(s)
    <2>1. SUFFICES ASSUME NEW m \in Nodes, s.memo[m] # NotYet
                   PROVE  \E d \in Computations[SpecOf(r, m)] : Holds(s, d) /\ s.memo[m] = d.value
        BY <1>5 DEF Served
    <2>2. CASE m = n
        BY <1>1, <1>2, <1>4, <2>2
    <2>3. CASE m # n
        BY <1>1, <1>2, <1>4, <2>1, <2>3 DEF RunKnows, Served
    <2> QED
        BY <2>2, <2>3
<1>7. StackWaits(s)
    <2>1. \A i \in DOMAIN s.stack :
              i \in DOMAIN r.stack /\ i # Len(r.stack) /\ s.stack[i] = r.stack[i]
        BY <1>1, StackTypes
    <2>2. \A i \in DOMAIN s.stack : s.stack[i] # n /\ s.memo[s.stack[i]] = r.memo[s.stack[i]]
        BY <1>1, <1>2, <2>1 DEF RunKnows, StackWaits
    <2> QED
        BY <2>1, <2>2 DEF RunKnows, StackWaits
<1>8. TracesAreOf(s)
    BY <1>5 DEF RunKnows, TracesAreOf
<1> QED
    BY <1>6, <1>7, <1>8 DEF RunKnows

\* A run that turns to another node knows what it knew.
LEMMA TurnKnows ==
    ASSUME CacheTypes, NEW p \in Processes, Turns(p), RunKnows(session[p])
    PROVE  RunKnows(session'[p])
<1> DEFINE r == session[p]
           s == session'[p]
<1>1. r \in Runs /\ s \in Runs /\ s.version = r.version /\ s.inputs = r.inputs /\ s.memo = r.memo
    BY TurnRun, RunFields
<1>2. \A m \in Nodes : SpecOf(s, m) = SpecOf(r, m)
    BY <1>1 DEF SpecOf
<1>3. \A c : Holds(r, c) => Holds(s, c)
    BY <1>1 DEF Holds, Fits, Known, Current
<1>4. Served(s)
    BY <1>1, <1>2, <1>3 DEF RunKnows, Served
<1>5. TracesAreOf(s)
    <2>1. r.traces \in [Nodes -> SUBSET Keys]
        BY <1>1 DEF Runs
    <2>2. CASE s.traces = r.traces
        BY <1>2, <2>2 DEF RunKnows, TracesAreOf
    <2>3. CASE \E n \in Nodes : s.traces = [r.traces EXCEPT ![n] = Found(r, n)]
        <3>1. PICK n \in Nodes : s.traces = [r.traces EXCEPT ![n] = Found(r, n)]
            BY <2>3
        <3>2. \A key \in Found(r, n) : key.spec = SpecOf(r, n)
            BY DEF Found
        <3> QED
            BY <1>2, <2>1, <3>1, <3>2 DEF RunKnows, TracesAreOf
    <2> QED
        BY <2>2, <2>3, TurnRun
<1>6. StackWaits(s)
    <2>1. r.stack \in Seq(Nodes)
        BY <1>1 DEF Runs
    <2>2. CASE s.stack = r.stack
        BY <1>1, <2>2 DEF RunKnows, StackWaits
    <2>3. CASE \E n \in Nodes : r.memo[n] = NotYet /\ s.stack = <<n>>
        BY <1>1, <2>3 DEF StackWaits
    <2>4. CASE \E n \in Nodes : /\ r.memo[n] = NotYet /\ s.stack = Append(r.stack, n)
                                /\ \A i \in DOMAIN r.stack : r.stack[i] # n
        <3>1. PICK n \in Nodes : /\ r.memo[n] = NotYet /\ s.stack = Append(r.stack, n)
                                 /\ \A i \in DOMAIN r.stack : r.stack[i] # n
            BY <2>4
        <3>2. \A i \in DOMAIN s.stack :
                  \/ i \in DOMAIN r.stack /\ s.stack[i] = r.stack[i]
                  \/ i = Len(r.stack) + 1 /\ s.stack[i] = n
            BY <2>1, <3>1
        <3> QED
            BY <1>1, <3>1, <3>2 DEF RunKnows, StackWaits
    <2> QED
        BY <2>2, <2>3, <2>4, TurnRun
<1> QED
    BY <1>4, <1>5, <1>6 DEF RunKnows

LEMMA SameKnows ==
    ASSUME NEW r, NEW s, RunKnows(r), s.version = r.version, s.inputs = r.inputs,
           s.traces = r.traces, s.memo = r.memo, s.stack = r.stack
    PROVE  RunKnows(s)
<1>1. \A m \in Nodes : SpecOf(s, m) = SpecOf(r, m)
    BY DEF SpecOf
<1>2. \A c : Holds(r, c) => Holds(s, c)
    BY DEF Holds, Fits, Known, Current
<1>3. Served(s)
    BY <1>1, <1>2 DEF RunKnows, Served
<1>4. TracesAreOf(s) /\ StackWaits(s)
    BY <1>1 DEF RunKnows, TracesAreOf, StackWaits
<1> QED
    BY <1>3, <1>4 DEF RunKnows

LEMMA KnowsStep ==
    ASSUME CacheTypes, \A p \in Processes : RunKnows(session[p]), [CacheNext]_cacheVars
    PROVE  \A p \in Processes : RunKnows(session'[p])
<1>1. ASSUME NEW p \in Processes, RunStep(p)
      PROVE  session' = [session EXCEPT ![p] = session'[p]] /\ RunKnows(session'[p])
    <2>1. CASE Begin(p)
        <3>1. RunKnows(session'[p])
            BY <2>1, BeginRun DEF RunKnows, TracesAreOf, StackWaits, Served
        <3> QED
            BY <2>1, <3>1, BeginRun
    <2>2. CASE Turns(p)
        BY <2>2, TurnRun, TurnKnows
    <2>3. CASE Reuse(p)
        <3> DEFINE r == session[p]
                   s == session'[p]
        <3>1. PICK key \in Traces(r) :
                  /\ Holds(r, key.computation)
                  /\ session' = [session EXCEPT ![p] = s] /\ s \in Runs
                  /\ s.version = r.version /\ s.inputs = r.inputs /\ s.traces = r.traces
                  /\ \/ /\ s.memo = [r.memo EXCEPT ![Top(r)] = ValueOf(key)]
                        /\ s.stack = Pop(r.stack)
                     \/ s.memo = r.memo /\ s.stack = r.stack
            BY <2>3, ReuseRun
        <3>2. r \in Runs /\ r.stack # <<>> /\ RunKnows(r)
            BY <2>3, RunFields DEF Reuse, AtHand, Working
        <3>3. Top(r) \in Nodes
            BY <3>2, RunFields, StackTypes DEF Top
        <3>4. key \in r.traces[Top(r)] /\ key \in Keys /\ key.spec = SpecOf(r, Top(r))
            BY <3>2, <3>3, RunFields DEF Traces, RunKnows, TracesAreOf
        <3>5. key.computation \in Computations[SpecOf(r, Top(r))]
              /\ ValueOf(key) = key.computation.value
            BY <3>4 DEF Keys, ValueOf
        <3>6. CASE s.memo = [r.memo EXCEPT ![Top(r)] = ValueOf(key)] /\ s.stack = Pop(r.stack)
            BY <3>1, <3>2, <3>5, <3>6, ServedStays
        <3>7. CASE s.memo = r.memo /\ s.stack = r.stack
            BY <3>1, <3>2, <3>7, SameKnows
        <3> QED
            BY <3>1, <3>6, <3>7
    <2>4. CASE Compute(p)
        <3> DEFINE r == session[p]
                   s == session'[p]
        <3>1. PICK c \in Computations[SpecOf(r, Top(r))] :
                  /\ Holds(r, c) /\ session' = [session EXCEPT ![p] = s] /\ s \in Runs
                  /\ s.version = r.version /\ s.inputs = r.inputs /\ s.traces = r.traces
                  /\ s.memo = [r.memo EXCEPT ![Top(r)] = c.value] /\ s.stack = Pop(r.stack)
            BY <2>4, ComputeRun
        <3>2. r \in Runs /\ r.stack # <<>> /\ RunKnows(r)
            BY <2>4, RunFields DEF Compute, AtHand, Working
        <3> QED
            BY <3>1, <3>2, ServedStays
    <2>5. CASE Finish(p) \/ Remove(p)
        <3> DEFINE r == session[p]
                   s == session'[p]
        <3>1. /\ session' = [session EXCEPT ![p] = s] /\ s \in Runs
              /\ s.version = r.version /\ s.inputs = r.inputs /\ s.traces = r.traces
              /\ s.memo = r.memo /\ s.stack = r.stack
            BY <2>5, FinishRun, RemoveRun
        <3>2. RunKnows(r)
            OBVIOUS
        <3> QED
            BY <3>1, <3>2, SameKnows
    <2>6. CASE Close(p) \/ RunEnds(p)
        <3>1. RunKnows(NoRun)
            BY NoRunTypes DEF RunKnows, TracesAreOf, StackWaits, Served
        <3> QED
            BY <2>6, <3>1, EndRun
    <2> QED
        BY <1>1, <2>1, <2>2, <2>3, <2>4, <2>5, <2>6 DEF RunStep, Turns
<1>2. CASE \E p \in Processes : RunStep(p)
    <2>1. PICK p \in Processes : RunStep(p)
        BY <1>2
    <2>2. session' = [session EXCEPT ![p] = session'[p]] /\ RunKnows(session'[p])
        BY <1>1, <2>1
    <2> QED
        BY <2>2 DEF CacheTypes
<1>3. CASE Gc \/ Damage \/ UNCHANGED cacheVars
    BY <1>3, AsideKeeps
<1> QED
    BY <1>2, <1>3 DEF CacheNext

-----------------------------------------------------------------------------
\* The cache: as long as runs follow one another, a trace has its blob.

\* What a run is to keep, when it queues a trace.
LEMMA QueueKeeps ==
    ASSUME NEW r \in Runs, NEW s, NEW entry \in Queued, s.queue = Append(r.queue, entry)
    PROVE  /\ entry.do = "touch" => KeptKeys(s) = KeptKeys(r)
           /\ KeptKeys(s) \subseteq KeptKeys(r) \cup {entry.key}
<1>1. r.queue \in Seq(Queued)
    BY DEF Runs
<1>2. /\ DOMAIN s.queue = DOMAIN r.queue \cup {Len(r.queue) + 1}
      /\ \A i \in DOMAIN r.queue : s.queue[i] = r.queue[i]
      /\ s.queue[Len(r.queue) + 1] = entry /\ Len(r.queue) + 1 \notin DOMAIN r.queue
    BY <1>1
<1> QED
    BY <1>2 DEF KeptKeys

LEMMA OneByOneStep ==
    ASSUME CacheTypes, OneByOne, [CacheNext]_cacheVars
    PROVE  OneByOne'
<1> SUFFICES ASSUME ~together'
             PROVE  /\ \A p, q \in Going' : p = q
                    /\ \A p \in Going' : RunHasItsBlobs(session'[p], DOMAIN index', blobs')
                    /\ Named(DOMAIN index') \subseteq blobs'
    BY DEF OneByOne, RunHasItsBlobs, Named, KeptKeys, ValueOf
<1> USE DEF Going
<1>1. CASE \E p \in Processes : Begin(p)
    <2>1. PICK p \in Processes : Begin(p)
        BY <1>1
    <2>2. Going = {} /\ ~together /\ UNCHANGED <<index, blobs>>
        BY <2>1 DEF Begin, CacheTypes
    <2>3. session' = [session EXCEPT ![p] = session'[p]] /\ session'[p].queue = <<>>
          /\ session'[p].doomed = {} /\ session'[p].valid = {}
        BY <2>1, BeginRun
    <2>4. Going' \subseteq {p}
        BY <2>2, <2>3 DEF CacheTypes
    <2>5. RunHasItsBlobs(session'[p], DOMAIN index, blobs)
        BY <2>3 DEF RunHasItsBlobs, KeptKeys, Named
    <2> QED
        BY <2>2, <2>4, <2>5 DEF OneByOne
<1>2. ASSUME NEW p \in Processes, RunStep(p), ~Begin(p)
      PROVE  /\ p \in Going /\ session' = [session EXCEPT ![p] = session'[p]] /\ together' = together
             /\ ~together /\ RunHasItsBlobs(session[p], DOMAIN index, blobs)
                     /\ Named(DOMAIN index) \subseteq blobs
                => /\ session'[p].pc # "off" =>
                          RunHasItsBlobs(session'[p], DOMAIN index', blobs')
                   /\ Named(DOMAIN index') \subseteq blobs'
    <2> DEFINE r == session[p]
               s == session'[p]
    <2>0. r \in Runs
        BY RunFields
    <2>1. CASE Turns(p)
        <3>1. /\ s.valid = r.valid /\ s.queue = r.queue /\ s.doomed = r.doomed
              /\ r.pc \in {"begin", "work"} /\ UNCHANGED <<index, blobs, together>>
              /\ session' = [session EXCEPT ![p] = s]
            BY <2>1, TurnRun
        <3> QED
            BY <3>1 DEF RunHasItsBlobs, KeptKeys
    <2>2. CASE Reuse(p)
        <3>1. PICK key \in Traces(r) :
                  /\ session' = [session EXCEPT ![p] = s]
                  /\ UNCHANGED <<index, blobs, together>> /\ s.pc = r.pc /\ s.doomed = r.doomed
                  /\ \/ /\ ValueOf(key) \in blobs /\ s.valid = r.valid \cup {ValueOf(key)}
                        /\ s.queue = Append(r.queue, [do |-> "touch", key |-> key])
                     \/ s.valid = r.valid /\ s.queue = r.queue
            BY <2>2, ReuseRun
        <3>2. r.pc = "work"
            BY <2>2 DEF Reuse, AtHand, Working
        <3>3. KeptKeys(s) = KeptKeys(r)
            <4>1. CASE s.queue = r.queue
                BY <4>1 DEF KeptKeys
            <4>2. CASE s.queue = Append(r.queue, [do |-> "touch", key |-> key])
                <5>1. Top(r) \in Nodes
                    BY <2>2, RunFields, StackTypes DEF Reuse, AtHand, Working, Top
                <5>2. key \in Keys
                    BY <5>1, RunFields DEF Traces
                <5> DEFINE entry == [do |-> "touch", key |-> key]
                <5>3. entry \in Queued /\ entry.do = "touch"
                    BY <5>2 DEF Queued
                <5> QED
                    BY <2>0, <4>2, <5>3, QueueKeeps
            <4> QED
                BY <3>1, <4>1, <4>2
        <3> QED
            BY <3>1, <3>2, <3>3 DEF RunHasItsBlobs
    <2>3. CASE Compute(p)
        <3>1. PICK c \in Computations[SpecOf(r, Top(r))] :
                  /\ session' = [session EXCEPT ![p] = s]
                  /\ UNCHANGED <<index, together>> /\ s.pc = r.pc /\ s.doomed = r.doomed
                  /\ blobs \subseteq blobs' /\ (c.value \in r.valid \/ c.value \in blobs')
                  /\ s.valid = r.valid \cup {c.value}
                  /\ s.queue = Append(r.queue,
                         [do |-> "keep", key |-> [spec |-> SpecOf(r, Top(r)), computation |-> c]])
            BY <2>3, ComputeRun
        <3>2. r.pc = "work"
            BY <2>3 DEF Compute, AtHand, Working
        <3> DEFINE key == [spec |-> SpecOf(r, Top(r)), computation |-> c]
                   entry == [do |-> "keep", key |-> key]
        <3>3. key \in Keys /\ ValueOf(key) = c.value
            <4>1. Top(r) \in Nodes
                BY <2>3, RunFields, StackTypes DEF Compute, AtHand, Working, Top
            <4> QED
                BY <4>1, RunFields, KeyTypes DEF ValueOf
        <3> HIDE DEF key
        <3>4. entry \in Queued /\ entry.key = key
            BY <3>3 DEF Queued
        <3>5. KeptKeys(s) \subseteq KeptKeys(r) \cup {key}
            <4>1. s.queue = Append(r.queue, entry)
                BY <3>1 DEF key
            <4> HIDE DEF entry
            <4> QED
                BY <2>0, <3>4, <4>1, QueueKeeps
        <3>6. Named(KeptKeys(s)) \subseteq Named(KeptKeys(r)) \cup {c.value}
            BY <3>3, <3>5 DEF Named
        <3> QED
            BY <3>1, <3>2, <3>6 DEF RunHasItsBlobs
    <2>4. CASE Finish(p)
        <3>1. /\ session' = [session EXCEPT ![p] = s] /\ UNCHANGED <<blobs, together>>
              /\ r.pc = "work" /\ s.pc = "removing" /\ s.valid = r.valid
              /\ DOMAIN index' \subseteq DOMAIN index \cup KeptKeys(r)
              /\ \A key \in DOMAIN index' : ValueOf(key) \notin s.doomed
            BY <2>4, FinishRun
        <3>2. Named(DOMAIN index') \subseteq Named(DOMAIN index) \cup Named(KeptKeys(r))
            BY <3>1 DEF Named
        <3> QED
            BY <3>1, <3>2 DEF RunHasItsBlobs
    <2>5. CASE Remove(p)
        <3>1. PICK value \in r.doomed :
                  /\ session' = [session EXCEPT ![p] = s]
                  /\ blobs' = blobs \ {value} /\ UNCHANGED <<index, together>>
                  /\ r.pc = "removing" /\ s.pc = r.pc
                  /\ s.valid = r.valid \ {value} /\ s.doomed = r.doomed \ {value}
            BY <2>5, RemoveRun
        <3>2. (\A key \in DOMAIN index : ValueOf(key) \notin r.doomed)
                  => value \notin Named(DOMAIN index)
            BY DEF Named
        <3> QED
            BY <3>1, <3>2 DEF RunHasItsBlobs
    <2>6. CASE Close(p) \/ RunEnds(p)
        <3>1. r.pc # "off"
            BY <2>6 DEF Close, RunEnds
        <3> QED
            BY <2>6, <3>1, EndRun, NoRunTypes
    <2> QED
        BY <1>2, <2>1, <2>2, <2>3, <2>4, <2>5, <2>6 DEF RunStep, Turns
<1>3. CASE \E p \in Processes : RunStep(p) /\ ~Begin(p)
    <2>1. PICK p \in Processes : RunStep(p) /\ ~Begin(p)
        BY <1>3
    <2>2. /\ p \in Going /\ session' = [session EXCEPT ![p] = session'[p]] /\ ~together
          /\ session'[p].pc # "off" => RunHasItsBlobs(session'[p], DOMAIN index', blobs')
          /\ Named(DOMAIN index') \subseteq blobs'
        BY <1>2, <2>1 DEF OneByOne
    <2>3. \A q \in Going : q = p
        BY <2>2 DEF OneByOne
    <2>4. \A q \in Going' : q = p
        BY <2>2, <2>3 DEF CacheTypes
    <2> QED
        BY <2>2, <2>4
<1>4. CASE Gc \/ Damage \/ UNCHANGED cacheVars
    <2>1. UNCHANGED <<session, together>>
        BY <1>4, AsideKeeps
    <2>2. CASE UNCHANGED <<index, blobs>>
        BY <2>1, <2>2 DEF OneByOne
    <2>3. CASE /\ Going = {}
               /\ Named(DOMAIN index) \subseteq blobs => Named(DOMAIN index') \subseteq blobs'
        BY <2>1, <2>3 DEF OneByOne
    <2> QED
        BY <1>4, <2>2, <2>3, AsideKeeps
<1> QED
    BY <1>1, <1>3, <1>4 DEF CacheNext

-----------------------------------------------------------------------------
\* The cache: the theorems.

LEMMA CacheStarts ==
    CacheInit => CacheInv
<1> SUFFICES ASSUME CacheInit PROVE CacheInv
    OBVIOUS
<1>1. CacheTypes
    <2>1. DOMAIN index = {}
        BY DEF CacheInit
    <2>2. session \in [Processes -> Runs]
        BY NoRunTypes DEF CacheInit
    <2> QED
        BY <2>1, <2>2 DEF CacheInit, CacheTypes
<1>2. \A p \in Processes : RunKnows(session[p])
    BY NoRunTypes DEF CacheInit, RunKnows, TracesAreOf, StackWaits, Served
<1>3. OneByOne
    BY NoRunTypes DEF CacheInit, OneByOne, Going, Named
<1> QED
    BY <1>1, <1>2, <1>3 DEF CacheInv

LEMMA CacheStep ==
    ASSUME CacheInv, [CacheNext]_cacheVars
    PROVE  CacheInv'
<1>1. CacheTypes' /\ OneByOne'
    BY CacheTypesStep, OneByOneStep DEF CacheInv
<1>2. \A p \in Processes : RunKnows(session'[p])
    BY KnowsStep DEF CacheInv
<1>3. \A p \in Processes : RunKnows(session[p])'
    BY <1>2 DEF RunKnows, TracesAreOf, StackWaits, Served
<1> QED
    BY <1>1, <1>3 DEF CacheInv

\* Every reachable state of the cache satisfies its inductive invariant.
THEOREM CacheInvHolds == CacheSpec => []CacheInv
BY CacheStarts, CacheStep, PTL DEF CacheSpec

\* Whatever runs keep, evict and lose meanwhile, and whatever blobs are damaged: a node's value in
\* a run, reused or computed, is one that its evaluator comes to from what this run finds.
THEOREM ValuesAreComputed == CacheSpec => []ServedAsComputed
<1>1. CacheInv => ServedAsComputed
    BY DEF CacheInv, RunKnows, Served, ServedAsComputed
<1> QED
    BY <1>1, CacheInvHolds, PTL

\* It is the only one: whatever else the evaluator could come to, does not hold in this run.
ServesTheOne ==
    \A p \in Processes : \A n \in Nodes :
        session[p].memo[n] # NotYet =>
            \A c \in Computations[SpecOf(session[p], n)] :
                Holds(session[p], c) => session[p].memo[n] = c.value

LEMMA OneHolds ==
    ASSUME NEW spec \in Specs, NEW c \in Computations[spec], NEW d \in Computations[spec],
           NEW r, Holds(r, c), Holds(r, d)
    PROVE  c = d
<1> SUFFICES ASSUME c # d PROVE FALSE
    OBVIOUS
<1>1. Deterministic(Computations[spec])
    BY CacheAssumption
<1>2. PICK i \in DOMAIN c.reads \cap DOMAIN d.reads :
          c.reads[i].item = d.reads[i].item /\ c.reads[i].value # d.reads[i].value
    BY <1>1 DEF Deterministic
<1>3. Fits(r, c.reads[i]) /\ Fits(r, d.reads[i])
    BY DEF Holds
<1> QED
    BY <1>2, <1>3 DEF Fits

\* A node's value in a run is what its evaluator comes to there, and nothing else is.
THEOREM ValuesAreTheOnes == CacheSpec => []ServesTheOne
<1>1. CacheInv => ServesTheOne
    <2> SUFFICES ASSUME CacheInv, NEW p \in Processes, NEW n \in Nodes,
                        session[p].memo[n] # NotYet,
                        NEW c \in Computations[SpecOf(session[p], n)], Holds(session[p], c)
                 PROVE  session[p].memo[n] = c.value
        BY DEF ServesTheOne
    <2>1. PICK d \in Computations[SpecOf(session[p], n)] :
              Holds(session[p], d) /\ session[p].memo[n] = d.value
        BY DEF CacheInv, RunKnows, Served
    <2>2. SpecOf(session[p], n) \in Specs
        BY RunFields DEF CacheInv
    <2> QED
        BY <2>1, <2>2, OneHolds
<1> QED
    BY <1>1, CacheInvHolds, PTL

\* As long as runs follow one another, every trace in the index has its blob, wherever a run or a
\* `gc` ended: a blob is written before its trace and removed after it.
THEOREM TracesHaveTheirBlobs == CacheSpec => []IndexHasItsBlobs
<1>1. CacheInv => IndexHasItsBlobs
    BY DEF CacheInv, OneByOne, IndexHasItsBlobs
<1> QED
    BY <1>1, CacheInvHolds, PTL

-----------------------------------------------------------------------------
\* The watch: what its state is made of.

Bytes == Contents \cup {Absent}
ReadBytes == Bytes \cup {Unread}
Marks == [stamp : Nat, hash : ReadBytes]
Candidates == [number : Nat, files : [Exported -> ReadBytes]]
Saves == [files : [Watched -> Marks], last : [Watched -> ReadBytes] \cup {Nothing},
          candidate : Candidates \cup {Nothing}, failed : BOOLEAN]
Refreshing == {"import", "load", "stage", "save", "refused"}

DiskTypes ==
    /\ disk \in [Watched -> [bytes : Bytes, stamp : Nat]] /\ past \in [Watched -> SUBSET Bytes]
    /\ clock \in Nat

LoopTypes ==
    /\ at \in {"down", "idle", "scan", "hash"} \cup Refreshing
    /\ todo \subseteq Watched /\ taken \in [file : Watched, stamp : Nat]
    /\ poll \in [changed : BOOLEAN, ripe : BOOLEAN]
    /\ due \in {"none", "open", "ended"}
    /\ gate \in [held : BOOLEAN, first : BOOLEAN, quiet : BOOLEAN]

MemoryTypes ==
    /\ seen \in [Watched -> Marks] /\ files \in [Watched -> Marks]
    /\ got \in [Watched -> ReadBytes]
    /\ last \in [Watched -> ReadBytes] \cup {Nothing}
    /\ candidate \in Candidates \cup {Nothing} /\ failed \in BOOLEAN
    /\ saved \in Saves \cup {Nothing}
    /\ staged \in Seq([Exported -> ReadBytes])

WatchTypes == DiskTypes /\ LoopTypes /\ MemoryTypes

-----------------------------------------------------------------------------
\* The watch: its inductive invariant.

\* A write gives a file a stamp that nothing has noted yet.
NotedBefore(marks) == \A f \in Watched : marks[f].stamp <= clock
Stamped ==
    /\ \A f \in Watched : disk[f].stamp \in 1 .. clock
    /\ taken.stamp <= clock
    /\ NotedBefore(seen) /\ NotedBefore(files)
    /\ saved # Nothing => NotedBefore(saved.files)

\* What is noted of a file that was not there.
ShapedMarks(marks) == \A f \in Watched : marks[f].hash = Absent => marks[f] = NotSeen
Shaped == ShapedMarks(seen) /\ (saved # Nothing => ShapedMarks(saved.files))

\* What a file was noted to say is what it said once, or says.
Said(mark, f) == mark.hash \in past[f] \cup {disk[f].bytes, Unread}
\* A watch that has not seen the file yet has its first window open.
NotScanned(f) ==
    \/ at = "idle"
    \/ at \in {"scan", "hash"} /\ f \in todo
    \/ at = "hash" /\ taken.file = f
Honest ==
    /\ \A f \in Watched :
           at = "down" \/ (due # "none" /\ NotScanned(f) /\ seen[f] = NotSeen) \/ Said(seen[f], f)
    /\ saved # Nothing => \A f \in Watched : Said(saved.files[f], f)

\* A scan that looks at f with these marks takes it as changed.
NoticedBy(mark, f) ==
    IF disk[f].bytes = Absent THEN mark # NotSeen
    ELSE mark.stamp # disk[f].stamp /\ mark.hash # disk[f].bytes
\* The file says what it never said before, and not this.
Fresh(f, bytes) == disk[f].bytes \notin past[f] /\ bytes # disk[f].bytes

\* A run that went through read the file as it is, or its change is on its way.
Trusted ==
    (at \in {"stage", "save"} \/ (at \in {"idle", "scan", "hash"} /\ ~failed)) /\ last # Nothing =>
        \A f \in Watched :
            Fresh(f, last[f]) => due # "none" \/ poll.changed \/ NoticedBy(seen[f], f)
SavedTrusted ==
    saved # Nothing /\ ~saved.failed /\ saved.last # Nothing =>
        \A f \in Watched : Fresh(f, saved.last[f]) => NoticedBy(saved.files[f], f)
\* So has what a refresh has read until now.
Loaded ==
    at = "load" =>
        \A f \in Watched \ todo :
            got[f] # Unread /\ Fresh(f, got[f]) => NoticedBy(seen[f], f)

\* A change is in the window before the poll ends, a refresh has taken the window with it, and
\* what it saves is what the scan saw.
Resting ==
    /\ at \in {"idle", "down"} => ~poll.changed
    /\ gate.quiet => due # "none"
    /\ at \in Refreshing => due = "none" /\ ~poll.changed /\ files = seen

\* A candidate that is known was staged, and shows what the last run exports.
StagedIs(known) == known # Nothing => known.number \in DOMAIN staged /\ staged[known.number] = known.files
Shows(read, known) == read # Nothing /\ ~Refused(read) => known # Nothing /\ known.files = Exports(read)
Staging ==
    /\ StagedIs(candidate) /\ (at # "stage" => Shows(last, candidate))
    /\ saved # Nothing => StagedIs(saved.candidate) /\ Shows(saved.last, saved.candidate)
    /\ at = "stage" => last = got

WatchInv ==
    /\ WatchTypes /\ Stamped /\ Shaped /\ Honest /\ Trusted /\ SavedTrusted /\ Loaded /\ Resting
    /\ Staging

-----------------------------------------------------------------------------
\* The watch: types.

USE DEF Watched

LEMMA ReadTypes ==
    ASSUME WatchTypes, NEW f \in Watched
    PROVE  Read(f) \in {disk[f].bytes, Unread} /\ Read(f) \in ReadBytes
<1>1. disk[f].bytes \in Bytes
    BY DEF WatchTypes, DiskTypes
<1> QED
    BY <1>1 DEF Read, ReadBytes, Bytes

LEMMA NotSeenTypes ==
    NotSeen \in Marks /\ [f \in Watched |-> NotSeen] \in [Watched -> Marks]
BY DEF NotSeen, Marks, ReadBytes, Bytes

LEMMA UnreadTypes ==
    [f \in Watched |-> Unread] \in [Watched -> ReadBytes]
BY DEF ReadBytes

LEMMA ExportTypes ==
    ASSUME NEW read \in [Watched -> ReadBytes]
    PROVE  Exports(read) \in [Exported -> ReadBytes]
BY WatchAssumption DEF Exports

THEOREM WatchStarts ==
    WatchInit => WatchInv
<1> SUFFICES ASSUME WatchInit PROVE WatchInv
    OBVIOUS
<1> USE WatchAssumption
<1>1. DiskTypes
    BY DEF WatchInit, DiskTypes, Bytes
<1>2. LoopTypes
    BY DEF WatchInit, LoopTypes, NothingTaken, NoPoll
<1>3. MemoryTypes
    <2>1. staged \in Seq([Exported -> ReadBytes])
        BY DEF WatchInit
    <2> QED
        BY <2>1, NotSeenTypes, UnreadTypes DEF WatchInit, MemoryTypes
<1>4. Stamped
    BY DEF WatchInit, Stamped, NotedBefore, NotSeen, NothingTaken
<1>5. Shaped
    BY DEF WatchInit, Shaped, ShapedMarks
<1>6. at = "down" /\ saved = Nothing /\ last = Nothing /\ candidate = Nothing
      /\ ~poll.changed /\ ~gate.quiet
    BY DEF WatchInit, NoPoll
<1>7. Honest /\ Trusted /\ SavedTrusted /\ Loaded
    BY <1>6 DEF Honest, Trusted, SavedTrusted, Loaded
<1>8. Resting /\ Staging
    BY <1>6 DEF Resting, Refreshing, Staging, StagedIs, Shows
<1> QED
    BY <1>1, <1>2, <1>3, <1>4, <1>5, <1>7, <1>8 DEF WatchInv, WatchTypes

LEMMA DiskTypesStep ==
    ASSUME WatchTypes, [WatchNext]_watchVars
    PROVE  DiskTypes'
<1> USE DEF WatchTypes, DiskTypes
<1>1. CASE \E f \in Watched, bytes \in Contents \cup {Absent} : Edit(f, bytes)
    <2>1. PICK f \in Watched, bytes \in Bytes : Edit(f, bytes)
        BY <1>1 DEF Bytes
    <2> DEFINE now == [bytes |-> bytes, stamp |-> clock + 1]
    <2>2. now \in [bytes : Bytes, stamp : Nat]
        OBVIOUS
    <2> HIDE DEF now
    <2>3. disk' = [disk EXCEPT ![f] = now] /\ clock' = clock + 1
        BY <2>1 DEF Edit, now
    <2>4. past' = [past EXCEPT ![f] = @ \cup {disk[f].bytes}] /\ disk[f].bytes \in Bytes
        BY <2>1 DEF Edit
    <2>5. past' \in [Watched -> SUBSET Bytes]
        BY <2>4
    <2> QED
        BY <2>2, <2>3, <2>5
<1>2. CASE \E f \in Watched : Rewrite(f)
    <2>1. PICK f \in Watched : Rewrite(f)
        BY <1>2
    <2> DEFINE next == clock + 1
    <2>2. next \in Nat
        OBVIOUS
    <2> HIDE DEF next
    <2>3. disk' = [disk EXCEPT ![f].stamp = next] /\ clock' = next /\ UNCHANGED past
        BY <2>1 DEF Rewrite, next
    <2>4. disk' \in [Watched -> [bytes : Bytes, stamp : Nat]]
        BY <2>2, <2>3
    <2> QED
        BY <2>2, <2>3, <2>4
<1>3. CASE UNCHANGED <<disk, past, clock>>
    BY <1>3
<1>4. (\E f \in Watched : Lock(f)) \/ Watch \/ WindowEnds \/ End \/ UNCHANGED watchVars
            => UNCHANGED <<disk, past, clock>>
    BY DEF Lock, Watch, Start, PollBegins, Scanned, ScanHash, ScanStamp, Import, Load, Evaluate,
        Stage, Save, WindowEnds, End, watchVars, disks
<1> QED
    BY <1>1, <1>2, <1>3, <1>4 DEF WatchNext, Others

\* A write or a lock changes nothing that the watch keeps, and a window's end only the window.
LEMMA OthersKeep ==
    ASSUME Others \/ UNCHANGED watchVars
    PROVE  UNCHANGED <<loop, refresh, memory, due, saved, staged>>
BY DEF Others, Edit, Rewrite, Lock, watchVars

LEMMA WatchKeepsDisk ==
    ASSUME Watch \/ WindowEnds \/ End
    PROVE  UNCHANGED disks
BY DEF Watch, Start, PollBegins, Scanned, ScanHash, ScanStamp, Import, Load, Evaluate, Stage, Save,
    WindowEnds, End

LEMMA LoopTypesStep ==
    ASSUME WatchTypes, [WatchNext]_watchVars
    PROVE  LoopTypes'
<1> USE DEF WatchTypes, LoopTypes, Refreshing
<1>1. CASE Others \/ UNCHANGED watchVars
    BY <1>1, OthersKeep DEF loop
<1>2. CASE Start
    BY <1>2 DEF Start
<1>3. CASE PollBegins
    BY <1>3 DEF PollBegins
<1>4. CASE Scanned
    BY <1>4 DEF Scanned, NoPoll, Held
<1>5. CASE ScanHash
    BY <1>5 DEF ScanHash, NothingTaken
<1>6. CASE \E f \in Watched : ScanStamp(f)
    <2>1. PICK f \in Watched : ScanStamp(f)
        BY <1>6
    <2>2. disk[f].stamp \in Nat
        BY DEF DiskTypes
    <2> DEFINE note == [file |-> f, stamp |-> disk[f].stamp]
    <2>3. note \in [file : Watched, stamp : Nat]
        BY <2>2
    <2>4. taken' \in {taken, note}
        BY <2>1 DEF ScanStamp
    <2>5. taken' \in [file : Watched, stamp : Nat]
        BY <2>3, <2>4
    <2> QED
        BY <2>1, <2>5 DEF ScanStamp
<1>7. CASE Import
    BY <1>7 DEF Import
<1>8. CASE \E f \in Files : Load(f)
    BY <1>8 DEF Load
<1>9. CASE Evaluate
    BY <1>9 DEF Evaluate
<1>10. CASE Stage \/ Save
    BY <1>10 DEF Stage, Save
<1>11. CASE WindowEnds
    BY <1>11 DEF WindowEnds, loop
<1>12. CASE End
    BY <1>12 DEF End, NothingTaken, NoPoll
<1> QED
    BY <1>1, <1>2, <1>3, <1>4, <1>5, <1>6, <1>7, <1>8, <1>9, <1>10, <1>11, <1>12
    DEF WatchNext, Watch

LEMMA MemoryTypesStep ==
    ASSUME WatchTypes, [WatchNext]_watchVars
    PROVE  MemoryTypes'
<1> USE DEF WatchTypes, MemoryTypes
<1>1. CASE Others \/ UNCHANGED watchVars
    BY <1>1, OthersKeep DEF refresh, memory
<1>2. CASE Start
    <2>1. CASE saved = Nothing
        BY <1>2, <2>1, NotSeenTypes DEF Start, refresh
    <2>2. CASE saved # Nothing
        <3>1. saved \in Saves
            BY <2>2
        <3>2. /\ seen' = saved.files /\ last' = saved.last
              /\ candidate' = saved.candidate /\ failed' = saved.failed
              /\ UNCHANGED <<files, got, saved, staged>>
            BY <1>2, <2>2 DEF Start, refresh
        <3> QED
            BY <3>1, <3>2 DEF Saves
    <2> QED
        BY <2>1, <2>2
<1>3. CASE PollBegins \/ WindowEnds
    BY <1>3 DEF PollBegins, WindowEnds, refresh, memory
<1>4. CASE Scanned
    BY <1>4 DEF Scanned, memory
<1>5. CASE ScanHash
    <2> DEFINE f == taken.file
               now == IF Read(f) = Absent THEN NotSeen ELSE [stamp |-> taken.stamp, hash |-> Read(f)]
    <2>1. f \in Watched /\ taken.stamp \in Nat
        BY DEF LoopTypes
    <2>2. now \in Marks
        BY <2>1, ReadTypes, NotSeenTypes DEF Marks
    <2>3. seen' = [seen EXCEPT ![f] = now]
          /\ UNCHANGED <<files, got, last, candidate, failed, saved, staged>>
        BY <1>5 DEF ScanHash, refresh
    <2> HIDE DEF f, now
    <2> QED
        BY <2>1, <2>2, <2>3
<1>6. CASE \E f \in Watched : ScanStamp(f)
    <2>1. PICK f \in Watched : ScanStamp(f)
        BY <1>6
    <2>2. seen' = [seen EXCEPT ![f] = NotSeen] \/ seen' = seen
        BY <2>1 DEF ScanStamp
    <2>3. UNCHANGED <<files, got, last, candidate, failed, saved, staged>>
        BY <2>1 DEF ScanStamp, refresh
    <2>4. seen' \in [Watched -> Marks]
        BY <2>2, NotSeenTypes
    <2> QED
        BY <2>3, <2>4
<1>7. CASE Import
    <2>1. got' \in [Watched -> ReadBytes]
        <3>1. Read(Snapshot) \in ReadBytes /\ Unread \in ReadBytes
            BY ReadTypes DEF ReadBytes
        <3>2. \A f \in Watched : (IF f = Snapshot THEN Read(f) ELSE Unread) \in ReadBytes
            BY <3>1
        <3> QED
            BY <1>7, <3>1, <3>2 DEF Import
    <2> QED
        BY <1>7, <2>1 DEF Import, memory
<1>8. CASE \E f \in Files : Load(f)
    <2>1. PICK f \in Files : Load(f)
        BY <1>8
    <2>2. got' \in [Watched -> ReadBytes]
        BY <2>1, ReadTypes DEF Load
    <2> QED
        BY <2>1, <2>2 DEF Load, memory
<1>9. CASE Evaluate
    <2>1. last' \in {got, last} /\ UNCHANGED <<files, got, seen, candidate, failed, saved, staged>>
        BY <1>9 DEF Evaluate, refresh
    <2> QED
        BY <2>1
<1>10. CASE Stage
    <2> DEFINE exports == Exports(got)
               number == Len(staged) + 1
    <2>1. exports \in [Exported -> ReadBytes] /\ number \in Nat
        <3>1. got \in [Watched -> ReadBytes] /\ staged \in Seq([Exported -> ReadBytes])
            OBVIOUS
        <3>2. exports \in [Exported -> ReadBytes]
            BY <3>1, ExportTypes
        <3>3. Len(staged) \in Nat
            BY <3>1
        <3> QED
            BY <3>2, <3>3
    <2>2. /\ staged' = Append(staged, exports)
          /\ candidate' = [number |-> number, files |-> exports]
          /\ UNCHANGED <<files, got, seen, last, failed, saved>>
        BY <1>10 DEF Stage, refresh
    <2> HIDE DEF exports, number
    <2> QED
        BY <2>1, <2>2 DEF Candidates
<1>11. CASE Save
    <2>1. saved' = [files |-> files, last |-> last, candidate |-> candidate, failed |-> failed']
          /\ failed' \in BOOLEAN
        BY <1>11 DEF Save
    <2>2. saved' \in Saves
        BY <2>1 DEF Saves
    <2>3. files' \in [Watched -> Marks] /\ got' \in [Watched -> ReadBytes]
        BY <1>11, NotSeenTypes, UnreadTypes DEF Save
    <2> QED
        BY <1>11, <2>1, <2>2, <2>3 DEF Save
<1>12. CASE End
    BY <1>12, NotSeenTypes, UnreadTypes DEF End
<1> QED
    BY <1>1, <1>2, <1>3, <1>4, <1>5, <1>6, <1>7, <1>8, <1>9, <1>10, <1>11, <1>12
    DEF WatchNext, Watch

LEMMA WatchTypesStep ==
    ASSUME WatchTypes, [WatchNext]_watchVars
    PROVE  WatchTypes'
BY DiskTypesStep, LoopTypesStep, MemoryTypesStep DEF WatchTypes

-----------------------------------------------------------------------------
\* The watch: what others may do to a file, and what that leaves of a note of it.

\* A file stays as it is, says something else, or says the same under another stamp.
Wrote(f) ==
    \/ disk'[f] = disk[f] /\ past'[f] = past[f]
    \/ /\ disk'[f].stamp = clock + 1 /\ clock' = clock + 1
       /\ disk'[f].bytes # disk[f].bytes
       /\ past'[f] = past[f] \cup {disk[f].bytes}
    \/ /\ disk'[f].stamp = clock + 1 /\ clock' = clock + 1
       /\ disk'[f].bytes = disk[f].bytes /\ disk[f].bytes # Absent
       /\ past'[f] = past[f]

LEMMA Written ==
    ASSUME WatchTypes, Others \/ UNCHANGED watchVars
    PROVE  clock' \in {clock, clock + 1} /\ \A f \in Watched : Wrote(f)
<1> USE DEF WatchTypes, DiskTypes, Wrote
<1>1. CASE \E f \in Watched, bytes \in Contents \cup {Absent} : Edit(f, bytes)
    <2>1. PICK f \in Watched, bytes \in Bytes : Edit(f, bytes)
        BY <1>1 DEF Bytes
    <2>2. /\ disk[f].bytes # bytes
          /\ disk' = [disk EXCEPT ![f] = [bytes |-> bytes, stamp |-> clock + 1]]
          /\ past' = [past EXCEPT ![f] = @ \cup {disk[f].bytes}] /\ clock' = clock + 1
        BY <2>1 DEF Edit
    <2>3. SUFFICES ASSUME NEW g \in Watched PROVE Wrote(g)
        BY <2>2
    <2>4. CASE g = f
        <3>1. disk'[f] = [bytes |-> bytes, stamp |-> clock + 1]
              /\ past'[f] = past[f] \cup {disk[f].bytes}
            BY <2>2
        <3> QED
            BY <2>2, <2>4, <3>1
    <2>5. CASE g # f
        BY <2>2, <2>5
    <2> QED
        BY <2>4, <2>5
<1>2. CASE \E f \in Watched : Rewrite(f)
    <2>1. PICK f \in Watched : Rewrite(f)
        BY <1>2
    <2>2. /\ disk[f].bytes # Absent
          /\ disk' = [disk EXCEPT ![f].stamp = clock + 1] /\ clock' = clock + 1 /\ past' = past
        BY <2>1 DEF Rewrite
    <2>3. SUFFICES ASSUME NEW g \in Watched PROVE Wrote(g)
        BY <2>2
    <2>4. CASE g = f
        <3>1. disk'[f].stamp = clock + 1 /\ disk'[f].bytes = disk[f].bytes
            BY <2>2
        <3> QED
            BY <2>2, <2>4, <3>1
    <2>5. CASE g # f
        BY <2>2, <2>5
    <2> QED
        BY <2>4, <2>5
<1>3. CASE (\E f \in Watched : Lock(f)) \/ UNCHANGED watchVars
    BY <1>3 DEF Lock, watchVars, disks
<1> QED
    BY <1>1, <1>2, <1>3 DEF Others

\* What was noted once, was said once.
LEMMA SaidStays ==
    ASSUME WatchTypes, Others \/ UNCHANGED watchVars, NEW f \in Watched, NEW mark \in Marks,
           Said(mark, f)
    PROVE  mark.hash \in past'[f] \cup {disk'[f].bytes, Unread}
BY Written DEF Said, Wrote

\* A change that was to be noticed stays so, and a write of what was never said before is noticed
\* by whoever noted what was said once, with a stamp of before.
LEMMA WritesAreNoticed ==
    ASSUME WatchTypes, Others \/ UNCHANGED watchVars,
           NEW f \in Watched, NEW mark \in Marks, NEW bytes,
           mark.stamp <= clock, Said(mark, f),
           Fresh(f, bytes) => NoticedBy(mark, f),
           disk'[f].bytes \notin past'[f], bytes # disk'[f].bytes
    PROVE  IF disk'[f].bytes = Absent THEN mark # NotSeen
           ELSE mark.stamp # disk'[f].stamp /\ mark.hash # disk'[f].bytes
<1>1. CASE disk'[f] = disk[f] /\ past'[f] = past[f]
    BY <1>1 DEF Fresh, NoticedBy
<1>2. CASE /\ disk'[f].stamp = clock + 1
           /\ past'[f] = past[f] \cup {disk[f].bytes}
    <2>1. disk'[f].bytes \in Bytes
        BY DiskTypesStep DEF WatchNext, DiskTypes
    <2>2. mark.hash # disk'[f].bytes
        BY <1>2, <2>1, WatchAssumption DEF Said, Bytes
    <2>3. mark.stamp # disk'[f].stamp
        BY <1>2 DEF Marks, WatchTypes, DiskTypes
    <2> QED
        BY <2>2, <2>3 DEF NotSeen
<1>3. CASE /\ disk'[f].stamp = clock + 1 /\ disk'[f].bytes = disk[f].bytes
           /\ disk[f].bytes # Absent /\ past'[f] = past[f]
    BY <1>3 DEF Fresh, NoticedBy, Marks, WatchTypes, DiskTypes
<1> QED
    BY <1>1, <1>2, <1>3, Written DEF Wrote

-----------------------------------------------------------------------------
\* The watch: stamps, and what is noted of a file that is not there.

LEMMA StampedStep ==
    ASSUME WatchTypes, Stamped, [WatchNext]_watchVars
    PROVE  Stamped'
<1> USE DEF Stamped, NotedBefore
<1>0. NotSeen.stamp = 0 /\ clock \in Nat /\ 0 <= clock
    BY DEF NotSeen, WatchTypes, DiskTypes
<1>1. CASE Others \/ UNCHANGED watchVars
    <2>1. UNCHANGED <<taken, seen, files, saved>>
        BY <1>1, OthersKeep DEF loop, refresh, memory
    <2>2. clock' \in {clock, clock + 1}
        BY <1>1, Written
    <2>3. ASSUME NEW f \in Watched PROVE disk'[f].stamp \in 1 .. clock'
        <3>1. disk[f].stamp \in 1 .. clock
            OBVIOUS
        <3> QED
            BY <1>0, <1>1, <2>2, <3>1, Written DEF Wrote
    <2>4. \A stamp \in Nat : stamp <= clock => stamp <= clock'
        BY <1>0, <2>2
    <2>5. taken'.stamp <= clock'
        BY <2>1, <2>4 DEF WatchTypes, LoopTypes
    <2>6. \A f \in Watched : seen'[f].stamp <= clock' /\ files'[f].stamp <= clock'
        BY <2>1, <2>4 DEF WatchTypes, MemoryTypes, Marks
    <2>7. saved' # Nothing => \A f \in Watched : saved'.files[f].stamp <= clock'
        <3>1. SUFFICES ASSUME saved # Nothing, NEW f \in Watched
                       PROVE  saved.files[f].stamp <= clock'
            BY <2>1
        <3>2. saved.files[f].stamp \in Nat
            BY <3>1 DEF WatchTypes, MemoryTypes, Saves, Marks
        <3> QED
            BY <2>4, <3>1, <3>2
    <2> QED
        BY <2>3, <2>5, <2>6, <2>7
<1>2. CASE Watch \/ WindowEnds \/ End
    <2>1. UNCHANGED <<disk, clock>>
        BY <1>2, WatchKeepsDisk DEF disks
    <2>2. CASE Start
        BY <1>0, <2>1, <2>2 DEF Start, refresh
    <2>3. CASE PollBegins \/ WindowEnds \/ Import \/ (\E f \in Files : Load(f)) \/ Evaluate \/ Stage
        BY <2>1, <2>3 DEF PollBegins, WindowEnds, Import, Load, Evaluate, Stage, loop, refresh, memory
    <2>4. CASE Scanned
        BY <2>1, <2>4 DEF Scanned, memory
    <2>5. CASE ScanHash
        <3> DEFINE f == taken.file
                   now == IF Read(f) = Absent THEN NotSeen
                          ELSE [stamp |-> taken.stamp, hash |-> Read(f)]
        <3>1. now.stamp <= clock
            BY <1>0
        <3>2. seen' = [seen EXCEPT ![f] = now] /\ taken' = NothingTaken /\ UNCHANGED <<files, saved>>
            BY <2>5 DEF ScanHash, refresh
        <3>3. f \in Watched
            BY DEF WatchTypes, LoopTypes
        <3> HIDE DEF f, now
        <3>4. \A g \in Watched : seen'[g].stamp <= clock
            BY <3>1, <3>2, <3>3 DEF WatchTypes, MemoryTypes
        <3>5. taken'.stamp <= clock
            BY <1>0, <3>2 DEF NothingTaken
        <3> QED
            BY <2>1, <3>2, <3>4, <3>5
    <2>6. CASE \E f \in Watched : ScanStamp(f)
        <3>1. PICK f \in Watched : ScanStamp(f)
            BY <2>6
        <3>2. taken'.stamp <= clock
            BY <3>1 DEF ScanStamp, WatchTypes, DiskTypes
        <3>3. seen' \in {seen, [seen EXCEPT ![f] = NotSeen]}
            BY <3>1 DEF ScanStamp
        <3>4. \A g \in Watched : seen'[g].stamp <= clock
            BY <1>0, <3>3 DEF WatchTypes, MemoryTypes
        <3>5. UNCHANGED <<files, saved>>
            BY <3>1 DEF ScanStamp, refresh
        <3> QED
            BY <2>1, <3>2, <3>4, <3>5
    <2>7. CASE Save
        <3>1. /\ saved'.files = files /\ UNCHANGED <<taken, seen>>
              /\ files' = [f \in Watched |-> NotSeen]
            BY <2>7 DEF Save
        <3> QED
            BY <1>0, <2>1, <3>1
    <2>8. CASE End
        BY <1>0, <2>1, <2>8 DEF End, NothingTaken
    <2> QED
        BY <1>2, <2>2, <2>3, <2>4, <2>5, <2>6, <2>7, <2>8 DEF Watch
<1> QED
    BY <1>1, <1>2 DEF WatchNext

\* What a scan notes of a file: what is there, when it can be read.
LEMMA NotesWhatIsThere ==
    ASSUME WatchTypes, NEW f \in Watched, NEW stamp
    PROVE  LET now == IF Read(f) = Absent THEN NotSeen ELSE [stamp |-> stamp, hash |-> Read(f)]
           IN  /\ now.hash = Read(f) /\ now.hash \in {disk[f].bytes, Unread}
               /\ now.hash = Absent => now = NotSeen
               /\ Read(f) = Absent => disk[f].bytes = Absent
BY ReadTypes, WatchAssumption DEF NotSeen, Read

LEMMA ShapedStep ==
    ASSUME WatchTypes, Shaped, Resting, [WatchNext]_watchVars
    PROVE  Shaped'
<1> USE DEF Shaped, ShapedMarks
<1>1. CASE Others \/ UNCHANGED watchVars
    BY <1>1, OthersKeep DEF memory
<1>2. CASE Start
    BY <1>2 DEF Start
<1>3. CASE PollBegins \/ WindowEnds \/ Scanned \/ Import \/ (\E f \in Files : Load(f)) \/ Evaluate
            \/ Stage
    BY <1>3 DEF PollBegins, WindowEnds, Scanned, Import, Load, Evaluate, Stage, memory
<1>4. CASE ScanHash
    <2> DEFINE f == taken.file
               now == IF Read(f) = Absent THEN NotSeen ELSE [stamp |-> taken.stamp, hash |-> Read(f)]
    <2>1. f \in Watched
        BY DEF WatchTypes, LoopTypes
    <2>2. now.hash = Absent => now = NotSeen
        BY <2>1, NotesWhatIsThere
    <2>3. seen' = [seen EXCEPT ![f] = now] /\ UNCHANGED saved
        BY <1>4 DEF ScanHash
    <2> HIDE DEF f, now
    <2>4. \A g \in Watched : seen'[g].hash = Absent => seen'[g] = NotSeen
        BY <2>1, <2>2, <2>3 DEF WatchTypes, MemoryTypes
    <2> QED
        BY <2>3, <2>4
<1>5. CASE \E f \in Watched : ScanStamp(f)
    <2>1. PICK f \in Watched : ScanStamp(f)
        BY <1>5
    <2>2. seen' \in {seen, [seen EXCEPT ![f] = NotSeen]} /\ UNCHANGED saved
        BY <2>1 DEF ScanStamp
    <2>3. \A g \in Watched : seen'[g].hash = Absent => seen'[g] = NotSeen
        BY <2>2 DEF WatchTypes, MemoryTypes
    <2> QED
        BY <2>2, <2>3
<1>6. CASE Save
    BY <1>6 DEF Save, Resting, Refreshing
<1>7. CASE End
    BY <1>7 DEF End
<1> QED
    BY <1>1, <1>2, <1>3, <1>4, <1>5, <1>6, <1>7 DEF WatchNext, Watch

-----------------------------------------------------------------------------
\* The watch: what it notes was said.

LEMMA HonestStep ==
    ASSUME WatchTypes, Stamped, Honest, Resting, [WatchNext]_watchVars
    PROVE  Honest'
<1> USE DEF Honest, NotScanned
<1>0. seen \in [Watched -> Marks] /\ (saved # Nothing => saved.files \in [Watched -> Marks])
    BY DEF WatchTypes, MemoryTypes, Saves
<1>1. CASE Others \/ UNCHANGED watchVars
    <2>1. UNCHANGED <<at, todo, taken, seen, due, saved>>
        BY <1>1, OthersKeep DEF loop, memory
    <2>2. \A f \in Watched : Said(seen[f], f) => seen[f].hash \in past'[f] \cup {disk'[f].bytes, Unread}
        BY <1>0, <1>1, SaidStays
    <2>3. saved # Nothing =>
              \A f \in Watched : saved.files[f].hash \in past'[f] \cup {disk'[f].bytes, Unread}
        BY <1>0, <1>1, SaidStays
    <2> QED
        BY <2>1, <2>2, <2>3 DEF Said
<1>2. CASE Watch \/ WindowEnds \/ End
    <2>1. UNCHANGED <<disk, past>>
        BY <1>2, WatchKeepsDisk DEF disks
    <2> USE DEF Said
    <2>2. CASE Start
        BY <2>1, <2>2 DEF Start
    <2>3. CASE PollBegins
        BY <2>1, <2>3 DEF PollBegins, memory
    <2>4. CASE Scanned
        BY <2>1, <2>4 DEF Scanned, memory
    <2>5. CASE ScanHash
        <3> DEFINE f == taken.file
                   now == IF Read(f) = Absent THEN NotSeen
                          ELSE [stamp |-> taken.stamp, hash |-> Read(f)]
        <3>1. f \in Watched
            BY DEF WatchTypes, LoopTypes
        <3>2. now.hash \in {disk[f].bytes, Unread}
            BY <3>1, NotesWhatIsThere
        <3>3. /\ at = "hash" /\ at' = "scan" /\ seen' = [seen EXCEPT ![f] = now]
              /\ UNCHANGED <<todo, due, saved>>
            BY <2>5 DEF ScanHash
        <3> HIDE DEF now
        <3>4. ASSUME NEW g \in Watched
              PROVE  \/ due # "none" /\ g \in todo /\ seen'[g] = NotSeen
                     \/ seen'[g].hash \in past[g] \cup {disk[g].bytes, Unread}
            BY <1>0, <3>1, <3>2, <3>3
        <3> QED
            BY <2>1, <3>3, <3>4
    <2>6. CASE \E f \in Watched : ScanStamp(f)
        <3>1. PICK f \in Watched : ScanStamp(f)
            BY <2>6
        <3>2. at = "scan" /\ todo' = todo \ {f} /\ UNCHANGED <<due, saved>>
            BY <3>1 DEF ScanStamp
        <3>3. CASE disk[f].bytes = Absent
            <4>1. seen' = [seen EXCEPT ![f] = NotSeen] /\ at' = at
                BY <3>1, <3>3 DEF ScanStamp
            <4> QED
                BY <1>0, <2>1, <3>2, <3>3, <4>1 DEF NotSeen
        <3>4. CASE disk[f].bytes # Absent /\ seen[f].stamp = disk[f].stamp
            <4>1. seen' = seen /\ at' = at
                BY <3>1, <3>4 DEF ScanStamp
            <4>2. seen[f] # NotSeen
                BY <3>4 DEF Stamped, NotSeen, WatchTypes, DiskTypes
            <4> QED
                BY <2>1, <3>2, <4>1, <4>2
        <3>5. CASE disk[f].bytes # Absent /\ seen[f].stamp # disk[f].stamp
            <4>1. seen' = seen /\ at' = "hash" /\ taken'.file = f
                BY <3>1, <3>5 DEF ScanStamp
            <4> QED
                BY <2>1, <3>2, <4>1
        <3> QED
            BY <3>3, <3>4, <3>5
    <2>7. CASE Import \/ (\E f \in Files : Load(f)) \/ Evaluate \/ Stage
        <3>1. at \in Refreshing /\ at' \in Refreshing /\ UNCHANGED <<seen, due, saved>>
            BY <2>7 DEF Import, Load, Evaluate, Stage, Refreshing, memory
        <3> QED
            BY <2>1, <3>1 DEF Resting, Refreshing
    <2>8. CASE Save
        BY <2>1, <2>8 DEF Save, Resting, Refreshing
    <2>9. CASE WindowEnds
        BY <2>1, <2>9 DEF WindowEnds, loop, memory
    <2>10. CASE End
        BY <2>1, <2>10 DEF End
    <2> QED
        BY <1>2, <2>2, <2>3, <2>4, <2>5, <2>6, <2>7, <2>8, <2>9, <2>10 DEF Watch
<1> QED
    BY <1>1, <1>2 DEF WatchNext

-----------------------------------------------------------------------------
\* The watch: where a poll and a refresh stand.

LEMMA RestingStep ==
    ASSUME WatchTypes, Resting, [WatchNext]_watchVars
    PROVE  Resting'
<1> USE DEF Resting, Refreshing
<1>1. CASE Others \/ UNCHANGED watchVars
    BY <1>1, OthersKeep DEF loop, refresh, memory
<1>2. CASE Start
    BY <1>2 DEF Start
<1>3. CASE PollBegins
    BY <1>3 DEF PollBegins
<1>4. CASE Scanned
    <2>1. poll' = NoPoll /\ gate'.quiet = FALSE /\ at' \in {"idle", "import"} /\ UNCHANGED seen
          /\ (at' = "import" => due' = "none" /\ files' = seen)
        BY <1>4 DEF Scanned, memory
    <2> QED
        BY <2>1 DEF NoPoll
<1>5. CASE ScanHash \/ \E f \in Watched : ScanStamp(f)
    BY <1>5 DEF ScanHash, ScanStamp
<1>6. CASE Import
    BY <1>6 DEF Import, memory
<1>7. CASE \E f \in Files : Load(f)
    BY <1>7 DEF Load, memory
<1>8. CASE Evaluate
    BY <1>8 DEF Evaluate, refresh
<1>9. CASE Stage
    BY <1>9 DEF Stage, refresh
<1>10. CASE Save
    BY <1>10 DEF Save
<1>11. CASE WindowEnds
    BY <1>11 DEF WindowEnds, loop
<1>12. CASE End
    BY <1>12 DEF End, NoPoll
<1> QED
    BY <1>1, <1>2, <1>3, <1>4, <1>5, <1>6, <1>7, <1>8, <1>9, <1>10, <1>11, <1>12
    DEF WatchNext, Watch

-----------------------------------------------------------------------------
\* The watch: no change is lost.

\* Between two scans of a file, in a refresh and at rest, whoever writes what was never said before
\* is noticed by the next scan.
LEMMA SeenIsNoticed ==
    ASSUME WatchTypes, Stamped, Honest, Others \/ UNCHANGED watchVars, at # "down", due = "none",
           NEW f \in Watched, NEW bytes,
           Fresh(f, bytes) => NoticedBy(seen[f], f),
           disk'[f].bytes \notin past'[f], bytes # disk'[f].bytes
    PROVE  IF disk'[f].bytes = Absent THEN seen[f] # NotSeen
           ELSE seen[f].stamp # disk'[f].stamp /\ seen[f].hash # disk'[f].bytes
<1>1. seen[f] \in Marks
    BY DEF WatchTypes, MemoryTypes
<1>2. seen[f].stamp <= clock
    BY DEF Stamped, NotedBefore
<1>3. Said(seen[f], f)
    BY DEF Honest
<1> QED
    BY <1>1, <1>2, <1>3, WritesAreNoticed

LEMMA SavedTrustedStep ==
    ASSUME WatchTypes, Stamped, Honest, Resting, Trusted, SavedTrusted, [WatchNext]_watchVars
    PROVE  SavedTrusted'
<1> USE DEF SavedTrusted
<1>1. CASE Others \/ UNCHANGED watchVars
    <2>1. UNCHANGED saved
        BY <1>1, OthersKeep
    <2>2. SUFFICES ASSUME saved # Nothing, ~saved.failed, saved.last # Nothing, NEW f \in Watched,
                          disk'[f].bytes \notin past'[f], saved.last[f] # disk'[f].bytes
                   PROVE  IF disk'[f].bytes = Absent THEN saved.files[f] # NotSeen
                          ELSE /\ saved.files[f].stamp # disk'[f].stamp
                               /\ saved.files[f].hash # disk'[f].bytes
        BY <2>1 DEF Fresh, NoticedBy
    <2>3. saved.files[f] \in Marks
        BY <2>2 DEF WatchTypes, MemoryTypes, Saves
    <2>4. saved.files[f].stamp <= clock
        BY <2>2 DEF Stamped, NotedBefore
    <2>5. Said(saved.files[f], f)
        BY <2>2 DEF Honest
    <2>6. Fresh(f, saved.last[f]) => NoticedBy(saved.files[f], f)
        BY <2>2
    <2> QED
        BY <1>1, <2>2, <2>3, <2>4, <2>5, <2>6, WritesAreNoticed
<1>2. CASE Watch \/ WindowEnds \/ End
    <2>1. UNCHANGED <<disk, past>>
        BY <1>2, WatchKeepsDisk DEF disks
    <2>2. CASE saved' = saved
        BY <2>1, <2>2 DEF Fresh, NoticedBy
    <2>3. CASE Save
        <3>1. /\ at \in {"save", "refused"}
              /\ saved' = [files |-> files, last |-> last, candidate |-> candidate,
                           failed |-> (at = "refused")]
            BY <2>3 DEF Save
        <3>2. CASE at = "refused"
            BY <3>1, <3>2
        <3>3. CASE at = "save"
            <4>1. due = "none" /\ ~poll.changed /\ files = seen
                BY <3>3 DEF Resting, Refreshing
            <4>2. last # Nothing =>
                      \A f \in Watched : Fresh(f, last[f]) => NoticedBy(seen[f], f)
                BY <3>3, <4>1 DEF Trusted
            <4> QED
                BY <2>1, <3>1, <4>1, <4>2 DEF Fresh, NoticedBy
        <3> QED
            BY <3>1, <3>2, <3>3
    <2>4. Watch \/ WindowEnds \/ End => Save \/ saved' = saved
        BY DEF Watch, Start, PollBegins, Scanned, ScanHash, ScanStamp, Import, Load, Evaluate, Stage,
            WindowEnds, End
    <2> QED
        BY <1>2, <2>2, <2>3, <2>4
<1> QED
    BY <1>1, <1>2 DEF WatchNext

LEMMA LoadedStep ==
    ASSUME WatchTypes, Stamped, Honest, Resting, Loaded, [WatchNext]_watchVars
    PROVE  Loaded'
<1> USE DEF Loaded
<1>1. CASE Others \/ UNCHANGED watchVars
    <2>1. UNCHANGED <<at, todo, got, seen>>
        BY <1>1, OthersKeep DEF loop, refresh, memory
    <2>2. SUFFICES ASSUME at = "load", NEW f \in Watched \ todo, got[f] # Unread,
                          disk'[f].bytes \notin past'[f], got[f] # disk'[f].bytes
                   PROVE  IF disk'[f].bytes = Absent THEN seen[f] # NotSeen
                          ELSE seen[f].stamp # disk'[f].stamp /\ seen[f].hash # disk'[f].bytes
        BY <2>1 DEF Fresh, NoticedBy
    <2>3. at # "down" /\ due = "none"
        BY <2>2 DEF Resting, Refreshing
    <2>4. Fresh(f, got[f]) => NoticedBy(seen[f], f)
        BY <2>2
    <2> QED
        BY <1>1, <2>2, <2>3, <2>4, SeenIsNoticed
<1>2. CASE Watch \/ WindowEnds \/ End
    <2>1. UNCHANGED <<disk, past>>
        BY <1>2, WatchKeepsDisk DEF disks
    <2>2. CASE Import
        <3>1. at' = "load" => todo' = Files /\ got' = [f \in Watched |-> IF f = Snapshot THEN Read(f)
                                                                        ELSE Unread]
            BY <2>2 DEF Import
        <3>2. Read(Snapshot) \in {disk[Snapshot].bytes, Unread}
            BY ReadTypes
        <3> QED
            BY <2>1, <3>1, <3>2 DEF Fresh
    <2>3. CASE \E f \in Files : Load(f)
        <3>1. PICK f \in Files : Load(f)
            BY <2>3
        <3>2. /\ at = "load" /\ todo' = todo \ {f} /\ got' = [got EXCEPT ![f] = Read(f)]
              /\ UNCHANGED seen
            BY <3>1 DEF Load, memory
        <3>3. Read(f) \in {disk[f].bytes, Unread}
            BY ReadTypes
        <3>4. got \in [Watched -> ReadBytes]
            BY DEF WatchTypes, MemoryTypes
        <3> QED
            BY <2>1, <3>2, <3>3, <3>4 DEF Fresh, NoticedBy
    <2>4. Watch \/ WindowEnds \/ End =>
              \/ Import \/ (\E f \in Files : Load(f)) \/ at' # "load"
              \/ UNCHANGED <<at, todo, got, seen>>
        BY DEF Watch, Start, PollBegins, Scanned, ScanHash, ScanStamp, Evaluate, Stage, Save,
            WindowEnds, End, loop, refresh, memory
    <2>5. CASE at' # "load"
        BY <2>5
    <2>6. CASE UNCHANGED <<at, todo, got, seen>>
        BY <2>1, <2>6 DEF Fresh, NoticedBy
    <2> QED
        BY <1>2, <2>2, <2>3, <2>4, <2>5, <2>6
<1> QED
    BY <1>1, <1>2 DEF WatchNext

\* A poll that has seen a change has seen it when it goes on, and a scan of a file adds one.
LEMMA ChangeIsSeen ==
    ASSUME WatchTypes, NEW change \in BOOLEAN,
           poll' = [poll EXCEPT !.changed = poll.changed \/ change]
    PROVE  poll'.changed = (poll.changed \/ change)
<1> DEFINE changed == poll.changed \/ change
<1>1. poll \in [changed : BOOLEAN, ripe : BOOLEAN] /\ poll' = [poll EXCEPT !.changed = changed]
    BY DEF WatchTypes, LoopTypes
<1> HIDE DEF changed
<1>2. poll'.changed = changed
    BY <1>1
<1> QED
    BY <1>2 DEF changed

LEMMA ScanChanges ==
    ASSUME WatchTypes, ScanHash \/ \E f \in Watched : ScanStamp(f)
    PROVE  poll.changed => poll'.changed
<1>1. CASE ScanHash
    <2> DEFINE now == IF Read(taken.file) = Absent THEN NotSeen
                      ELSE [stamp |-> taken.stamp, hash |-> Read(taken.file)]
               change == now.hash = Unread \/ now.hash # seen[taken.file].hash
    <2>1. poll' = [poll EXCEPT !.changed = poll.changed \/ change] /\ change \in BOOLEAN
        BY <1>1 DEF ScanHash
    <2> HIDE DEF now, change
    <2> QED
        BY <2>1, ChangeIsSeen
<1>2. CASE \E f \in Watched : ScanStamp(f)
    <2>1. PICK f \in Watched : ScanStamp(f)
        BY <1>2
    <2> DEFINE change == seen[f] # NotSeen
    <2>2. \/ poll' = poll
          \/ poll' = [poll EXCEPT !.changed = poll.changed \/ change] /\ change \in BOOLEAN
        BY <2>1 DEF ScanStamp
    <2> HIDE DEF change
    <2> QED
        BY <2>2, ChangeIsSeen
<1> QED
    BY <1>1, <1>2

\* The scan of one file: what it was to notice it has noticed, and the poll has seen a change.
LEMMA ScanNotices ==
    ASSUME WatchTypes, Shaped, NEW f \in Watched, NoticedBy(seen[f], f),
           (taken.file = f /\ ScanHash) \/ ScanStamp(f)
    PROVE  poll'.changed \/ seen' = seen
<1>1. CASE taken.file = f /\ ScanHash
    <2> DEFINE now == IF Read(f) = Absent THEN NotSeen
                      ELSE [stamp |-> taken.stamp, hash |-> Read(f)]
               change == now.hash = Unread \/ now.hash # seen[f].hash
    <2>1. now.hash \in {disk[f].bytes, Unread}
        BY NotesWhatIsThere
    <2>2. poll' = [poll EXCEPT !.changed = poll.changed \/ change] /\ change \in BOOLEAN
        BY <1>1 DEF ScanHash
    <2>3. disk[f].bytes # seen[f].hash
        BY DEF NoticedBy, Shaped, ShapedMarks
    <2> HIDE DEF now
    <2>4. change
        BY <2>1, <2>3
    <2> HIDE DEF change
    <2> QED
        BY <2>2, <2>4, ChangeIsSeen
<1>2. CASE ScanStamp(f) /\ disk[f].bytes = Absent
    <2> DEFINE change == seen[f] # NotSeen
    <2>1. poll' = [poll EXCEPT !.changed = poll.changed \/ change] /\ change
        BY <1>2 DEF ScanStamp, NoticedBy
    <2> HIDE DEF change
    <2>2. change \in BOOLEAN
        BY DEF change
    <2> QED
        BY <2>1, <2>2, ChangeIsSeen
<1>3. CASE ScanStamp(f) /\ disk[f].bytes # Absent
    BY <1>3 DEF ScanStamp, NoticedBy
<1> QED
    BY <1>1, <1>2, <1>3

LEMMA TrustedStep ==
    ASSUME WatchTypes, Stamped, Shaped, Honest, Resting, Trusted, SavedTrusted, Loaded,
           [WatchNext]_watchVars
    PROVE  Trusted'
<1> USE DEF Trusted
<1>1. CASE Others \/ UNCHANGED watchVars
    <2>1. UNCHANGED <<at, failed, last, due, poll, seen>>
        BY <1>1, OthersKeep DEF loop, memory
    <2>2. SUFFICES ASSUME at \in {"stage", "save"} \/ (at \in {"idle", "scan", "hash"} /\ ~failed),
                          last # Nothing, due = "none", ~poll.changed, NEW f \in Watched,
                          disk'[f].bytes \notin past'[f], last[f] # disk'[f].bytes
                   PROVE  IF disk'[f].bytes = Absent THEN seen[f] # NotSeen
                          ELSE seen[f].stamp # disk'[f].stamp /\ seen[f].hash # disk'[f].bytes
        BY <2>1 DEF Fresh, NoticedBy
    <2>3. Fresh(f, last[f]) => NoticedBy(seen[f], f)
        BY <2>2
    <2> QED
        BY <1>1, <2>2, <2>3, SeenIsNoticed
<1>2. CASE Watch \/ WindowEnds \/ End
    <2>1. UNCHANGED <<disk, past>>
        BY <1>2, WatchKeepsDisk DEF disks
    <2> USE DEF Fresh, NoticedBy
    <2>2. CASE Start
        <3>1. CASE saved = Nothing
            BY <2>2, <3>1 DEF Start
        <3>2. CASE saved # Nothing
            <4>1. /\ at' = "idle" /\ seen' = saved.files /\ last' = saved.last
                  /\ failed' = saved.failed
                BY <2>2, <3>2 DEF Start
            <4> QED
                BY <2>1, <3>2, <4>1 DEF SavedTrusted
        <3> QED
            BY <3>1, <3>2
    <2>3. CASE PollBegins
        <3>1. at = "idle" /\ at' = "scan" /\ ~poll.changed /\ UNCHANGED <<failed, last, due, seen>>
            BY <2>3 DEF PollBegins, memory, Resting
        <3> QED
            BY <2>1, <3>1
    <2>4. CASE Scanned
        <3>1. /\ at = "scan" /\ at' \in {"idle", "import"} /\ UNCHANGED <<failed, last, seen>>
              /\ at' = "idle" => due' = IF poll.changed /\ ~gate.quiet /\ due = "none" THEN "open"
                                        ELSE due
            BY <2>4 DEF Scanned, memory
        <3>2. at' = "idle" /\ (due # "none" \/ poll.changed) => due' # "none"
            BY <3>1 DEF Resting
        <3> QED
            BY <2>1, <3>1, <3>2
    <2>5. CASE ScanHash \/ \E f \in Watched : ScanStamp(f)
        <3>1. /\ at \in {"scan", "hash"} /\ at' \in {"scan", "hash"}
              /\ UNCHANGED <<failed, last, due>>
            BY <2>5 DEF ScanHash, ScanStamp
        <3>2. SUFFICES ASSUME ~failed, last # Nothing, NEW g \in Watched, Fresh(g, last[g]),
                              due = "none"
                       PROVE  poll'.changed \/ NoticedBy(seen'[g], g)
            BY <2>1, <3>1
        <3>3. poll.changed \/ NoticedBy(seen[g], g)
            BY <3>1, <3>2
        <3>4. poll.changed => poll'.changed
            BY <2>5, ScanChanges
        <3>5. PICK f \in Watched : (taken.file = f /\ ScanHash) \/ ScanStamp(f)
            BY <2>5 DEF WatchTypes, LoopTypes
        <3>6. CASE g = f
            <4>1. CASE NoticedBy(seen[g], g)
                BY <3>5, <3>6, <4>1, ScanNotices
            <4> QED
                BY <3>3, <3>4, <4>1
        <3>7. CASE g # f
            <4>1. seen'[g] = seen[g]
                BY <3>5, <3>7 DEF ScanHash, ScanStamp, WatchTypes, MemoryTypes
            <4> QED
                BY <3>3, <3>4, <4>1
        <3> QED
            BY <3>6, <3>7
    <2>6. CASE Import \/ \E f \in Files : Load(f)
        BY <2>6 DEF Import, Load
    <2>7. CASE Evaluate
        <3>1. CASE ~Checks
            BY <2>7, <3>1 DEF Evaluate
        <3>2. CASE Checks
            <4>1. at = "load" /\ todo = {} /\ last' = got /\ UNCHANGED seen
                BY <2>7, <3>2 DEF Evaluate
            <4>2. \A f \in Watched : got[f] # Unread
                BY <3>2 DEF Checks
            <4> QED
                BY <2>1, <4>1, <4>2 DEF Loaded
        <3> QED
            BY <3>1, <3>2
    <2>8. CASE Stage
        BY <2>1, <2>8 DEF Stage
    <2>9. CASE Save
        <3>1. CASE at = "refused"
            BY <2>9, <3>1 DEF Save
        <3>2. CASE at = "save"
            BY <2>1, <2>9, <3>2 DEF Save
        <3> QED
            BY <2>9, <3>1, <3>2 DEF Save
    <2>10. CASE WindowEnds
        BY <2>1, <2>10 DEF WindowEnds, loop, memory
    <2>11. CASE End
        BY <2>11 DEF End
    <2> QED
        BY <1>2, <2>2, <2>3, <2>4, <2>5, <2>6, <2>7, <2>8, <2>9, <2>10, <2>11 DEF Watch
<1> QED
    BY <1>1, <1>2 DEF WatchNext

-----------------------------------------------------------------------------
\* The watch: what was exported was staged.

LEMMA StagingStep ==
    ASSUME WatchTypes, Staging, [WatchNext]_watchVars
    PROVE  Staging'
<1> USE DEF Staging
<1>1. CASE Others \/ UNCHANGED watchVars
    BY <1>1, OthersKeep DEF loop, refresh, memory, StagedIs, Shows, Refused
<1>2. CASE Start
    <2>1. CASE saved = Nothing
        BY <1>2, <2>1 DEF Start, StagedIs, Shows
    <2>2. CASE saved # Nothing
        <3>1. /\ at' = "idle" /\ last' = saved.last /\ candidate' = saved.candidate
              /\ UNCHANGED <<saved, staged>>
            BY <1>2, <2>2 DEF Start
        <3> QED
            BY <2>2, <3>1 DEF StagedIs, Shows, Refused
    <2> QED
        BY <2>1, <2>2
<1>3. CASE \/ PollBegins \/ WindowEnds \/ Scanned \/ ScanHash \/ (\E f \in Watched : ScanStamp(f))
           \/ Import \/ (\E f \in Files : Load(f))
    <2>1. at' # "stage" \/ (at' = at /\ got' = got)
        BY <1>3 DEF PollBegins, WindowEnds, Scanned, ScanHash, ScanStamp, Import, Load, loop, refresh
    <2>3. at # "stage" \/ at' = at
        BY <1>3 DEF PollBegins, WindowEnds, Scanned, ScanHash, ScanStamp, Import, Load, loop
    <2>2. UNCHANGED <<last, candidate, saved, staged>>
        BY <1>3 DEF PollBegins, WindowEnds, Scanned, ScanHash, ScanStamp, Import, Load, memory
    <2> QED
        BY <2>1, <2>2, <2>3 DEF StagedIs, Shows, Refused
<1>4. CASE Evaluate
    <2>1. UNCHANGED <<candidate, saved, staged, got>> /\ at = "load"
        BY <1>4 DEF Evaluate, refresh
    <2>2. CASE ~Checks
        <3>1. at' = "refused" /\ last' = last
            BY <1>4, <2>2 DEF Evaluate
        <3> QED
            BY <2>1, <3>1 DEF StagedIs, Shows, Refused
    <2>3. CASE Checks
        <3>1. last' = got
              /\ \/ at' = "stage"
                 \/ at' = "save" /\ (Refused(got) \/ (candidate # Nothing
                                                      /\ candidate.files = Exports(got)))
            BY <1>4, <2>3 DEF Evaluate
        <3> QED
            BY <2>1, <3>1 DEF StagedIs, Shows, Refused
    <2> QED
        BY <2>2, <2>3
<1>5. CASE Stage
    <2> DEFINE exports == Exports(got)
    <2>1. /\ staged' = Append(staged, exports)
          /\ candidate' = [number |-> Len(staged) + 1, files |-> exports]
          /\ UNCHANGED <<last, saved>> /\ last = got /\ at' = "save"
        BY <1>5 DEF Stage
    <2>2. exports \in [Exported -> ReadBytes] /\ staged \in Seq([Exported -> ReadBytes])
        <3>1. got \in [Watched -> ReadBytes] /\ staged \in Seq([Exported -> ReadBytes])
            BY DEF WatchTypes, MemoryTypes
        <3> QED
            BY <3>1, ExportTypes
    <2> DEFINE number == Len(staged) + 1
    <2>3. number \in Nat /\ DOMAIN staged' = 1 .. number /\ staged'[number] = exports
          /\ \A i \in DOMAIN staged : i \in DOMAIN staged' /\ staged'[i] = staged[i]
        BY <2>1, <2>2
    <2>4. candidate' # Nothing
        <3> HIDE DEF exports
        <3>1. [number |-> number, files |-> exports] \in
                  [number : Nat, files : [Exported -> ReadBytes]]
            BY <2>2, <2>3
        <3> QED
            BY <2>1, <3>1, WatchAssumption DEF ReadBytes, Bytes
    <2>5. number \in 1 .. number
        BY <2>2
    <2> HIDE DEF number
    <2>6. candidate'.number = number /\ candidate'.files = exports
        BY <2>1 DEF number
    <2>7. StagedIs(candidate)' /\ Shows(last, candidate)'
        BY <2>1, <2>3, <2>4, <2>5, <2>6 DEF StagedIs, Shows
    <2>8. saved # Nothing => StagedIs(saved.candidate)' /\ Shows(saved.last, saved.candidate)'
        BY <2>1, <2>3 DEF StagedIs, Shows, Refused
    <2> QED
        BY <2>1, <2>7, <2>8
<1>6. CASE Save
    <2>1. /\ saved'.last = last /\ saved'.candidate = candidate /\ at # "stage" /\ at' = "idle"
          /\ UNCHANGED <<last, candidate, staged>>
        BY <1>6 DEF Save
    <2> QED
        BY <2>1 DEF StagedIs, Shows, Refused
<1>7. CASE End
    BY <1>7 DEF End, StagedIs, Shows, Refused
<1> QED
    BY <1>1, <1>2, <1>3, <1>4, <1>5, <1>6, <1>7 DEF WatchNext, Watch

-----------------------------------------------------------------------------
\* The watch: the theorems.

LEMMA WatchStep ==
    ASSUME WatchInv, [WatchNext]_watchVars
    PROVE  WatchInv'
BY WatchTypesStep, StampedStep, ShapedStep, HonestStep, RestingStep, SavedTrustedStep, LoadedStep,
    TrustedStep, StagingStep
DEF WatchInv

\* Every reachable state of the watch satisfies its inductive invariant.
THEOREM WatchInvHolds == WatchSpec => []WatchInv
BY WatchStarts, WatchStep, PTL DEF WatchSpec

\* No change of a file is lost: whatever is written while a scan or a refresh reads, wherever the
\* watch ends and starts again, and however the files lock, a file that says what it never said
\* before and that the outputs were not made of has a window open or is noticed by the next scan.
THEOREM NoChangeIsLost == WatchSpec => []NoChangeLost
<1>1. WatchInv => NoChangeLost
    BY DEF WatchInv, Trusted, Resting, NoChangeLost, Kept, Stale, Noticed, Fresh, NoticedBy
<1> QED
    BY <1>1, WatchInvHolds, PTL

\* After a refresh whose exports were not refused, the candidate that the watch names was staged
\* and holds the exports of what the last run read, wherever an earlier watch ended.
THEOREM ExportsWereStaged == WatchSpec => []ExportsAreStaged
<1>1. WatchInv => ExportsAreStaged
    BY DEF WatchInv, Staging, StagedIs, Shows, ExportsAreStaged
<1> QED
    BY <1>1, WatchInvHolds, PTL

=============================================================================
