------------------------------ MODULE EnginePool ------------------------------
(***************************************************************************)
(* The engine host's worker pool (model/src/acmodel/engine/pool.py) and    *)
(* the worker processes it runs (engine/worker.py).  The host is one       *)
(* thread: a step of it here is one pass of a loop of `_run`, or one       *)
(* worker handled in it.  The workers are processes of their own: they may *)
(* answer, hang or die between any two steps of the host.                  *)
(*                                                                         *)
(* A deadline is passed at any time at which nothing is ready: what the    *)
(* host does then is modelled, how long it waited is not.  Whether a       *)
(* worker is recycled after a batch (requests served, private memory) is   *)
(* left open, and so is the order in which idle workers are sent to.       *)
(***************************************************************************)
EXTENDS Naturals, Sequences, FiniteSets

CONSTANTS
  Unsettled,      \* a request has no outcome yet
  NoFrame,        \* nothing in a worker's channel
  WorkersMax,     \* compute.workers.max
  RestartBudget,  \* engine.restart_budget
  BatchSize,      \* the manifest's max_batch
  MaxRequests,    \* bound: requests of one call
  MaxCalls,       \* bound: calls in one behaviour
  Faults          \* what a run lets go wrong

FaultNames == {"start", "boot", "die", "timeout", "exception", "memory", "guard", "recycle",
               "reading"}

ASSUME PoolAssumption ==
  /\ WorkersMax \in Nat \ {0} /\ BatchSize \in Nat \ {0}
  /\ RestartBudget \in Nat /\ MaxRequests \in Nat /\ MaxCalls \in Nat
  /\ Faults \subseteq FaultNames
  /\ Unsettled \notin {"answered", "failed"}

VARIABLES
  pc,        \* what the host does next
  op,        \* the call it runs, or ran last
  limit,     \* workers this call may have in its group
  calls,     \* calls begun
  size,      \* the batch size of the call
  outcomes,  \* its outcomes, by request
  pending,   \* its batches that are to be sent, in order
  worker,    \* per slot, the worker in it
  ready,     \* workers the host is going through after a wait
  restarts,  \* restarts used, for the life of the pool
  ended,     \* how the last call ended
  refused    \* a send of this pass found its worker gone

callVars == <<op, limit, calls, size>>
vars == <<pc, callVars, outcomes, pending, worker, ready, restarts, ended, refused>>

(* Slot 0 is the verify worker's, which runs alone under its own hash seed. *)
Verify == 0
Main == 1..WorkersMax
Slots == 0..WorkersMax
Batches == 1..MaxRequests

Frames == [tag : {"ready", "boot_failed", "result", "exception", "memory", "guard"},
           batch : 0..MaxRequests]
(* A worker as the host sees it (state, batch), and its process: what it   *)
(* does, the batch it has, and the frame it sent that is not received yet. *)
Workers == [state : {"none", "starting", "idle", "busy"}, batch : 0..MaxRequests,
            proc : {"boot", "idle", "working", "gone"}, job : 0..MaxRequests,
            frame : Frames \cup {NoFrame}]
NoWorker == [state |-> "none", batch |-> 0, proc |-> "gone", job |-> 0, frame |-> NoFrame]
NewWorker == [state |-> "starting", batch |-> 0, proc |-> "boot", job |-> 0, frame |-> NoFrame]

TypeOK ==
  /\ pc \in {"between", "warm", "room", "loop", "start", "send", "wait", "receive", "timeouts"}
  /\ op \in {"warm", "call", "verify"} /\ limit \in 0..WorkersMax /\ calls \in 0..MaxCalls
  /\ size \in 1..BatchSize
  /\ \E n \in 0..MaxRequests : outcomes \in [1..n -> {Unsettled, "answered", "failed"}]
  /\ pending \in Seq(Batches)
  /\ worker \in [Slots -> Workers]
  /\ ready \subseteq Slots
  /\ restarts \in 0..RestartBudget
  /\ ended \in {"none", "returned", "raised", "stuck"} /\ refused \in BOOLEAN

Init ==
  /\ pc = "between" /\ op = "call" /\ limit = 0 /\ calls = 0 /\ size = 1
  /\ outcomes = <<>> /\ pending = <<>>
  /\ worker = [s \in Slots |-> NoWorker]
  /\ ready = {} /\ restarts = 0 /\ ended = "none" /\ refused = FALSE

-----------------------------------------------------------------------------
Alive(s) == worker[s].state # "none"
Live == {s \in Slots : Alive(s)}
Group == {s \in (IF op = "verify" THEN {Verify} ELSE Main) : Alive(s)}
In(state) == {s \in Group : worker[s].state = state}
Waiting == Group \ In("idle")

NumBatches == (Len(outcomes) + size - 1) \div size
\* Mutant: the last request of a full batch is left out.
PositionsShort(b) == {i \in DOMAIN outcomes : (i \div size) + 1 = b}

Positions(b) == {i \in DOMAIN outcomes : ((i - 1) \div size) + 1 = b}
Settled(b, kind) ==
  [i \in DOMAIN outcomes |-> IF i \in Positions(b) THEN kind ELSE outcomes[i]]

(* The call raises: every worker is stopped (close).                       *)
Raised(how) ==
  /\ pc' = "between" /\ ended' = how
  /\ outcomes' = <<>> /\ pending' = <<>> /\ ready' = {}
  /\ worker' = [s \in Slots |-> NoWorker]
  /\ UNCHANGED <<callVars, restarts, refused>>

(* A worker ended abnormally: one restart more, then what the pool goes on *)
(* with; past the budget the call raises (_restarted).                     *)
Restarted(goesOn) ==
  \/ restarts < RestartBudget /\ restarts' = restarts + 1 /\ goesOn
  \/ restarts = RestartBudget /\ Raised("raised")

-----------------------------------------------------------------------------
(* The calls.                                                              *)

(* A defect (stuck) ends the program: nothing calls the pool after it.     *)
Begins(o) ==
  /\ pc = "between" /\ calls < MaxCalls /\ ended # "stuck"
  /\ op' = o /\ calls' = calls + 1 /\ ended' = "none"
  /\ refused' = FALSE
  /\ UNCHANGED <<worker, ready, restarts>>

(* warm: workers up to a count, before the loop.                           *)
Warm ==
  /\ Begins("warm")
  /\ pc' = "warm" /\ limit' \in 1..WorkersMax
  /\ outcomes' = <<>> /\ pending' = <<>> /\ size' = 1

(* _work: the requests in batches; one at a time for a search.             *)
Handed(n, width) ==
  /\ outcomes' = [i \in 1..n |-> Unsettled]
  /\ size' = width
  /\ pending' = [b \in 1..((n + width - 1) \div width) |-> b]

Call ==
  /\ Begins("call")
  /\ pc' = "loop" /\ limit' = WorkersMax
  /\ \E n \in 0..MaxRequests, width \in {1, BatchSize} : Handed(n, width)

VerifyCall ==
  /\ Begins("verify")
  /\ pc' = "room" /\ limit' = 1
  /\ \E n \in 1..MaxRequests : Handed(n, 1)

(* verify: main workers are stopped, the last first, until its own has a   *)
(* slot.                                                                   *)
MakeRoom ==
  /\ pc = "room"
  /\ IF Live # {} /\ Cardinality(Live) >= WorkersMax
       THEN /\ \E s \in Live : worker' = [worker EXCEPT ![s] = NoWorker]
            /\ pc' = "room"
       ELSE pc' = "loop" /\ UNCHANGED worker
  /\ UNCHANGED <<callVars, outcomes, pending, ready, restarts, ended, refused>>

-----------------------------------------------------------------------------
(* _start: a slot no worker of the group has; a start that fails raises.   *)
FreeSlot == IF op = "verify" THEN Verify ELSE CHOOSE s \in Main : ~Alive(s)

Starts ==
  \/ /\ worker' = [worker EXCEPT ![FreeSlot] = NewWorker]
     /\ UNCHANGED <<pc, callVars, outcomes, pending, ready, restarts, ended, refused>>
  \/ "start" \in Faults /\ Raised("raised")

Room == Cardinality(Group) < limit /\ Cardinality(Live) < WorkersMax

Goes(next) ==
  /\ pc' = next
  /\ UNCHANGED <<callVars, outcomes, pending, worker, ready, restarts, ended, refused>>

WarmStarts == pc = "warm" /\ (IF Room THEN Starts ELSE Goes("loop"))

(* The loop of _run: over once nothing is pending and every worker of the  *)
(* group is idle.  A verify run then stops its worker.                     *)
Return ==
  /\ pc = "loop" /\ pending = <<>> /\ Waiting = {}
  /\ pc' = "between" /\ ended' = "returned"
  /\ worker' = IF op = "verify" THEN [worker EXCEPT ![Verify] = NoWorker] ELSE worker
  /\ UNCHANGED <<callVars, outcomes, pending, ready, restarts, refused>>

Loop ==
  /\ pc = "loop" /\ (pending # <<>> \/ Waiting # {})
  /\ pc' = "start" /\ refused' = FALSE
  /\ UNCHANGED <<callVars, outcomes, pending, worker, ready, restarts, ended>>

StartOne ==
  /\ pc = "start"
  /\ IF Len(pending) > Cardinality(In("idle")) + Cardinality(In("starting")) /\ Room
       THEN Starts
       ELSE Goes("send")

\* Mutant: a crash loses the batch the worker had.
CrashedLosing(s, batch, later, step) ==
  Restarted(/\ worker' = [worker EXCEPT ![s] = NoWorker]
            /\ pending' = later
            /\ step
            /\ UNCHANGED <<callVars, outcomes, ended>>)

(* _crashed: the worker is reaped, and its batch runs again before those   *)
(* still to be sent; step is what its caller goes on with.                 *)
Crashed(s, batch, later, step) ==
  Restarted(/\ worker' = [worker EXCEPT ![s] = NoWorker]
            /\ pending' = IF batch = 0 THEN later ELSE <<batch>> \o later
            /\ step
            /\ UNCHANGED <<callVars, outcomes, ended>>)

(* _send to one idle worker; one that is gone takes nothing: a crash.      *)
Send ==
  /\ pc = "send" /\ pending # <<>>
  /\ \E s \in In("idle") :
       LET b == Head(pending)
       IN IF worker[s].proc = "gone"
            THEN Crashed(s, b, Tail(pending), refused' = TRUE /\ UNCHANGED <<pc, ready>>)
            ELSE /\ worker' = [worker EXCEPT ![s] = [@ EXCEPT !.state = "busy", !.batch = b,
                                                             !.proc = "working", !.job = b]]
                 /\ pending' = Tail(pending)
                 /\ UNCHANGED <<pc, callVars, outcomes, ready, restarts, ended, refused>>

(* Nothing to wait for: nothing is left to do, or the batches left can be  *)
(* sent to no one, which the code takes for a defect of its caller.        *)
Sent ==
  /\ pc = "send" /\ (pending = <<>> \/ In("idle") = {})
  /\ IF Waiting # {} THEN Goes("wait")
     ELSE IF pending = <<>> THEN Goes("loop")
     ELSE Raised("stuck")

-----------------------------------------------------------------------------
Readable(s) == worker[s].frame # NoFrame \/ worker[s].proc = "gone"

\* Mutant: the host waits without a deadline.
WaitLong ==
  /\ pc = "wait"
  /\ LET readable == {s \in Waiting : Readable(s)}
     IN readable # {} /\ pc' = "receive" /\ ready' = readable
  /\ UNCHANGED <<callVars, outcomes, pending, worker, restarts, ended, refused>>

(* wait: the workers with a frame to receive or a channel closed; or, past *)
(* a deadline with none, those that are late.                              *)
Wait ==
  /\ pc = "wait"
  /\ LET readable == {s \in Waiting : Readable(s)}
     IN \/ readable # {} /\ pc' = "receive" /\ ready' = readable
        \/ /\ readable = {} /\ "timeout" \in Faults
           /\ pc' = "timeouts"
           /\ ready' \in (SUBSET Waiting) \ {{}}
  /\ UNCHANGED <<callVars, outcomes, pending, worker, restarts, ended, refused>>

Through ==
  /\ pc \in {"receive", "timeouts"} /\ ready = {}
  /\ Goes("loop")

Handles(s) == ready' = ready \ {s} /\ UNCHANGED <<pc, refused>>

(* _timed_out: killed; the requests it had fail, and are not run again.    *)
TimedOut(s) ==
  /\ pc = "timeouts" /\ s \in ready
  /\ IF worker[s].state = "starting" THEN Raised("raised")
     ELSE Restarted(/\ outcomes' = Settled(worker[s].batch, "failed")
                    /\ worker' = [worker EXCEPT ![s] = NoWorker]
                    /\ Handles(s)
                    /\ UNCHANGED <<callVars, pending, ended>>)

(* _receive of a closed channel: the worker exited without answering.      *)
ReceiveClosed(s) ==
  /\ worker[s].frame = NoFrame
  /\ Crashed(s, worker[s].batch, pending, Handles(s))

(* _started: a ready worker is idle; anything else raises.                 *)
ReceiveStarted(s) ==
  /\ worker[s].frame # NoFrame /\ worker[s].state = "starting"
  /\ IF worker[s].frame.tag = "ready"
       THEN /\ worker' = [worker EXCEPT ![s] = [@ EXCEPT !.state = "idle", !.frame = NoFrame]]
            /\ Handles(s)
            /\ UNCHANGED <<callVars, outcomes, pending, restarts, ended>>
       ELSE Raised("raised")

(* _answered, by tag.  The results in hand, the worker may be recycled     *)
(* (stopped), and reading the memory of one that is gone may raise.        *)
ReceiveResult(s) ==
  /\ worker[s].frame.tag = "result"
  /\ \/ \E kept \in {TRUE} \cup {FALSE : r \in Faults \cap {"recycle"}} :
          worker' = [worker EXCEPT ![s] =
            IF kept THEN [@ EXCEPT !.state = "idle", !.batch = 0, !.frame = NoFrame]
            ELSE NoWorker]
        /\ outcomes' = Settled(worker[s].batch, "answered")
        /\ Handles(s)
        /\ UNCHANGED <<callVars, pending, restarts, ended>>
     \/ "reading" \in Faults /\ worker[s].proc = "gone" /\ Raised("raised")

(* An exception: the batch's requests fail, the worker is not used again.  *)
ReceiveException(s) ==
  /\ worker[s].frame.tag = "exception"
  /\ outcomes' = Settled(worker[s].batch, "failed")
  /\ worker' = [worker EXCEPT ![s] = NoWorker]
  /\ Handles(s)
  /\ UNCHANGED <<callVars, pending, restarts, ended>>

(* The memory limit: they fail, and the worker exits by itself: a restart. *)
ReceiveMemory(s) ==
  /\ worker[s].frame.tag = "memory"
  /\ Restarted(/\ outcomes' = Settled(worker[s].batch, "failed")
               /\ worker' = [worker EXCEPT ![s] = NoWorker]
               /\ Handles(s)
               /\ UNCHANGED <<callVars, pending, ended>>)

ReceiveGuard(s) == worker[s].frame.tag = "guard" /\ Raised("raised")

ReceiveAnswer(s) ==
  /\ worker[s].frame # NoFrame /\ worker[s].state = "busy"
  /\ ReceiveResult(s) \/ ReceiveException(s) \/ ReceiveMemory(s) \/ ReceiveGuard(s)

Receive ==
  /\ pc = "receive"
  /\ \E s \in ready : ReceiveClosed(s) \/ ReceiveStarted(s) \/ ReceiveAnswer(s)

-----------------------------------------------------------------------------
(* The worker processes (worker.py): the import and description, then one  *)
(* answer for each batch.  A memory limit ends the process after it said   *)
(* so, and so does a start that failed.                                    *)
ProcessStep(s, proc, frame) ==
  /\ worker' = [worker EXCEPT ![s] = [@ EXCEPT !.proc = proc, !.frame = frame]]
  /\ UNCHANGED <<pc, callVars, outcomes, pending, ready, restarts, ended, refused>>

Boots(s) ==
  /\ worker[s].proc = "boot"
  /\ \/ ProcessStep(s, "idle", [tag |-> "ready", batch |-> 0])
     \/ /\ "boot" \in Faults
        /\ \E tag \in {"boot_failed", "guard"} :
             ProcessStep(s, "gone", [tag |-> tag, batch |-> 0])

Answers(s) ==
  /\ worker[s].proc = "working"
  /\ \E tag \in {"result"} \cup (Faults \cap {"exception", "memory", "guard"}) :
       ProcessStep(s, IF tag = "memory" THEN "gone" ELSE "idle",
                   [tag |-> tag, batch |-> worker[s].job])

Dies(s) ==
  /\ "die" \in Faults /\ worker[s].proc # "gone"
  /\ ProcessStep(s, "gone", worker[s].frame)

-----------------------------------------------------------------------------
Host ==
  \/ MakeRoom \/ WarmStarts \/ Return \/ Loop \/ StartOne \/ Send \/ Sent \/ Wait \/ Through
  \/ (\E s \in ready : TimedOut(s)) \/ Receive

Process(s) == Boots(s) \/ Answers(s) \/ Dies(s)

Next ==
  \/ Warm \/ Call \/ VerifyCall
  \/ Host
  \/ \E s \in Slots : Process(s)

Spec == Init /\ [][Next]_vars

(* The host's thread runs on; past a deadline it does not wait, so nothing *)
(* is assumed of a worker.                                                 *)
FairSpec == Spec /\ WF_vars(Host)

-----------------------------------------------------------------------------
(* What must hold.                                                         *)

Count(b) ==
  Cardinality({i \in 1..Len(pending) : pending[i] = b})
    + Cardinality({s \in Slots : worker[s].state = "busy" /\ worker[s].batch = b})

\* Until its requests have their outcomes, a batch of the running call is to
\* be sent or with one worker, and never both, twice or nowhere, whatever
\* crashed, was recycled or timed out meanwhile (_run, _crashed, _answered).
EachBatchOnce ==
  pc # "between" =>
    \A b \in 1..NumBatches :
      IF \E i \in Positions(b) : outcomes[i] = Unsettled
        THEN Count(b) = 1 /\ \A i \in Positions(b) : outcomes[i] = Unsettled
        ELSE Count(b) = 0

\* What the host receives from a busy worker answers the batch it sent it, and
\* an idle worker has nothing left in its channel: no late answer is taken for
\* the next batch's, of this call or of a later one.
AnswersOwnBatch ==
  \A s \in Slots :
    /\ (worker[s].state = "busy" /\ worker[s].frame # NoFrame)
         => worker[s].frame.batch = worker[s].batch
    /\ worker[s].state = "idle" => worker[s].frame = NoFrame

\* Between calls no worker starts, is busy or is the verify run's, and a call
\* that raised left none.
PoolAtRest ==
  pc = "between" =>
    /\ ~Alive(Verify)
    /\ \A s \in Main : worker[s].state \in {"none", "idle"}
    /\ ended \in {"raised", "stuck"} => Live = {}

\* A batch runs again only after its worker exited without answering: one that
\* timed out, hit the memory limit or raised an exception does not.
RunAgainOnlyAfterCrash ==
  [][Len(pending') > Len(pending) /\ pc \in {"receive", "timeouts"}
       => \E s \in Slots :
            /\ worker[s].proc = "gone" /\ worker[s].frame = NoFrame
            /\ worker[s].batch = Head(pending') /\ worker'[s] = NoWorker]_vars

\* The pool comes to have batches and no one to send them to only when a send
\* of that pass found its idle worker gone: a slot taken by another group, a
\* recycling or a timeout never does it.
StuckOnlyAfterLostIdle == [][(ended' = "stuck" /\ ended # "stuck") => refused]_vars

\* Every call ends, whatever its workers do: each pass settles a batch, uses
\* up the restart budget or waits for a deadline.
CallEnds == pc # "between" ~> pc = "between"

\* Every request of a call gets one outcome that stays, and the call returns
\* only with all of them (EngineCall).
Promised == INSTANCE EngineCall
  WITH running <- pc # "between", ended <- IF ended = "stuck" THEN "raised" ELSE ended
ImplementsCalls == Promised!CallSpec

-----------------------------------------------------------------------------
(* What the proofs carry along: what a worker's process may be doing in    *)
(* each of the host's states of it, and that only the running call's group *)
(* has workers that start or are busy.                                     *)
WorkerRight(w) ==
  /\ w.frame # NoFrame => w.proc \in {"idle", "gone"}
  /\ w.state = "none" => w.proc = "gone"
  /\ w.state = "starting" => w.proc # "working"
  /\ w.state = "idle" => w.frame = NoFrame /\ w.proc \in {"idle", "gone"}
  /\ w.state # "busy" => w.batch = 0
  /\ w.state = "busy" =>
       /\ w.batch # 0 /\ w.proc # "boot"
       /\ w.proc = "working" => w.job = w.batch
       /\ w.frame # NoFrame => w.frame.batch = w.batch

GroupsApart ==
  /\ op # "verify" => ~Alive(Verify)
  /\ op = "verify" => \A s \in Main : worker[s].state \in {"none", "idle"}
  /\ pc = "warm" => op = "warm"
  /\ pc = "room" => op = "verify"

IInv == TypeOK /\ (\A s \in Slots : WorkerRight(worker[s])) /\ GroupsApart /\ PoolAtRest

(* A worker the host found readable stays so until it is handled.          *)
ReadyReadable == pc = "receive" => \A s \in ready : Readable(s)

(* A verify run finds a slot, and a pass begins its sends with a worker.   *)
RoomToRun ==
  /\ pc # "between" => limit > 0 /\ (op = "verify" => limit = 1)
  /\ (op = "verify" /\ pc \notin {"between", "room"}) => \E s \in Main : ~Alive(s)
  /\ (pc = "send" /\ pending # <<>> /\ ~refused) => Group # {}

(* Where the batches of the running call are: each one is to be sent or    *)
(* with a worker, until its requests have their outcomes, all at once.     *)
BatchOf(i) == ((i - 1) \div size) + 1
Members(seq) == {seq[i] : i \in 1..Len(seq)}
Distinct(seq) == \A i, j \in 1..Len(seq) : seq[i] = seq[j] => i = j
Busy(s) == worker[s].state = "busy"
Whole(b) == Positions(b) # {} /\ \A i \in Positions(b) : outcomes[i] = Unsettled

EachHeldOnce ==
  /\ Distinct(pending)
  /\ \A b \in Members(pending) : Whole(b)
  /\ \A s \in Slots : Busy(s) => Whole(worker[s].batch) /\ worker[s].batch \notin Members(pending)
  /\ \A s, t \in Slots : (Busy(s) /\ Busy(t) /\ worker[s].batch = worker[t].batch) => s = t
  /\ \A i \in DOMAIN outcomes :
       outcomes[i] = Unsettled =>
         \/ BatchOf(i) \in Members(pending)
         \/ \E s \in Slots : Busy(s) /\ worker[s].batch = BatchOf(i)

NobodyIsBusy == pc = "room" => \A s \in Slots : ~Busy(s)

HeldInv == NobodyIsBusy /\ (pc # "between" => EachHeldOnce)
=============================================================================
