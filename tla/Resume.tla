-------------------------------- MODULE Resume --------------------------------
(***************************************************************************)
(* A person's conditional resume of a scheduling pause                     *)
(* (crates/acui-app/src/ledger/resume.rs): the pause lines as painted from *)
(* the window's last status read, the two presses, the one request on a    *)
(* thread of its own (acui-source `resume_paused`), and the status read    *)
(* after its answer, on the window's reader (ledger/worker.rs              *)
(* `reread_instances`).  The Runtime and the other tools that pause and    *)
(* resume are external: they are modelled by what the code relies on.      *)
(*                                                                         *)
(* A handler of the event loop is one step and repaints before it returns. *)
(* What the resume threads hand to the event loop is `answers`.            *)
(***************************************************************************)
EXTENDS Naturals, Sequences, FiniteSets

CONSTANTS
  Scopes,        \* the scopes a pause has, in the order of the lines: global first
  NoLine,        \* a painted line that offers no resume
  NoTarget,      \* nothing asked to confirm
  NoFlight,      \* no press out, and no line of one
  NoFound,       \* no reread left for the next paint
  MaxPause,      \* bound: pauses set
  MaxOwnerEpoch,      \* bound: Runtimes one after another
  MaxSession,    \* bound: reopens
  MaxPress,      \* bound: requests sent
  Faults         \* what a run lets go wrong

ASSUME ResumeAssumption ==
  /\ Scopes \in Seq(STRING) /\ Len(Scopes) > 0
  /\ MaxPause \in Nat /\ MaxOwnerEpoch \in Nat \ {0}
  /\ MaxSession \in Nat \ {0} /\ MaxPress \in Nat
  /\ Faults \subseteq {"spawn", "connect", "timeout", "read", "open", "panic", "restart"}

VARIABLES
  epoch,       \* the running Runtime's owner epoch
  paused,      \* per scope, the Runtime's pause
  set,         \* pauses set so far, by which each has its number
  session, phase, closed,
  status,      \* the open face's last status read, as published
  found,       \* the reread's effect, for the next paint
  confirming,  \* the pause a first press asks to confirm
  flight,      \* the press in flight, or the last one's outcome
  painted,     \* the pauses of the lines as painted
  repaint,     \* a repaint is handed over
  presses,     \* the resume threads' requests that are not answered
  late,        \* requests given up by the client and still with the Runtime
  answers,     \* answers handed to the event loop
  rereads,     \* per session, the rereads queued at its reader
  reader,      \* per session, its reader thread
  settled,     \* answers of requests sent that the window has settled
  asked,       \* pauses whose line a first press was made on
  agreed       \* those of them whose line the confirming press was made on

runtimeVars == <<epoch, paused, set, late>>
faceVars == <<phase, status, found, repaint>>
windowVars == <<session, closed, confirming, flight, painted, settled, asked,
                agreed>>
threadVars == <<presses, answers, rereads, reader>>
vars == <<runtimeVars, faceVars, windowVars, threadVars>>

Scope == {Scopes[i] : i \in 1..Len(Scopes)}
Sessions == 1..MaxSession
(* A pause: its scope's revision, who set it (may a person lift it here),  *)
(* and its number among all pauses set, which no code sees.                *)
Pauses == [rev : Nat, on : BOOLEAN, liftable : BOOLEAN, number : 0..MaxPause]
(* PauseTarget: the scope, with the epoch and revision it was read at.     *)
Targets == [scope : Scope, epoch : 1..MaxOwnerEpoch, rev : Nat]
(* A pause as a status read lists it; after: the answers settled before    *)
(* that read.                                                              *)
Lines == [target : Targets, liftable : BOOLEAN, number : 0..MaxPause, after : 0..MaxPress]
Statuses == [kind : {"read", "failed", "offline"}, lines : Seq(Lines)]
Nothing == [kind |-> "offline", lines |-> <<>>]
Outcomes == {"resumed", "refused", "not_sent", "unconfirmed"}
Press == [line : Lines, stage : {"connect", "sent", "resumed", "refused"}]
Flights == [line : Lines,
            stage : {"sending", "no_thread"} \cup Outcomes,
            reread : {"none", "asked", "not_asked", "read", "failed", "offline"}]
ReaderStates == [pc : {"opening", "publishing", "idle", "ended"},
                 epoch : 1..MaxOwnerEpoch, face : {"online", "offline"}, read : Statuses,
                 again : BOOLEAN]

(* What stands for "nothing" is told apart from everything else.           *)
ASSUME NothingAssumption ==
  /\ NoLine \notin Lines /\ NoTarget \notin Targets /\ NoFlight \notin Flights
  /\ NoFound \notin {"read", "failed", "offline"}

ResumeTypeOK ==
  /\ epoch \in 1..MaxOwnerEpoch /\ paused \in [Scope -> Pauses] /\ set \in 0..MaxPause
  /\ session \in Sessions /\ closed \in BOOLEAN
  /\ phase \in {"opening", "open", "unopened", "failed"}
  /\ status \in Statuses
  /\ found \in {"read", "failed", "offline", NoFound}
  /\ confirming \in Targets \cup {NoTarget}
  /\ flight \in Flights \cup {NoFlight}
  /\ \A i \in DOMAIN painted : painted[i] \in Lines \cup {NoLine}
  /\ repaint \in BOOLEAN
  /\ presses \subseteq Press /\ late \subseteq Targets
  /\ answers \subseteq [line : Lines, outcome : Outcomes]
  /\ rereads \in [Sessions -> Nat] /\ reader \in [Sessions -> ReaderStates]
  /\ settled \in 0..MaxPress
  /\ asked \subseteq 0..MaxPause /\ agreed \subseteq asked

Thread(pc) == [pc |-> pc, epoch |-> 1, face |-> "online", read |-> Nothing, again |-> FALSE]

ResumeInit ==
  /\ epoch = 1
  /\ paused = [c \in Scope |-> [rev |-> 0, on |-> FALSE, liftable |-> FALSE, number |-> 0]]
  /\ set = 0
  /\ session = 1 /\ phase = "opening" /\ closed = FALSE
  /\ status = Nothing /\ found = NoFound
  /\ confirming = NoTarget /\ flight = NoFlight /\ painted = <<>> /\ repaint = FALSE
  /\ presses = {} /\ late = {} /\ answers = {}
  /\ rereads = [s \in Sessions |-> 0]
  /\ reader = [s \in Sessions |-> Thread(IF s = 1 THEN "opening" ELSE "ended")]
  /\ settled = 0 /\ asked = {} /\ agreed = {}

-----------------------------------------------------------------------------
(* The Runtime.                                                            *)

(* Another tool pauses a scope, or lifts its pause; each moves the scope's *)
(* revision on.                                                            *)
SetPause ==
  /\ set < MaxPause
  /\ \E c \in Scope, liftable \in BOOLEAN :
       /\ ~paused[c].on
       /\ paused' = [paused EXCEPT ![c] = [rev |-> paused[c].rev + 1, on |-> TRUE,
                                           liftable |-> liftable, number |-> set + 1]]
  /\ set' = set + 1
  /\ UNCHANGED <<epoch, late, faceVars, windowVars, threadVars>>

Lifted(c) == [paused EXCEPT ![c] = [@ EXCEPT !.rev = paused[c].rev + 1, !.on = FALSE]]

OthersLift ==
  /\ \E c \in Scope : paused[c].on /\ paused' = Lifted(c)
  /\ UNCHANGED <<epoch, set, late, faceVars, windowVars, threadVars>>

(* Another Runtime on the same root: its pauses as they were, its own epoch. *)
Restart ==
  /\ "restart" \in Faults /\ epoch < MaxOwnerEpoch
  /\ epoch' = epoch + 1
  /\ late' = {}
  /\ UNCHANGED <<paused, set, faceVars, windowVars, threadVars>>

(* A conditional resume lifts the pause it names and no other.             *)
Names(t) == paused[t.scope].on /\ paused[t.scope].rev = t.rev /\ epoch = t.epoch

Handle ==
  /\ \E p \in presses :
       /\ p.stage = "sent"
       /\ LET lifts == Names(p.line.target)
          IN /\ presses' = (presses \ {p})
                  \cup {[p EXCEPT !.stage = IF lifts THEN "resumed" ELSE "refused"]}
             /\ paused' = IF lifts THEN Lifted(p.line.target.scope) ELSE paused
  /\ UNCHANGED <<epoch, set, late, faceVars, windowVars, answers, rereads, reader>>

(* One whose receipt the client no longer waits for.                       *)
HandleLate ==
  /\ \E t \in late :
       /\ late' = late \ {t}
       /\ paused' = IF Names(t) THEN Lifted(t.scope) ELSE paused
  /\ UNCHANGED <<epoch, set, faceVars, windowVars, threadVars>>

-----------------------------------------------------------------------------
(* resume_paused, on the thread of one press: sent once, whatever comes    *)
(* back.                                                                   *)

Answered(p, outcome) ==
  /\ presses' = presses \ {p}
  /\ answers' = answers \cup {[line |-> p.line, outcome |-> outcome]}

Send ==
  /\ \E p \in presses :
       /\ p.stage = "connect"
       /\ presses' = (presses \ {p}) \cup {[p EXCEPT !.stage = "sent"]}
  /\ UNCHANGED <<runtimeVars, faceVars, windowVars, answers, rereads, reader>>

CannotConnect ==
  /\ "connect" \in Faults
  /\ \E p \in presses : p.stage = "connect" /\ Answered(p, "not_sent")
  /\ UNCHANGED <<runtimeVars, faceVars, windowVars, rereads, reader>>

Receive ==
  /\ \E p \in presses : p.stage \in {"resumed", "refused"} /\ Answered(p, p.stage)
  /\ UNCHANGED <<runtimeVars, faceVars, windowVars, rereads, reader>>

(* No receipt: the Runtime may have handled the request, or may yet.       *)
ReceiptLost ==
  /\ "timeout" \in Faults
  /\ \E p \in presses :
       /\ p.stage # "connect" /\ Answered(p, "unconfirmed")
       /\ late' = IF p.stage = "sent" THEN late \cup {p.line.target} ELSE late
  /\ UNCHANGED <<epoch, paused, set, faceVars, windowVars, rereads, reader>>

-----------------------------------------------------------------------------
(* The event loop.                                                         *)

Opens(ph) == ph \in {"opening", "open"}

\* Mutant: the window is busy only while the request is out.
BusySending(f, ph) == f # NoFlight /\ f.stage = "sending"

\* Mutant: a status read asked of a face no longer open keeps it busy.
BusyUnlessLanded(f, ph) == f # NoFlight /\ (f.stage = "sending" \/ f.reread = "asked")

(* Resume::busy: no pause offers a resume meanwhile.                       *)
Busy(f, ph) ==
  /\ f # NoFlight
  /\ \/ f.stage = "sending"
     \/ f.reread = "asked" /\ Opens(ph)

(* The lines painted of a status read, and what each one's entry names.    *)
Offer(f, ph, read) ==
  IF ph # "open" \/ read.kind # "read" THEN <<>>
  ELSE [i \in DOMAIN read.lines |->
          IF read.lines[i].liftable /\ ~Busy(f, ph) THEN read.lines[i] ELSE NoLine]

(* Resume::reread: what the status read after the last press found.        *)
LandedFlight(f) ==
  IF f # NoFlight /\ f.reread = "asked" /\ found # NoFound
    THEN [f EXCEPT !.reread = found] ELSE f

(* refresh: what the reader left, then resume::paint, which drops a        *)
(* confirmation whose pause is no longer offered.                          *)
Painted(f, asks, ph, read) ==
  LET offered == Offer(LandedFlight(f), ph, read)
  IN /\ flight' = LandedFlight(f)
     /\ found' = NoFound
     /\ painted' = offered
     /\ confirming' =
          IF \E i \in DOMAIN offered : offered[i] # NoLine /\ offered[i].target = asks
            THEN asks ELSE NoTarget

Repaint ==
  /\ repaint /\ ~closed
  /\ repaint' = FALSE
  /\ Painted(flight, confirming, phase, status)
  /\ UNCHANGED <<runtimeVars, phase, status, session, closed, settled, asked, agreed,
                 threadVars>>

(* picked: what the entry of a painted line names.                         *)
Picked(i) == IF painted[i] = NoLine THEN NoTarget ELSE painted[i].target

(* asked: the first press only asks for the confirmation.                  *)
Ask ==
  /\ ~closed
  /\ \E i \in DOMAIN painted :
       /\ Painted(flight, Picked(i), phase, status)
       /\ asked' = IF painted[i] = NoLine THEN asked ELSE asked \cup {painted[i].number}
  /\ UNCHANGED <<runtimeVars, phase, status, repaint, session, closed, settled, agreed,
                 threadVars>>

\* Mutant: any line offered will do for the confirming press.
ConfirmsOnAny(i) ==
  /\ painted[i] # NoLine /\ confirming # NoTarget
  /\ ~Busy(flight, phase)

(* confirmed: the confirming press, on the line it names.                  *)
ConfirmsOn(i) ==
  /\ painted[i] # NoLine /\ confirming = painted[i].target
  /\ ~Busy(flight, phase)

Flight(line, stage, reread) == [line |-> line, stage |-> stage, reread |-> reread]

Confirm ==
  /\ ~closed /\ settled < MaxPress
  /\ \E i \in DOMAIN painted :
       IF ConfirmsOn(i)
         THEN \/ /\ Painted(Flight(painted[i], "sending", "none"), NoTarget, phase, status)
                 /\ presses' = presses \cup {[line |-> painted[i], stage |-> "connect"]}
                 /\ agreed' = agreed \cup ({painted[i].number} \cap asked)
              \/ /\ "spawn" \in Faults
                 /\ Painted(Flight(painted[i], "no_thread", "none"), NoTarget, phase, status)
                 /\ UNCHANGED <<presses, agreed>>
         ELSE /\ Painted(flight, NoTarget, phase, status)
              /\ UNCHANGED <<presses, agreed>>
  /\ UNCHANGED <<runtimeVars, phase, status, repaint, session, closed, settled, asked,
                 answers, rereads, reader>>

(* settled: the answer, on the event loop; unless nothing was sent, the    *)
(* reader reads the status again, if the face is open.                     *)
Settle ==
  /\ \E a \in answers :
       LET asks == Opens(phase) /\ a.outcome # "not_sent"
       IN /\ answers' = answers \ {a}
          /\ IF closed
               THEN UNCHANGED <<found, confirming, flight, painted, settled, rereads>>
               ELSE /\ Painted(Flight(a.line, a.outcome, IF asks THEN "asked" ELSE "not_asked"),
                               confirming, phase, status)
                    /\ settled' = IF a.outcome = "not_sent" THEN settled ELSE settled + 1
                    /\ rereads' = IF asks THEN [rereads EXCEPT ![session] = @ + 1] ELSE rereads
  /\ UNCHANGED <<runtimeVars, phase, status, repaint, session, closed, asked, agreed,
                 presses, reader>>

(* reopen: a press still out stays; a line that came back goes.            *)
Reopen ==
  /\ ~closed /\ session < MaxSession
  /\ session' = session + 1
  /\ phase' = "opening" /\ status' = Nothing /\ found' = NoFound
  /\ reader' = [reader EXCEPT ![session + 1] = Thread("opening")]
  /\ flight' = IF flight # NoFlight /\ flight.stage = "sending" THEN flight ELSE NoFlight
  /\ confirming' = NoTarget
  /\ painted' = <<>>
  /\ UNCHANGED <<runtimeVars, repaint, closed, settled, asked, agreed, presses, answers,
                 rereads>>

Close ==
  /\ ~closed /\ closed' = TRUE
  /\ UNCHANGED <<runtimeVars, faceVars, session, confirming, flight, painted, settled,
                 asked, agreed, threadVars>>

-----------------------------------------------------------------------------
(* The reader thread of session s.                                         *)

InSession(s) == s = session /\ ~closed

Goes(s, pc) == reader' = [reader EXCEPT ![s] = [@ EXCEPT !.pc = pc]]

(* The scopes of a set in the order of the lines.                          *)
InOrder(on) ==
  {list \in [1..Cardinality(on) -> on] :
     \A i, j \in 1..Cardinality(on) : i < j =>
       \E a, b \in 1..Len(Scopes) : a < b /\ Scopes[a] = list[i] /\ Scopes[b] = list[j]}

(* The pauses the Runtime has, in the order of the lines: one list.        *)
RuntimeLines ==
  {[i \in DOMAIN on |->
      [target |-> [scope |-> on[i], epoch |-> epoch, rev |-> paused[on[i]].rev],
       liftable |-> paused[on[i]].liftable, number |-> paused[on[i]].number,
       after |-> settled]] : on \in InOrder({c \in Scope : paused[c].on})}

(* read_instances: of the Runtime the session opened with, or it fails.    *)
StatusReads(face, owner) ==
  IF face = "offline" THEN {Nothing}
  ELSE {[kind |-> "read", lines |-> lines] :
            lines \in IF owner = epoch THEN RuntimeLines ELSE {}}
         \cup IF owner = epoch /\ "read" \notin Faults THEN {}
               ELSE {[kind |-> "failed", lines |-> <<>>]}

(* A read made, to be published: the first one, one for a jump to the      *)
(* latest, or one again after an answer.                                   *)
Reads(s, face, owner, again) ==
  \E read \in StatusReads(face, owner) :
    reader' = [reader EXCEPT ![s] = [pc |-> "publishing", epoch |-> owner, face |-> face,
                                     read |-> read, again |-> again]]

Open(s) ==
  /\ reader[s].pc = "opening"
  /\ \/ \E face \in {"online", "offline"} : Reads(s, face, epoch, FALSE)
        /\ UNCHANGED <<phase, repaint>>
     \/ /\ "open" \in Faults
        /\ Goes(s, "ended")
        /\ IF InSession(s)
             THEN phase' \in {"unopened", "failed"} /\ repaint' = TRUE
             ELSE UNCHANGED <<phase, repaint>>
  /\ UNCHANGED <<runtimeVars, status, found, windowVars, presses, answers, rereads>>

(* The reader publishes what it read while its session is the window's;    *)
(* one let go ends.                                                        *)
Publish(s) ==
  /\ reader[s].pc = "publishing"
  /\ IF InSession(s)
       THEN /\ Goes(s, "idle")
            /\ phase' = "open" /\ status' = reader[s].read /\ repaint' = TRUE
            /\ found' = IF reader[s].again THEN reader[s].read.kind ELSE found
       ELSE Goes(s, "ended") /\ UNCHANGED faceVars
  /\ UNCHANGED <<runtimeVars, windowVars, presses, answers, rereads>>

(* reread_instances: on a connection made for this read alone.             *)
Reread(s) ==
  /\ reader[s].pc = "idle" /\ rereads[s] > 0 /\ InSession(s)
  /\ rereads' = [rereads EXCEPT ![s] = @ - 1]
  /\ Reads(s, reader[s].face, reader[s].epoch, TRUE)
  /\ UNCHANGED <<runtimeVars, faceVars, windowVars, presses, answers>>

(* refresh_instances, for a jump to the latest.                            *)
JumpRead(s) ==
  /\ reader[s].pc = "idle" /\ InSession(s) /\ reader[s].face = "online"
  /\ Reads(s, "online", reader[s].epoch, FALSE)
  /\ UNCHANGED <<runtimeVars, faceVars, windowVars, presses, answers, rereads>>

Panic(s) ==
  /\ "panic" \in Faults /\ reader[s].pc # "ended"
  /\ Goes(s, "ended")
  /\ IF InSession(s) THEN phase' = "failed" /\ repaint' = TRUE
                     ELSE UNCHANGED <<phase, repaint>>
  /\ UNCHANGED <<runtimeVars, status, found, windowVars, presses, answers, rereads>>

-----------------------------------------------------------------------------
Runtime == SetPause \/ OthersLift \/ Restart \/ Handle \/ HandleLate

ResumeThread == Send \/ CannotConnect \/ Receive \/ ReceiptLost

Loop == Repaint \/ Ask \/ Confirm \/ Settle \/ Reopen \/ Close

ReaderThread(s) == Open(s) \/ Publish(s) \/ Reread(s) \/ JumpRead(s) \/ Panic(s)

ResumeNext == Runtime \/ ResumeThread \/ Loop \/ \E s \in Sessions : ReaderThread(s)

ResumeSpec == ResumeInit /\ [][ResumeNext]_vars

(* The threads run on, a request's wait is bounded by its receipt timeout, *)
(* and the event loop runs what is posted to it.  A reader takes its       *)
(* requests in order, so a jump never keeps a reread waiting for good.     *)
ResumeFairness ==
  /\ WF_vars(ResumeThread) /\ WF_vars(Handle)
  /\ WF_vars(Settle) /\ WF_vars(Repaint)
  /\ \A s \in Sessions : WF_vars(Open(s)) /\ WF_vars(Publish(s)) /\ SF_vars(Reread(s))

FairSpec == ResumeSpec /\ ResumeFairness

-----------------------------------------------------------------------------
(* What must hold.                                                         *)

\* A person's presses send one request at a time, also when the window is
\* reopened while one is out: nothing is sent twice (Resume::reopened).
OnePressOut == Cardinality(presses) + Cardinality(answers) <= 1

\* A window's request lifts only a pause on whose own line both presses were
\* made, whatever was lifted, set anew or moved to another line in between
\* (resume.rs: a resume of exactly the pause the line showed).
LiftsOnlyWhatWasConfirmed ==
  [][\A c \in Scope :
       (paused[c].on /\ ~paused'[c].on /\ <<presses, late>>' # <<presses, late>>)
         => paused[c].number \in agreed]_vars

\* No press goes out on a status older than the last answer: after one that
\* was lifted, refused or not confirmed, a pause is offered again only as a
\* later status read lists it.
NoPressOnAnOldStatus ==
  [][\A p \in presses' \ presses : p.stage = "connect" => p.line.after = settled]_vars

\* A press is answered and its status read lands, so the entries come back,
\* or the face is no longer open; no failure leaves the window busy for good.
EntriesComeBack == Busy(flight, phase) ~> (~Busy(flight, phase) \/ closed)
=============================================================================
