------------------------------ MODULE Launcher ------------------------------
(***************************************************************************)
(* The launcher (launcher.rs): the start, shutdown and unlock requests of   *)
(* the workbench and its ledger windows, each on a thread of its own, the   *)
(* lines and answers they hand to the event loop, the workbench's `Status`  *)
(* reads that stand for the newest probe, and the close of the workbench    *)
(* (ui.rs), which waits for an unlock.                                       *)
(*                                                                         *)
(* `starting`, `unlocking` and `shuttingDown` are the flags of the code:    *)
(* set by the press, cleared when the request's last word is taken.  At     *)
(* most one request of a kind is out, so "the newest probe" is told by whose *)
(* it is instead of by its number.                                          *)
(***************************************************************************)
EXTENDS Naturals, Sequences

CONSTANTS READY_ATTEMPTS,     \* how often a start asks whether its daemon answers
          SHUTDOWN_ATTEMPTS,  \* how often a shutdown is sent to a busy Runtime
          MaxPresses,         \* bound: presses of a person
          MaxTurns            \* bound: what the Runtime does on its own

ASSUME LauncherAssumption ==
    READY_ATTEMPTS \in Nat \ {0} /\ SHUTDOWN_ATTEMPTS \in Nat \ {0}
    /\ MaxPresses \in Nat /\ MaxTurns \in Nat

VARIABLES daemon,   \* [is, owner, turns]: the Runtime and its owner record, outside
          child,     \* the daemon the start under way launched
          starter, stopper, unlocker,  \* the threads
          flags,     \* the requests in flight
          readable,  \* the system gave the workbench's `Status` reads their thread
          posts,     \* what the threads handed to the event loop, oldest first
          view,      \* LauncherView, and the step of the ledger windows' unlock entry
          window,    \* [is, refused]: the workbench and its close
          pressCount \* how often a person pressed

launcherVars == <<daemon, child, starter, stopper, unlocker, flags, readable, posts, view, window, pressCount>>

Idle == [at |-> "idle", attempt |-> 0, ran |-> FALSE]

----------------------------------------------------------------------------
(* Jobs for the event loop. A `keep` leaves what is there; the lines that tell
   how a request ended are one value, "said". *)

Job(from) == [from |-> from, status |-> "keep", line |-> "keep", offer |-> FALSE, last |-> FALSE]
Post(job) == posts' = Append(posts, job)
LastWord(from, status, line, offer) ==
    [from |-> from, status |-> status, line |-> line, offer |-> offer, last |-> TRUE]

\* Only the answer of the newest probe counts.
Probed(from, status) ==
    IF status # "keep" /\ view.newest = from THEN status ELSE view.status

\* A probe of the Runtime on a fresh connection.
Reachable == IF daemon.is = "up" THEN "up" ELSE "down"

----------------------------------------------------------------------------
(* A start. *)

\* The start gets its thread, or the system refuses it.
Started(pressed) ==
    LET said(line, status) ==
            [view EXCEPT !.offered = FALSE, !.confirming = FALSE, !.newest = "start",
                         !.line = line, !.status = status]
    IN \/ /\ starter' = [Idle EXCEPT !.at = "probe"]
          /\ flags' = [pressed EXCEPT !.starting = TRUE]
          /\ view' = said("checking", "checking")
       \/ /\ UNCHANGED starter
          /\ flags' = pressed
          /\ view' = said("said", "failed")

Offered ==
    /\ view.status = "failed" \/ (view.status = "down" /\ ~view.silent)
    /\ view.line \notin {"checking", "starting"}

Start(pressed) ==
    IF pressed.unlocking \/ pressed.starting
    THEN view' = [view EXCEPT !.line = "said"] /\ flags' = pressed /\ UNCHANGED starter
    ELSE Started(pressed)

StartPress ==
    /\ Offered
    /\ Start(flags)
    /\ UNCHANGED <<daemon, child, stopper, unlocker, readable, posts, window>>

\* A Runtime that answers is running already; otherwise a daemon is launched.
ProbeFirst ==
    /\ starter.at = "probe"
    /\ starter' = [starter EXCEPT !.at = IF Reachable = "up" THEN "record" ELSE "launch"]
    /\ Post([Job("start") EXCEPT !.status = Reachable,
                                 !.line = IF Reachable = "up" THEN "said" ELSE "keep"])
    /\ UNCHANGED <<daemon, child, stopper, unlocker, flags, readable, view, window>>

Finish(status, line, offer) ==
    /\ starter' = Idle
    /\ Post(LastWord("start", status, line, offer))

\* A path that is not set, a log that cannot be made or a process refused ends the start.
Launch ==
    /\ starter.at = "launch"
    /\ \/ /\ child' = "booting"
          /\ starter' = [starter EXCEPT !.at = "wait", !.ran = TRUE]
          /\ Post([Job("start") EXCEPT !.line = "starting"])
       \/ Finish("keep", "said", FALSE) /\ UNCHANGED child
    /\ UNCHANGED <<daemon, stopper, unlocker, flags, readable, view, window>>

\* The daemon that exited says in its log whether its owner is unconfirmed.
WaitChild ==
    /\ starter.at = "wait"
    /\ IF child \in {"unconfirmed", "exited"}
       THEN Finish("keep", "said", child = "unconfirmed")
       ELSE \/ starter' = [starter EXCEPT !.at = "ask"] /\ UNCHANGED posts
            \/ Finish("keep", "said", FALSE)
    /\ UNCHANGED <<daemon, child, stopper, unlocker, flags, readable, view, window>>

AskReady ==
    /\ starter.at = "ask"
    /\ IF Reachable = "up"
       THEN starter' = [starter EXCEPT !.at = "record"] /\ UNCHANGED posts
       ELSE IF starter.attempt + 1 = READY_ATTEMPTS THEN Finish("keep", "said", FALSE)
       ELSE /\ starter' = [starter EXCEPT !.at = "wait", !.attempt = @ + 1]
            /\ Post([Job("start") EXCEPT !.line = "starting"])
    /\ UNCHANGED <<daemon, child, stopper, unlocker, flags, readable, view, window>>

\* The press is recorded with the Runtime, or not: the start says running either way.
RecordStart ==
    /\ starter.at = "record"
    /\ Finish(IF starter.ran THEN "up" ELSE "keep", "said", FALSE)
    /\ UNCHANGED <<daemon, child, stopper, unlocker, flags, readable, view, window>>

----------------------------------------------------------------------------
(* A shutdown. *)

Shutdown ==
    /\ IF flags.shuttingDown
       THEN view' = [view EXCEPT !.line = "said"] /\ UNCHANGED <<stopper, flags>>
       ELSE \/ /\ stopper' = [Idle EXCEPT !.at = "press"]
               /\ flags' = [flags EXCEPT !.shuttingDown = TRUE]
               /\ view' = [view EXCEPT !.line = "stopping", !.newest = "stop"]
            \/ /\ view' = [view EXCEPT !.line = "said", !.newest = "stop"]
               /\ UNCHANGED <<stopper, flags>>
    /\ UNCHANGED <<daemon, child, starter, unlocker, readable, posts, window>>

\* The press is recorded on a person's connection; without it nothing is asked.
RecordStop ==
    /\ stopper.at = "press"
    /\ \/ Reachable = "up" /\ stopper' = [stopper EXCEPT !.at = "ask", !.attempt = 1]
       \/ stopper' = [stopper EXCEPT !.at = "probe"]
    /\ UNCHANGED <<daemon, child, starter, unlocker, flags, readable, posts, view, window>>

\* Accepted, failed for good, or busy: then it is sent again, so often.
AskStop ==
    /\ stopper.at = "ask"
    /\ \/ /\ Reachable = "up"
          /\ daemon' = [daemon EXCEPT !.is = "stopping"]
          /\ stopper' = [stopper EXCEPT !.at = "probe"]
          /\ UNCHANGED posts
       \/ /\ stopper' = [stopper EXCEPT !.at = "probe"]
          /\ UNCHANGED <<daemon, posts>>
       \/ /\ Reachable = "up" /\ stopper.attempt < SHUTDOWN_ATTEMPTS
          /\ stopper' = [stopper EXCEPT !.attempt = @ + 1]
          /\ Post([Job("stop") EXCEPT !.line = "stopping"])
          /\ UNCHANGED daemon
    /\ UNCHANGED <<child, starter, unlocker, flags, readable, view, window>>

ProbeLast ==
    /\ stopper.at = "probe"
    /\ stopper' = Idle
    /\ Post(LastWord("stop", Reachable, "said", FALSE))
    /\ UNCHANGED <<daemon, child, starter, unlocker, flags, readable, view, window>>

----------------------------------------------------------------------------
(* An unlock, on the second press in a ledger window where it is offered. *)

ConfirmUnlock ==
    /\ view.offered /\ ~view.confirming
    /\ view' = [view EXCEPT !.confirming = TRUE]
    /\ UNCHANGED <<daemon, child, starter, stopper, unlocker, flags, readable, posts, window>>

\* Paths not set leave it offered; a thread refused offers it again.
Unlock ==
    /\ view.offered /\ view.confirming
    /\ \/ /\ view' = [view EXCEPT !.confirming = FALSE]
          /\ UNCHANGED <<unlocker, flags>>
       \/ /\ unlocker' = [Idle EXCEPT !.at = "run"]
          /\ flags' = [flags EXCEPT !.unlocking = TRUE]
          /\ view' = [view EXCEPT !.offered = FALSE, !.confirming = FALSE]
    /\ UNCHANGED <<daemon, child, starter, stopper, readable, posts, window>>

\* What took effect may be reported otherwise, or not at all; only a report of it counts.
Reports(effect) == {reported \in BOOLEAN : reported => effect}

\* unlock-owner confirms the owner's release, or refuses, or is killed at its bound.
RunUnlock ==
    /\ unlocker.at = "run"
    /\ unlocker' = Idle
    /\ \E effect \in BOOLEAN :
          /\ effect => daemon.owner = "unconfirmed" /\ daemon.is = "down"
          /\ daemon' = IF effect THEN [daemon EXCEPT !.owner = "clear"] ELSE daemon
          /\ \E reported \in Reports(effect) : Post(LastWord("unlock", "keep", "keep", ~reported))
    /\ UNCHANGED <<child, starter, stopper, flags, readable, view, window>>

----------------------------------------------------------------------------
(* The event loop takes what the threads handed over. *)

\* A mutant: the last word of a start says nothing but its outcome's offer.
TakenWordless(job) ==
    /\ view' = [view EXCEPT !.status = Probed(job.from, job.status),
                            !.line = IF job.line = "keep" \/ job.last THEN @ ELSE job.line,
                            !.offered = IF job.last /\ job.from = "start" THEN job.offer ELSE @]
    /\ flags' = CASE job.last /\ job.from = "start" -> [flags EXCEPT !.starting = FALSE]
                  [] job.last /\ job.from = "stop" -> [flags EXCEPT !.shuttingDown = FALSE]
                  [] OTHER -> flags
    /\ UNCHANGED <<starter, window>>

\* A line or an answer; a last word clears its flag, and asks for a `Status` read.
Taken(job) ==
    /\ view' = [view EXCEPT !.status = Probed(job.from, job.status),
                            !.line = IF job.line = "keep" THEN @ ELSE job.line,
                            !.offered = IF job.last /\ job.from = "start" THEN job.offer ELSE @]
    /\ flags' = CASE job.last /\ job.from = "start" -> [flags EXCEPT !.starting = FALSE]
                  [] job.last /\ job.from = "stop" -> [flags EXCEPT !.shuttingDown = FALSE]
                  [] OTHER -> flags
    /\ UNCHANGED <<starter, window>>

\* After an unlock the Runtime is started; after anything else the entry is offered again.
\* The workbench may close again.
UnlockTaken(job) ==
    LET over == [flags EXCEPT !.unlocking = FALSE]
    IN /\ window' = [window EXCEPT !.refused = FALSE]
       /\ IF job.offer
          THEN view' = [view EXCEPT !.offered = TRUE] /\ flags' = over /\ UNCHANGED starter
          ELSE Start(over)

Take ==
    /\ posts # <<>>
    /\ posts' = Tail(posts)
    /\ IF Head(posts).from = "unlock" THEN UnlockTaken(Head(posts)) ELSE Taken(Head(posts))
    /\ UNCHANGED <<daemon, child, stopper, unlocker, readable>>

\* A `Status` read of the workbench's, of any time before, stands for the newest probe:
\* an older one still out says nothing.  A refused reading thread reads nothing.
LiveLanded ==
    /\ readable
    /\ \E found \in {"up", "absent", "noanswer"} :
          view' = [view EXCEPT !.newest = "live", !.silent = found = "noanswer",
                               !.status = IF found = "up" THEN "up" ELSE "down"]
    /\ UNCHANGED <<daemon, child, starter, stopper, unlocker, flags, readable, posts, window>>

----------------------------------------------------------------------------
(* The close of the workbench. *)

CloseWorkbench ==
    /\ window.is = "open"
    /\ \/ /\ flags.unlocking
          /\ window' = [window EXCEPT !.refused = TRUE]
       \/ /\ ~flags.unlocking
          /\ \E next \in {"fading", "closed"} : window' = [window EXCEPT !.is = next]
    /\ UNCHANGED <<daemon, child, starter, stopper, unlocker, flags, readable, posts, view>>

\* The controls stayed live while it faded: an unlock may have begun.
Faded ==
    /\ window.is = "fading"
    /\ window' = IF flags.unlocking THEN [window EXCEPT !.is = "open", !.refused = TRUE]
                 ELSE [window EXCEPT !.is = "closed"]
    /\ UNCHANGED <<daemon, child, starter, stopper, unlocker, flags, readable, posts, view>>

----------------------------------------------------------------------------
(* The Runtime, outside: a daemon that boots takes the owner record or exits. *)

Boots ==
    /\ child = "booting"
    /\ IF daemon.is # "down" THEN child' = "exited" /\ UNCHANGED daemon
       ELSE IF daemon.owner = "unconfirmed" THEN child' = "unconfirmed" /\ UNCHANGED daemon
       ELSE \/ child' = "exited" /\ UNCHANGED daemon
            \/ child' = "none" /\ daemon' = [daemon EXCEPT !.is = "up"]
    /\ UNCHANGED <<starter, stopper, unlocker, flags, readable, posts, view, window>>

\* A Runtime that dies leaves its owner confirmed or not; another tool may start one.
Turns ==
    /\ daemon.turns < MaxTurns
    /\ \/ daemon.is = "up" /\ \E owner \in {"clear", "unconfirmed"} :
             daemon' = [is |-> "down", owner |-> owner, turns |-> daemon.turns + 1]
       \/ daemon.is = "down" /\ daemon.owner = "clear"
          /\ daemon' = [daemon EXCEPT !.is = "up", !.turns = @ + 1]
    /\ UNCHANGED <<child, starter, stopper, unlocker, flags, readable, posts, view, window>>

Stops ==
    /\ daemon.is = "stopping"
    /\ \E owner \in {"clear", "unconfirmed"} : daemon' = [daemon EXCEPT !.is = "down", !.owner = owner]
    /\ UNCHANGED <<child, starter, stopper, unlocker, flags, readable, posts, view, window>>

----------------------------------------------------------------------------
FirstView ==
    [status |-> IF readable THEN "checking" ELSE "failed", newest |-> "live", silent |-> FALSE,
     line |-> "said", offered |-> FALSE, confirming |-> FALSE]

LauncherInit ==
    /\ daemon \in [is : {"up", "down"}, owner : {"clear", "unconfirmed"}, turns : {0}]
    /\ daemon.is = "up" => daemon.owner = "clear"
    /\ child = "none"
    /\ starter = Idle /\ stopper = Idle /\ unlocker = Idle
    /\ flags = [starting |-> FALSE, shuttingDown |-> FALSE, unlocking |-> FALSE]
    /\ readable \in BOOLEAN
    /\ view = FirstView
    /\ posts = <<>>
    /\ window = [is |-> "open", refused |-> FALSE]
    /\ pressCount = 0

StartWork == ProbeFirst \/ Launch \/ WaitChild \/ AskReady \/ RecordStart
StopWork == RecordStop \/ AskStop \/ ProbeLast
PersonStep ==
    /\ pressCount < MaxPresses
    /\ pressCount' = pressCount + 1
    /\ StartPress \/ Shutdown \/ ConfirmUnlock \/ Unlock \/ CloseWorkbench

ThreadStep ==
    /\ StartWork \/ StopWork \/ RunUnlock \/ Take \/ LiveLanded \/ Faded
       \/ Boots \/ Turns \/ Stops
    /\ UNCHANGED pressCount

LauncherNext == window.is # "closed" /\ (PersonStep \/ ThreadStep)

LauncherSpec == LauncherInit /\ [][LauncherNext]_launcherVars

----------------------------------------------------------------------------
(* Properties. *)

Out(from) == \E i \in 1 .. Len(posts) : posts[i].from = from /\ posts[i].last

\* An unlock runs alone: no start beside it, whose daemon would take the owner record it
\* is about to release, it is not offered again meanwhile, and the workbench, whose end
\* would cut it off half way, does not close under it, not even at the end of a fade it
\* began in.
UnlockRunsAlone ==
    /\ unlocker.at = "run" =>
          /\ flags.unlocking /\ starter.at = "idle" /\ ~view.offered
          /\ window.is # "closed"
    /\ view.offered => ~flags.unlocking /\ ~flags.starting

\* A flag is up exactly while its thread, or that thread's last word, is out, and only
\* one of them is: no press is refused for a request that is over, and none is let
\* through beside one that is not.
OneOfEachRequest ==
    /\ flags.starting = (starter.at # "idle" \/ Out("start"))
    /\ flags.shuttingDown = (stopper.at # "idle" \/ Out("stop"))
    /\ flags.unlocking = (unlocker.at # "idle" \/ Out("unlock"))
    /\ \A i, j \in 1 .. Len(posts) :
          posts[i].last /\ posts[j].last /\ posts[i].from = posts[j].from => i = j
    /\ starter.at # "idle" => ~Out("start")
    /\ stopper.at # "idle" => ~Out("stop")
    /\ unlocker.at # "idle" => ~Out("unlock")

\* A line that says a request is under way is not left behind by it: the lamp would say
\* "starting" for good and hold the start back.
LineEndsWithItsRequest ==
    /\ view.line \in {"checking", "starting"} => flags.starting
    /\ view.line = "stopping" => flags.shuttingDown
    /\ window.refused => flags.unlocking \/ window.is = "closed"

=============================================================================
