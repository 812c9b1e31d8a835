----------------------------- MODULE Lifecycle -----------------------------
(***************************************************************************)
(* How acsetup closes and starts a Runtime (acui-setup/src/lifecycle.rs),  *)
(* and the Runtime's Host as acsetup's calls meet it: a drain under a      *)
(* transition, its commit, a start that is held until it is released, the  *)
(* cold protocol of older Runtimes, and the cold gate that proves a state  *)
(* root has no owner.  A call may be lost before or after it was taken;    *)
(* the Runtime may die, and another program may start one at any time.     *)
(***************************************************************************)
EXTENDS Integers

CONSTANT MaxOwners    \* how many Runtimes are started in a behaviour

ASSUME OwnersAssumption == MaxOwners \in Nat

VARIABLES host,      \* the Runtime that owns the state root, if one does
          boots,     \* the process acsetup started that owns nothing yet
          life,      \* acsetup's side: a close or a start under way
          owners,    \* how many Runtimes were started so far
          mishaps    \* what may still go wrong in this behaviour

lifeVars == <<host, boots, life, owners, mishaps>>

NoHost == [owner |-> 0, gen |-> 0, phase |-> "open", trans |-> 0]
NoBoot == [pid |-> 0, gen |-> 0, trans |-> 0, how |-> "cold"]
AtRest == [at |-> "rest", how |-> "cold", trans |-> 0, target |-> 0,
           was |-> FALSE, pid |-> 0, met |-> 0]

Up == host.owner # 0
\* The phases in which a Runtime admits work, and so a transition.
Admits == Up /\ host.phase \in {"open", "expired", "released"}
\* A query by transition answers of the Host that knows it.
Knows == Up /\ host.trans = life.trans
\* ... and the ticket names that Host's owner.
Same == Knows /\ host.owner = life.target

Mishap == mishaps > 0 /\ mishaps' = mishaps - 1
Well == mishaps' = mishaps

Turn(at) == life' = [life EXCEPT !.at = at]
Closed(was) == life' = [life EXCEPT !.at = "closed", !.was = was]
Quiet == UNCHANGED <<host, boots, owners>>

----------------------------------------------------------------------------
(* close *)

\* `trans` is this close's transition: acsetup issues a random one.
Close(how, trans) ==
    /\ life.at = "rest"
    /\ life' = [AtRest EXCEPT !.at = "status", !.how = how, !.trans = trans,
                              !.met = host.owner]
    /\ Quiet /\ Well

StatusAnswers ==
    /\ life.at = "status" /\ Up
    /\ Turn(IF life.how = "cold" THEN "shutdown" ELSE "begin")
    /\ Quiet /\ Well

\* No Runtime, or a status that fails although one runs.
StatusFails ==
    /\ life.at = "status"
    /\ IF Up THEN Mishap ELSE Well
    /\ Turn("gate")
    /\ Quiet

\* `ledger-maintenance verify` takes the owner lock: it proves nothing runs.
GateOpen == ~Up

ColdGate ==
    /\ life.at = "gate"
    /\ \/ GateOpen /\ Closed(FALSE) /\ Well
       \/ ~GateOpen /\ Turn("failed") /\ Well
       \/ Turn("failed") /\ Mishap
    /\ Quiet

\* `request-shutdown --wait`: answered, refused (busy), or its outcome unknown.
ColdShutdown ==
    /\ life.at = "shutdown"
    /\ \/ Admits /\ host' = NoHost /\ Closed(TRUE) /\ Well
       \/ ~Admits /\ host' = host /\ Turn("failed") /\ Well
       \/ host' \in {host, NoHost} /\ Turn("failed") /\ Mishap
    /\ UNCHANGED <<boots, owners>>

Draining == [host EXCEPT !.phase = "draining", !.trans = life.trans]

\* BeginDrain.  Without an answer the original transition is asked for once.
BeginDrain ==
    /\ life.at = "begin"
    /\ \/ /\ Admits /\ Well
          /\ host' = Draining
          /\ life' = [life EXCEPT !.at = "drain", !.target = host.owner]
       \/ ~Admits /\ host' = host /\ Turn("beginquery") /\ Well
       \/ /\ Mishap /\ Turn("beginquery")
          /\ host' \in IF Admits THEN {host, Draining} ELSE {host}
    /\ UNCHANGED <<boots, owners>>

BeginQuery ==
    /\ life.at = "beginquery"
    /\ \/ /\ Knows /\ Well
          /\ life' = [life EXCEPT !.at = "drain", !.target = host.owner]
       \/ ~Knows /\ Turn("failed") /\ Well
       \/ Turn("failed") /\ Mishap
    /\ Quiet

DrainPoll ==
    /\ life.at = "drain"
    /\ \/ Same /\ host.phase = "drained" /\ Turn("commit") /\ Well
       \/ ~(Same /\ host.phase \in {"draining", "drained"})
          /\ Turn("failed") /\ Well
       \/ Turn("failed") /\ Mishap         \* no answer, or the deadline
    /\ Quiet

\* CommitShutdown, waited for.  Unconfirmed, nothing is submitted again and
\* the close has failed, whatever the query says.
CommitShutdown ==
    /\ life.at = "commit"
    /\ \/ Same /\ host.phase = "drained" /\ host' = NoHost /\ Closed(TRUE) /\ Well
       \/ ~(Same /\ host.phase = "drained") /\ host' = host /\ Turn("failed") /\ Well
       \/ /\ Mishap /\ Turn("failed")
          /\ host' \in IF Same THEN {host, NoHost} ELSE {host}
    /\ UNCHANGED <<boots, owners>>

CloseStep ==
    \/ StatusAnswers \/ StatusFails \/ ColdGate \/ ColdShutdown
    \/ BeginDrain \/ BeginQuery \/ DrainPoll \/ CommitShutdown

----------------------------------------------------------------------------
(* start *)

\* A Runtime that was not running stays stopped; otherwise the slot's actingd
\* is started hidden, on generation `gen`.
Start(gen, how) ==
    /\ life.at = "closed"
    /\ \/ ~life.was /\ Turn("stopped") /\ Well /\ UNCHANGED <<boots, owners>>
       \/ life.was /\ Turn("failed") /\ Mishap /\ UNCHANGED <<boots, owners>>
       \/ /\ life.was /\ Well /\ owners < MaxOwners /\ boots.pid = 0
          /\ owners' = owners + 1
          /\ boots' = [pid |-> owners + 1, gen |-> gen, how |-> how,
                       trans |-> life.trans]
          /\ life' = [life EXCEPT !.at = "discover", !.how = how,
                                  !.pid = owners + 1]
    /\ host' = host

\* The started process takes the owner lock, held when it was asked to hold,
\* or finds another owner and ends.
Boots ==
    /\ boots.pid # 0
    /\ host' = IF Up THEN host
               ELSE [owner |-> boots.pid, gen |-> boots.gen,
                     phase |-> IF boots.how = "cold" THEN "open" ELSE "held",
                     trans |-> IF boots.how = "cold" THEN 0 ELSE boots.trans]
    /\ boots' = NoBoot
    /\ UNCHANGED <<life, owners>> /\ Well

\* runtime-info.json names the started process, or the process has exited, or
\* the deadline has passed with the process left alone.
Discover ==
    /\ life.at = "discover"
    /\ \/ /\ host.owner = life.pid /\ Well
          /\ Turn(IF life.how = "cold" THEN "probe" ELSE "held")
       \/ host.owner # life.pid /\ boots.pid # life.pid /\ Turn("failed") /\ Well
       \/ Turn("failed") /\ Mishap
    /\ Quiet

ColdProbe ==
    /\ life.at = "probe"
    /\ \/ Up /\ Turn("started") /\ Well
       \/ Turn("failed") /\ IF Up THEN Mishap ELSE Well
    /\ Quiet

\* The held Runtime is this very start's: its transition, its process.
HeldIsOurs == Knows /\ host.phase = "held" /\ host.owner = life.pid

Held ==
    /\ life.at = "held"
    /\ \/ /\ HeldIsOurs /\ Well
          /\ life' = [life EXCEPT !.at = "release", !.target = host.owner]
       \/ ~HeldIsOurs /\ Turn("failed") /\ Well
       \/ Turn("failed") /\ Mishap
    /\ Quiet

Preparing == [host EXCEPT !.phase = "preparing"]

Release ==
    /\ life.at = "release"
    /\ \/ Same /\ host.phase = "held" /\ host' = Preparing /\ Turn("prepare") /\ Well
       \/ ~(Same /\ host.phase = "held") /\ host' = host
          /\ Turn("releasequery") /\ Well
       \/ /\ Mishap /\ Turn("releasequery")
          /\ host' \in IF Same /\ host.phase = "held" THEN {host, Preparing} ELSE {host}
    /\ UNCHANGED <<boots, owners>>

ReleaseQuery ==
    /\ life.at = "releasequery"
    /\ \/ Knows /\ Turn("prepare") /\ Well
       \/ ~Knows /\ Turn("failed") /\ Well
       \/ Turn("failed") /\ Mishap
    /\ Quiet

PreparePoll ==
    /\ life.at = "prepare"
    /\ \/ Same /\ host.phase = "released" /\ Turn("started") /\ Well
       \/ ~(Same /\ host.phase \in {"preparing", "released"})
          /\ Turn("failed") /\ Well
       \/ Turn("failed") /\ Mishap
    /\ Quiet

StartStep ==
    Discover \/ ColdProbe \/ Held \/ Release \/ ReleaseQuery \/ PreparePoll

----------------------------------------------------------------------------
(* the Host, and other programs *)

DrainEnds ==
    /\ host.phase = "draining"
    /\ host' = [host EXCEPT !.phase = "drained"]
    /\ UNCHANGED <<boots, life, owners>> /\ Well

PrepareEnds ==
    /\ host.phase = "preparing"
    /\ host' = [host EXCEPT !.phase = "released"]
    /\ UNCHANGED <<boots, life, owners>> /\ Well

\* acsetup waits for this Host's transition.
Awaited ==
    /\ host.trans = life.trans
    /\ life.at \in {"begin", "beginquery", "drain", "commit", "discover",
                    "held", "release", "releasequery", "prepare"}

\* The Host's own deadline: a drain is given up, a Runtime nobody releases ends.
Expires ==
    /\ host.phase \in {"draining", "drained", "held"}
    /\ IF Awaited THEN Mishap ELSE Well
    /\ host' = IF host.phase = "held" THEN NoHost
               ELSE [host EXCEPT !.phase = "expired"]
    /\ UNCHANGED <<boots, life, owners>>

Dies ==
    /\ Up /\ Mishap
    /\ host' = NoHost
    /\ UNCHANGED <<boots, life, owners>>

\* The console, an entry or the Startup launcher starts the selected Runtime.
OtherStarts(gen) ==
    /\ ~Up /\ owners + 1 < MaxOwners /\ Mishap
    /\ owners' = owners + 1
    /\ host' = [NoHost EXCEPT !.owner = owners + 1, !.gen = gen]
    /\ UNCHANGED <<boots, life>>

HostStep == Boots \/ DrainEnds \/ PrepareEnds \/ Expires \/ Dies
=============================================================================
