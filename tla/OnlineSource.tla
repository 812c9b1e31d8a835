----------------------------- MODULE OnlineSource -----------------------------
(***************************************************************************)
(* The online read face's connections (crates/acui-source/src/lib.rs):     *)
(* the main, the page and the material one a session keeps, each rebuilt   *)
(* after the client latched it (`Rebuilding`), the page exchange with its  *)
(* one retry after a timeout (`LedgerPages`), and the follow poll.  The    *)
(* Runtime may stop, start again as another owner, answer late or not at   *)
(* all between any two steps; it and its client are external.              *)
(*                                                                         *)
(* One thread, the window's reader, uses them.  The material connection's  *)
(* reads, on the frame workers, are in FrameSlot.                          *)
(***************************************************************************)
EXTENDS Naturals, FiniteSets

CONSTANTS
  NoAnswer,    \* nothing answered yet
  MaxEpoch,    \* bound: Runtimes one after another
  MaxAsks,     \* bound: exchanges in one behaviour
  Faults       \* what a run lets go wrong

ASSUME SourceAssumption ==
  /\ MaxEpoch \in Nat \ {0} /\ MaxAsks \in Nat
  /\ Faults \subseteq {"connect", "timeout", "fatal", "refused"}

VARIABLES
  runtime,     \* the running Runtime's owner epoch; 0: none runs
  started,     \* Runtimes started so far
  owner,       \* the session's owner epoch: its main connection's
  client,      \* per connection, the client that holds it
  latched,     \* per connection, the console's mark that it is to be rebuilt
  pc,          \* what the reader does next
  op,          \* the read it makes
  asks,        \* times the read in hand was sent out
  answer,      \* the last answer taken, and the Runtime that gave it
  exchanges    \* reads begun

runtimeVars == <<runtime, started>>
vars == <<runtimeVars, owner, client, latched, pc, op, asks, answer, exchanges>>

Kinds == {"main", "pages", "material"}
Operations == {"query", "latest", "poll"}
Epochs == 1..MaxEpoch
(* A client: the Runtime it reached, and whether it latched.               *)
Clients == [epoch : 0..MaxEpoch, dead : BOOLEAN]
NoClient == [epoch |-> 0, dead |-> TRUE]
PCs == {"main", "pages", "material", "idle", "client", "ask", "backoff", "retry", "failed"}

Uses(o) == IF o = "poll" THEN "main" ELSE "pages"

TypeOK ==
  /\ runtime \in 0..MaxEpoch /\ started \in Epochs /\ owner \in 0..MaxEpoch
  /\ client \in [Kinds -> Clients] /\ latched \in [Kinds -> BOOLEAN]
  /\ pc \in PCs /\ op \in Operations
  /\ asks \in Nat /\ exchanges \in 0..MaxAsks
  /\ answer \in [op : Operations, epoch : Epochs] \cup {NoAnswer}

Init ==
  /\ runtime = 1 /\ started = 1 /\ owner = 0
  /\ client = [k \in Kinds |-> NoClient] /\ latched = [k \in Kinds |-> FALSE]
  /\ pc = "main" /\ op = "latest" /\ asks = 0
  /\ answer = NoAnswer /\ exchanges = 0

-----------------------------------------------------------------------------
(* The Runtime stops, or one is started, with an owner epoch of its own.   *)
RuntimeStops ==
  /\ runtime # 0 /\ runtime' = 0
  /\ UNCHANGED <<started, owner, client, latched, pc, op, asks, answer, exchanges>>

RuntimeStarts ==
  /\ runtime = 0 /\ started < MaxEpoch
  /\ runtime' = started + 1 /\ started' = started + 1
  /\ UNCHANGED <<owner, client, latched, pc, op, asks, answer, exchanges>>

-----------------------------------------------------------------------------
(* The connections.                                                        *)

CanConnect == runtime # 0
ConnectFails == runtime = 0 \/ "connect" \in Faults

Connected == [epoch |-> runtime, dead |-> FALSE]

\* Mutant: a rebuild takes whichever Runtime it reaches.
ReconnectedToAny(k) ==
  /\ CanConnect
  /\ client' = [client EXCEPT ![k] = Connected]
  /\ latched' = [latched EXCEPT ![k] = FALSE]

(* reconnect: a fresh connection to the session's own Runtime, or the old  *)
(* one and its mark stay.                                                  *)
Reconnected(k) ==
  /\ CanConnect /\ runtime = owner
  /\ client' = [client EXCEPT ![k] = Connected]
  /\ latched' = [latched EXCEPT ![k] = FALSE]

ReconnectFails ==
  /\ ConnectFails \/ runtime # owner
  /\ UNCHANGED <<client, latched>>

(* What a client's call comes back with.  One to a Runtime that is gone, or *)
(* on a client that latched, fails fatally; a fatal failure latches it.     *)
Results(k) ==
  IF client[k].dead \/ client[k].epoch # runtime THEN {"fatal"}
  ELSE {"answer"} \cup (Faults \cap {"timeout", "fatal", "refused"})

Fatal(result) == result \in {"timeout", "fatal"}

(* The call on connection k, and note: its mark after a fatal failure.     *)
Called(k, result) ==
  /\ client' = [client EXCEPT ![k].dead = @ \/ Fatal(result)]
  /\ latched' = [latched EXCEPT ![k] = @ \/ Fatal(result)]
  /\ asks' = asks + 1

-----------------------------------------------------------------------------
(* Session::open and OnlineSource::pin: the three connections, all to the  *)
(* Runtime the main one reached, then its first page.                      *)

OpenMain ==
  /\ pc = "main"
  /\ \/ /\ CanConnect
        /\ client' = [client EXCEPT !["main"] = Connected]
        /\ owner' = runtime /\ pc' = "pages"
     \/ ConnectFails /\ pc' = "failed" /\ UNCHANGED <<client, owner>>
  /\ UNCHANGED <<runtimeVars, latched, op, asks, answer, exchanges>>

OpenNext(k, next) ==
  /\ pc = k
  /\ \/ /\ CanConnect /\ runtime = owner
        /\ client' = [client EXCEPT ![k] = Connected] /\ pc' = next
     \/ /\ ConnectFails \/ runtime # owner
        /\ pc' = "failed" /\ UNCHANGED client
  /\ UNCHANGED <<runtimeVars, owner, latched, op, asks, answer, exchanges>>

-----------------------------------------------------------------------------
(* A read: a page query, a new pin (latest) or a follow poll.              *)

Begin ==
  /\ pc = "idle" /\ exchanges < MaxAsks
  /\ op' \in Operations
  /\ asks' = 0 /\ exchanges' = exchanges + 1 /\ pc' = "client"
  /\ UNCHANGED <<runtimeVars, owner, client, latched, answer>>

(* client: rebuilt first when an earlier exchange latched it.              *)
Client ==
  /\ pc = "client"
  /\ LET k == Uses(op)
     IN \/ ~latched[k] /\ pc' = "ask" /\ UNCHANGED <<client, latched>>
        \/ latched[k] /\ Reconnected(k) /\ pc' = "ask"
        \/ latched[k] /\ ReconnectFails /\ pc' = "idle"
  /\ UNCHANGED <<runtimeVars, owner, op, asks, answer, exchanges>>

(* The first page fails the session as it opens; any other read only fails. *)
Over == IF answer = NoAnswer THEN "failed" ELSE "idle"

(* A page's first timeout is asked again.                                  *)
AfterFailed(result) ==
  IF pc = "ask" /\ result = "timeout" /\ op # "poll" THEN "backoff" ELSE Over

Ask ==
  /\ pc \in {"ask", "retry"}
  /\ \E result \in Results(Uses(op)) :
       /\ Called(Uses(op), result)
       /\ IF result = "answer"
            THEN /\ answer' = [op |-> op, epoch |-> client[Uses(op)].epoch]
                 /\ pc' = "idle"
            ELSE pc' = AfterFailed(result) /\ UNCHANGED answer
  /\ UNCHANGED <<runtimeVars, owner, op, exchanges>>

(* A page that timed out is asked once more, after a wait, on a rebuilt    *)
(* connection, and not when that reaches another Runtime.                  *)
Backoff ==
  /\ pc = "backoff"
  /\ \/ Reconnected(Uses(op)) /\ pc' = "retry"
     \/ ReconnectFails /\ pc' = Over
  /\ UNCHANGED <<runtimeVars, owner, op, asks, answer, exchanges>>

Next ==
  \/ RuntimeStops \/ RuntimeStarts
  \/ OpenMain \/ OpenNext("pages", "material") \/ OpenNext("material", "client")
  \/ Begin \/ Client \/ Ask \/ Backoff

Spec == Init /\ [][Next]_vars

-----------------------------------------------------------------------------
(* What must hold.                                                         *)

\* Every answer a session takes was given by the Runtime its pin is of,
\* whichever Runtime was there when it opened, timed out or rebuilt a
\* connection (Rebuilding: every pin was stated by it).
AnswersOfOneRuntime == answer # NoAnswer => answer.epoch = owner

\* The connections a session keeps never reach two Runtimes.
OneRuntime ==
  \A k \in Kinds : client[k] # NoClient => client[k].epoch = owner

\* No request goes out on a connection its client already latched: it would
\* fail without being asked (R-0c), so each failure has marked it for rebuild.
NeverAskedLatched ==
  [][asks' > asks => ~client[Uses(op)].dead]_vars

\* A page that timed out is asked again once at most, and a poll never: a
\* slow Runtime is not piled up with the same query.
AskedAgainOnceOnly == asks <= IF op = "poll" THEN 1 ELSE 2

-----------------------------------------------------------------------------
(* The inductive invariant.                                                *)

(* The connections made by the time the reader is where it is.             *)
Made ==
  CASE pc = "main" -> {}
    [] pc = "pages" -> {"main"}
    [] pc = "material" -> {"main", "pages"}
    [] pc = "failed" -> {}
    [] OTHER -> Kinds

\* Nothing is made or answered before the main connection.
NothingYet == pc = "main" => client = [k \in Kinds |-> NoClient] /\ answer = NoAnswer

\* Every connection made reached some Runtime, and one whose client latched
\* is marked for a rebuild.
LatchedIsMarked ==
  \A k \in Kinds :
    /\ k \in Made => client[k].epoch # 0
    /\ client[k].epoch # 0 => (client[k].dead => latched[k])

\* A request goes out only after the mark was looked at.
AskedUnmarked == pc \in {"ask", "retry"} => ~latched[Uses(op)]

\* How often the read in hand was sent, by where the reader is.
AsksSoFar ==
  /\ pc \in {"main", "pages", "material", "client", "ask"} => asks = 0
  /\ pc \in {"backoff", "retry"} => asks = 1 /\ op # "poll"

IInv ==
  /\ TypeOK /\ OneRuntime /\ AnswersOfOneRuntime
  /\ NothingYet /\ LatchedIsMarked /\ AskedUnmarked /\ AsksSoFar /\ AskedAgainOnceOnly
=============================================================================
