------------------------- MODULE WindowParts_proofs -------------------------
(***************************************************************************)
(* Proofs about the parts of the windows' exchange with the Runtime, each  *)
(* for every value of its constants: that a session's answers are of one   *)
(* Runtime and the place to start reading from is safe (OnlineSource,      *)
(* TimeBound), that the frame on the pane is its request's (FrameSlot),    *)
(* that an unlock runs alone and a request's line ends with it (Launcher), *)
(* and that one work is out of a device, a destructive one as it was asked *)
(* (Device).                                                               *)
(***************************************************************************)
EXTENDS OnlineSource, TimeBound, FrameSlot, Launcher, Device, SequenceTheorems,
        FiniteSetTheorems, TLAPS

-----------------------------------------------------------------------------
(* The exchange of a read: connections, the latch and asking again.        *)

(* Every read uses a connection the session keeps.                         *)
LEMMA UsesKinds == ASSUME NEW o PROVE Uses(o) \in Kinds
  BY DEF Uses, Kinds

(* A fresh client.                                                         *)
LEMMA ConnectedClient ==
  ASSUME TypeOK PROVE Connected \in Clients /\ Connected.epoch = runtime /\ ~Connected.dead
  BY DEF Connected, Clients, TypeOK

(* The session before its first connection.                                *)
LEMMA InitInv == Init => IInv
  BY SourceAssumption
  DEF Init, IInv, TypeOK, OneRuntime, AnswersOfOneRuntime, NothingYet, LatchedIsMarked,
      AskedUnmarked, AsksSoFar, AskedAgainOnceOnly, Kinds, Clients, NoClient, PCs,
      Operations, Epochs, Made

(* The first connection: the owner is the Runtime it reached.              *)
LEMMA OpenMainInv == IInv /\ OpenMain => IInv'
<1> SUFFICES ASSUME IInv, OpenMain PROVE IInv'
  OBVIOUS
<1> USE SourceAssumption
    DEF IInv, OpenMain, runtimeVars, CanConnect
<1>0. Connected \in Clients /\ Connected.epoch = runtime
  BY ConnectedClient
<1>1. TypeOK'
  <2>1. client' \in [Kinds -> Clients]
    BY <1>0 DEF TypeOK
  <2>2. pc' \in PCs /\ owner' \in 0..MaxEpoch
    BY DEF TypeOK, PCs
  <2>3. QED
    BY <2>1, <2>2 DEF TypeOK
<1>2. OneRuntime' /\ AnswersOfOneRuntime'
  BY <1>0 DEF OneRuntime, AnswersOfOneRuntime, NothingYet
<1>3. NothingYet' /\ LatchedIsMarked'
  <2>1. \A j \in Kinds : client'[j] = NoClient \/ (j = "main" /\ client'[j] = Connected)
    <3>1. client = [j \in Kinds |-> NoClient]
      BY DEF NothingYet
    <3>2. client' = client \/ client' = [client EXCEPT !["main"] = Connected]
      OBVIOUS
    <3>3. QED
      BY <3>1, <3>2
  <2>2. pc' = "pages" => client'["main"] = Connected /\ Connected.epoch # 0
    BY <1>0 DEF NothingYet, Kinds
  <2>3. NoClient.epoch = 0 /\ ~Connected.dead
    BY ConnectedClient DEF NoClient
  <2>4. QED
    BY <2>1, <2>2, <2>3 DEF NothingYet, LatchedIsMarked, Made
<1>4. AskedUnmarked' /\ AsksSoFar' /\ AskedAgainOnceOnly'
  BY DEF AskedUnmarked, AsksSoFar, AskedAgainOnceOnly
<1>5. QED
  BY <1>1, <1>2, <1>3, <1>4

(* The page and the material connection: to that Runtime, or none.         *)
LEMMA OpenNextInv ==
  ASSUME IInv, NEW k \in {"pages", "material"}, NEW next, OpenNext(k, next),
         next = IF k = "pages" THEN "material" ELSE "client"
  PROVE IInv'
<1> USE SourceAssumption
    DEF IInv, OpenNext, runtimeVars, CanConnect
<1>0. Connected \in Clients /\ Connected.epoch = runtime /\ ~Connected.dead
  BY ConnectedClient
<1>1. TypeOK'
  <2>1. client' \in [Kinds -> Clients]
    BY <1>0 DEF TypeOK
  <2>2. pc' \in PCs
    BY DEF TypeOK, PCs
  <2>3. QED
    BY <2>1, <2>2 DEF TypeOK
<1>2. OneRuntime' /\ AnswersOfOneRuntime'
  BY <1>0 DEF OneRuntime, AnswersOfOneRuntime, TypeOK
<1>3. NothingYet' /\ LatchedIsMarked'
  BY <1>0 DEF NothingYet, LatchedIsMarked, Made, TypeOK, Kinds
<1>4. AskedUnmarked' /\ AskedAgainOnceOnly'
  BY DEF AskedUnmarked, AskedAgainOnceOnly
<1>5. asks = 0 => AsksSoFar'
  BY DEF AsksSoFar
<1>6. asks = 0
  BY DEF AsksSoFar
<1>7. QED
  BY <1>1, <1>2, <1>3, <1>4, <1>5, <1>6

(* A rebuild replaces a client only by one of the owner, and unmarked.     *)
LEMMA RebuildInv ==
  ASSUME IInv, NEW k \in Kinds, pc \in {"client", "backoff"},
         Reconnected(k) \/ UNCHANGED <<client, latched>>,
         UNCHANGED <<runtimeVars, owner, op, asks, answer, exchanges>>
  PROVE /\ client' \in [Kinds -> Clients] /\ latched' \in [Kinds -> BOOLEAN]
        /\ OneRuntime' /\ AnswersOfOneRuntime'
        /\ \A j \in Kinds : client'[j].epoch # 0 /\ (client'[j].dead => latched'[j])
<1> USE DEF IInv, Reconnected, CanConnect
<1>0. Connected \in Clients /\ Connected.epoch = runtime /\ ~Connected.dead
  BY ConnectedClient
<1>1. client' \in [Kinds -> Clients] /\ latched' \in [Kinds -> BOOLEAN]
  BY <1>0 DEF TypeOK
<1>2. OneRuntime' /\ AnswersOfOneRuntime'
  BY <1>0 DEF OneRuntime, AnswersOfOneRuntime, TypeOK
<1>3. \A j \in Kinds : client'[j].epoch # 0 /\ (client'[j].dead => latched'[j])
  BY <1>0 DEF LatchedIsMarked, Made, TypeOK
<1>4. QED
  BY <1>1, <1>2, <1>3

(* The mark is looked at before a read goes out.                           *)
LEMMA ClientInv == IInv /\ Client => IInv'
<1> SUFFICES ASSUME IInv, Client PROVE IInv'
  OBVIOUS
<1>1. Uses(op) \in Kinds
  BY UsesKinds
<1>2. /\ client' \in [Kinds -> Clients] /\ latched' \in [Kinds -> BOOLEAN]
      /\ OneRuntime' /\ AnswersOfOneRuntime'
      /\ \A j \in Kinds : client'[j].epoch # 0 /\ (client'[j].dead => latched'[j])
  <2>1. /\ pc \in {"client", "backoff"}
        /\ Reconnected(Uses(op)) \/ UNCHANGED <<client, latched>>
        /\ UNCHANGED <<runtimeVars, owner, op, asks, answer, exchanges>>
    BY DEF Client, ReconnectFails
  <2>2. QED
    BY <1>1, <2>1, RebuildInv
<1>3. TypeOK'
  BY <1>2 DEF IInv, TypeOK, Client, runtimeVars, PCs
<1>4. NothingYet' /\ LatchedIsMarked'
  BY <1>2 DEF NothingYet, LatchedIsMarked, Client
<1>5. AskedUnmarked'
  <2>1. ASSUME Reconnected(Uses(op)) PROVE ~latched'[Uses(op)]
    BY <1>1, <2>1 DEF Reconnected, IInv, TypeOK
  <2>2. op' = op
    BY DEF Client
  <2>3. QED
    BY <2>1, <2>2 DEF AskedUnmarked, Client, Uses
<1>6. AsksSoFar' /\ AskedAgainOnceOnly'
  BY DEF IInv, AsksSoFar, AskedAgainOnceOnly, Client
<1>7. QED
  BY <1>2, <1>3, <1>4, <1>5, <1>6 DEF IInv

(* The rebuild a retry waits for.                                          *)
LEMMA BackoffInv == IInv /\ Backoff => IInv'
<1> SUFFICES ASSUME IInv, Backoff PROVE IInv'
  OBVIOUS
<1>1. Uses(op) \in Kinds
  BY UsesKinds
<1>2. /\ client' \in [Kinds -> Clients] /\ latched' \in [Kinds -> BOOLEAN]
      /\ OneRuntime' /\ AnswersOfOneRuntime'
      /\ \A j \in Kinds : client'[j].epoch # 0 /\ (client'[j].dead => latched'[j])
  <2>1. /\ pc \in {"client", "backoff"}
        /\ Reconnected(Uses(op)) \/ UNCHANGED <<client, latched>>
        /\ UNCHANGED <<runtimeVars, owner, op, asks, answer, exchanges>>
    BY DEF Backoff, ReconnectFails
  <2>2. QED
    BY <1>1, <2>1, RebuildInv
<1>3. TypeOK'
  BY <1>2 DEF IInv, TypeOK, Backoff, runtimeVars, PCs, Over
<1>4. NothingYet' /\ LatchedIsMarked'
  BY <1>2 DEF NothingYet, LatchedIsMarked, Backoff, Over
<1>5. AskedUnmarked'
  <2>1. ASSUME Reconnected(Uses(op)) PROVE ~latched'[Uses(op)]
    BY <1>1, <2>1 DEF Reconnected, IInv, TypeOK
  <2>2. op' = op
    BY DEF Backoff
  <2>3. QED
    BY <2>1, <2>2 DEF AskedUnmarked, Backoff, Uses, Over
<1>6. AsksSoFar' /\ AskedAgainOnceOnly'
  BY DEF IInv, AsksSoFar, AskedAgainOnceOnly, Backoff, Over
<1>7. QED
  BY <1>2, <1>3, <1>4, <1>5, <1>6 DEF IInv

(* A call: an answer is the Runtime's its client reached, and a fatal      *)
(* failure marks the connection it latches.                                *)
LEMMA AskInv == IInv /\ Ask => IInv'
<1> SUFFICES ASSUME IInv, Ask PROVE IInv'
  OBVIOUS
<1> DEFINE k == Uses(op)
<1>1. PICK result \in Results(k) :
        /\ Called(k, result)
        /\ IF result = "answer"
             THEN answer' = [op |-> op, epoch |-> client[k].epoch] /\ pc' = "idle"
             ELSE pc' = AfterFailed(result) /\ UNCHANGED answer
  BY DEF Ask
<1>2. k \in Kinds
  BY UsesKinds
<1>3. /\ pc \in {"ask", "retry"} /\ Made = Kinds
      /\ UNCHANGED <<runtimeVars, owner, op, exchanges>>
  BY DEF Ask, Made
<1> HIDE DEF k
<1>4. /\ client' \in [Kinds -> Clients] /\ latched' \in [Kinds -> BOOLEAN]
      /\ asks' = asks + 1
      /\ \A j \in Kinds : client'[j].epoch = client[j].epoch
      /\ \A j \in Kinds : client'[j].dead => latched'[j]
  BY <1>1, <1>2, <1>3 DEF Called, Fatal, IInv, TypeOK, LatchedIsMarked, Clients
<1>5. client[k].epoch \in Epochs /\ client[k].epoch = owner
  BY <1>2, <1>3 DEF IInv, TypeOK, LatchedIsMarked, OneRuntime, Clients, Epochs, NoClient
<1>6. TypeOK'
  <2>1. answer' \in [op : Operations, epoch : Epochs] \cup {NoAnswer}
    BY <1>1, <1>5 DEF IInv, TypeOK
  <2>2. pc' \in PCs
    BY <1>1 DEF PCs, AfterFailed, Over
  <2>3. QED
    BY <1>3, <1>4, <2>1, <2>2 DEF IInv, TypeOK, runtimeVars
<1>7. OneRuntime'
  <2>1. \A j \in Kinds : client[j].epoch = owner
    BY <1>3 DEF IInv, OneRuntime, LatchedIsMarked, NoClient
  <2>2. QED
    BY <1>3, <1>4, <2>1 DEF OneRuntime
<1>8. AnswersOfOneRuntime'
  BY <1>1, <1>3, <1>5 DEF IInv, AnswersOfOneRuntime
<1>9. NothingYet' /\ LatchedIsMarked'
  <2>1. pc' # "main"
    BY <1>1 DEF AfterFailed, Over
  <2>2. \A j \in Kinds : client[j].epoch # 0
    BY <1>3 DEF IInv, LatchedIsMarked
  <2>3. QED
    BY <1>4, <2>1, <2>2 DEF NothingYet, LatchedIsMarked
<1>10. AskedUnmarked'
  BY <1>1 DEF AskedUnmarked, AfterFailed, Over
<1>11. AsksSoFar' /\ AskedAgainOnceOnly'
  BY <1>1, <1>3, <1>4 DEF IInv, AsksSoFar, AskedAgainOnceOnly, TypeOK, AfterFailed, Over
<1>12. QED
  BY <1>6, <1>7, <1>8, <1>9, <1>10, <1>11 DEF IInv

(* A step of the Runtime, and the next read begun.                         *)
LEMMA OtherInv ==
  ASSUME IInv, RuntimeStops \/ RuntimeStarts \/ Begin \/ UNCHANGED vars PROVE IInv'
<1> USE SourceAssumption DEF IInv
<1>1. TypeOK'
  BY DEF TypeOK, RuntimeStops, RuntimeStarts, Begin, vars, runtimeVars, PCs, Epochs
<1>2. OneRuntime' /\ AnswersOfOneRuntime' /\ NothingYet'
  BY DEF OneRuntime, AnswersOfOneRuntime, NothingYet, RuntimeStops, RuntimeStarts, Begin,
     vars, runtimeVars
<1>3. LatchedIsMarked' /\ AskedUnmarked'
  BY DEF LatchedIsMarked, AskedUnmarked, Made, Uses, RuntimeStops, RuntimeStarts, Begin,
     vars, runtimeVars
<1>4. AsksSoFar' /\ AskedAgainOnceOnly'
  BY DEF AsksSoFar, AskedAgainOnceOnly, RuntimeStops, RuntimeStarts, Begin, vars,
     runtimeVars
<1>5. QED
  BY <1>1, <1>2, <1>3, <1>4

(* The invariant holds throughout, whatever the Runtime does.              *)
THEOREM Inductive == Spec => []IInv
<1>1. IInv /\ [Next]_vars => IInv'
  <2> SUFFICES ASSUME IInv, [Next]_vars PROVE IInv'
    OBVIOUS
  <2>1. CASE OpenMain
    BY <2>1, OpenMainInv
  <2>2. CASE OpenNext("pages", "material")
    BY <2>2, OpenNextInv
  <2>3. CASE OpenNext("material", "client")
    BY <2>3, OpenNextInv
  <2>4. CASE Client
    BY <2>4, ClientInv
  <2>5. CASE Ask
    BY <2>5, AskInv
  <2>6. CASE Backoff
    BY <2>6, BackoffInv
  <2>7. CASE RuntimeStops \/ RuntimeStarts \/ Begin \/ UNCHANGED vars
    BY <2>7, OtherInv
  <2>8. QED
    BY <2>1, <2>2, <2>3, <2>4, <2>5, <2>6, <2>7 DEF Next
<1>2. QED
  BY InitInv, <1>1, PTL DEF Spec

(* Every answer a session takes is of the Runtime that stated its pin      *)
(* (LedgerPages::exchange, OnlineSource::pin).                             *)
THEOREM OneRuntimeAnswers == Spec => []AnswersOfOneRuntime
<1>1. IInv => AnswersOfOneRuntime
  BY DEF IInv
<1>2. QED
  BY Inductive, <1>1, PTL

(* No request goes out on a connection whose client latched                *)
(* (Rebuilding::client, note).                                             *)
THEOREM LatchedIsNeverAsked == Spec => NeverAskedLatched
<1>1. IInv /\ [Next]_vars => [asks' > asks => ~client[Uses(op)].dead]_vars
  <2> SUFFICES ASSUME IInv, Next, asks' > asks PROVE ~client[Uses(op)].dead
    OBVIOUS
  <2>1. asks \in Nat
    BY DEF IInv, TypeOK
  <2>2. Ask
    BY <2>1 DEF Next, RuntimeStops, RuntimeStarts, OpenMain, OpenNext, Begin, Client, Backoff
  <2>3. Uses(op) \in Kinds /\ Made = Kinds /\ ~latched[Uses(op)]
    BY <2>2, UsesKinds DEF IInv, AskedUnmarked, Ask, Made
  <2>4. QED
    BY <2>3 DEF IInv, LatchedIsMarked
<1>2. QED
  BY Inductive, <1>1, PTL DEF Spec, NeverAskedLatched

(* A page is asked again once at most, and a follow poll never             *)
(* (LedgerPages::exchange, OnlineSource::poll).                            *)
THEOREM RetriedOnce == Spec => []AskedAgainOnceOnly
<1>1. IInv => AskedAgainOnceOnly
  BY DEF IInv
<1>2. QED
  BY Inductive, <1>1, PTL

-----------------------------------------------------------------------------
(* Where a view under a time bound starts to read: it misses nothing, for  *)
(* every ledger, span, slack and number of probes.                         *)

(* The estimate is a position at or below the pin, or the pin.             *)
LEMMA EstimateInt ==
  ASSUME NEW first \in Times, NEW last \in Times, NEW at \in Times
  PROVE UpperForTime(first, last, at) \in Int
<1>1. CASE at >= last \/ at < first
  BY <1>1, TimeAssumption DEF UpperForTime
<1>2. CASE ~(at >= last \/ at < first)
  <2> DEFINE ahead == (at - first) * Snapshot
             span == last - first
  <2>1. ahead \in Int /\ span \in Int /\ span > 0
    BY <1>2, TimeAssumption DEF Times
  <2> HIDE DEF ahead, span
  <2>2. ahead \div span \in Int
    BY <2>1
  <2> USE DEF ahead, span
  <2>3. QED
    BY <1>2, <2>2, TimeAssumption DEF UpperForTime
<1>3. QED
  BY <1>1, <1>2

(* The position and the step stay whole numbers.                           *)
Whole == upper \in Int /\ step \in Int

(* Throughout.                                                             *)
LEMMA WholeInv == BoundSpec => []Whole
<1>1. BoundInit => Whole
  <2> SUFFICES ASSUME BoundInit PROVE Whole
    OBVIOUS
  <2>1. \A i \in Positions : UpperForTime(ledger[1].time, ledger[i].time, bound) \in Int
    <3> SUFFICES ASSUME NEW i \in Positions
                 PROVE UpperForTime(ledger[1].time, ledger[i].time, bound) \in Int
      OBVIOUS
    <3>1. 1 \in Positions
      BY TimeAssumption DEF Positions
    <3>2. ledger[1].time \in Times /\ ledger[i].time \in Times /\ bound \in Times
      BY <3>1 DEF BoundInit, Ledgers
    <3>3. QED
      BY <3>2, EstimateInt
  <2>2. QED
    BY <2>1, TimeAssumption DEF BoundInit, Whole
<1>2. Whole /\ [BoundNext]_boundVars => Whole'
  BY TimeAssumption
  DEF Whole, BoundNext, StopAtPin, ProbeUndecided, ProbeNone, ProbeFound, CanProbe, Returns, boundVars
<1>3. QED
  BY <1>1, <1>2, PTL DEF BoundSpec

(* The start `checked_upper` returns has no event above it that the view   *)
(* would show, and is not past the pin.                                    *)
THEOREM StartIsSafe == BoundSpec => []SafeStart
<1>1. BoundInit => SafeStart
  BY DEF BoundInit, SafeStart
<1>2. Whole /\ SafeStart /\ [BoundNext]_boundVars => SafeStart'
  <2> SUFFICES ASSUME Whole, SafeStart, [BoundNext]_boundVars PROVE SafeStart'
    OBVIOUS
  <2> USE TimeAssumption DEF Whole, SafeStart, Shows
  <2>1. ASSUME Returns(Snapshot) PROVE SafeStart'
    BY <2>1 DEF Returns
  <2>2. CASE StopAtPin
    BY <2>1, <2>2 DEF StopAtPin
  <2>3. CASE ProbeUndecided
    BY <2>1, <2>3 DEF ProbeUndecided
  <2>4. CASE ProbeNone
    BY <2>4 DEF ProbeNone, CanProbe, Returns
  <2>5. CASE ProbeFound
    BY <2>5 DEF ProbeFound, CanProbe
  <2>6. CASE UNCHANGED boundVars
    BY <2>6 DEF boundVars
  <2>7. QED
    BY <2>2, <2>3, <2>4, <2>5, <2>6 DEF BoundNext
<1>3. QED
  BY <1>1, <1>2, WholeInv, PTL DEF BoundSpec

-----------------------------------------------------------------------------
(* The frame pane: every read is of an earlier request, or of the one the  *)
(* pane has.                                                               *)

(* A read is of an earlier request, or of the one the pane has: its event, *)
(* in the session of the window, since the last reload unless the paint    *)
(* that forgets the frame is to come.                                      *)
IsCurrent(r) ==
  /\ r.gen <= generation
  /\ r.gen = generation =>
       /\ request # NoRequest /\ r.event = request.event
       /\ r.session = session
       /\ forget \/ r.reload = reloads

(* The request of the pane is the last one, and what is on the pane is what *)
(* its read brought.                                                        *)
PaneCurrent ==
  /\ request # NoRequest => request.gen = generation
  /\ shown # NoFrame => IsCurrent(shown) /\ shown.gen = generation /\ request.said

ReadsCurrent ==
  /\ \A w \in workers : IsCurrent(w)
  /\ \A i \in 1 .. Len(handed) : IsCurrent(handed[i].read)

FrameInv == FrameTypes /\ PaneCurrent /\ ReadsCurrent

LEMMA FrameStarts == FrameInit => FrameInv
<1> SUFFICES ASSUME FrameInit PROVE FrameInv OBVIOUS
<1> USE FrameAssumption DEF FrameInit
<1>1. 1 \in Sessions /\ 1 \in 1 .. MaxConnection BY DEF Sessions
<1>2. reader \in [Sessions -> ReaderPCs] BY DEF ReaderPCs
<1>3. handed \in Seq(Posts) /\ Len(handed) = 0 BY EmptySeq
<1>4. FrameTypes BY <1>1, <1>2, <1>3 DEF FrameTypes
<1>5. PaneCurrent /\ ReadsCurrent BY <1>3 DEF PaneCurrent, ReadsCurrent, NoFrame
<1> QED BY <1>4, <1>5 DEF FrameInv

(* A queue keeps its entries: what is taken off it was there, and what is  *)
(* put to it is there or is the new entry.                                 *)
LEMMA TailOf ==
  ASSUME NEW S, NEW q \in Seq(S), q # <<>>
  PROVE  /\ Tail(q) \in Seq(S) /\ Head(q) \in S /\ Head(q) = q[1] /\ 1 \in 1 .. Len(q)
         /\ \A i \in 1 .. Len(Tail(q)) : i + 1 \in 1 .. Len(q) /\ Tail(q)[i] = q[i + 1]
<1>1. Tail(q) \in Seq(S) /\ Head(q) \in S /\ Head(q) = q[1] /\ Len(q) \in Nat \ {0}
  BY HeadTailProperties, EmptySeq, LenProperties
<1>2. Len(Tail(q)) = Len(q) - 1
  BY HeadTailProperties
<1>3. \A i \in 1 .. Len(Tail(q)) : Tail(q)[i] = q[i + 1]
  BY HeadTailProperties
<1> QED BY <1>1, <1>2, <1>3

LEMMA ReadOf ==
  ASSUME NEW w \in Reads
  PROVE  /\ w.event \in Events /\ w.gen \in Nat /\ w.session \in Sessions
         /\ w.reload \in Nat /\ w.reader \in Readers
         /\ w.stage \in {"waiting", "reading", "done"}
         /\ w.frame \in BOOLEAN /\ w.wanted \in BOOLEAN
  BY DEF Reads

(* What a pane's request says of what it asked for.                        *)
LEMMA AskedOne ==
  ASSUME FrameTypes, NEW e \in Events, published # NoReader
  PROVE  /\ Asked(e) \in Reads
         /\ Asked(e).event = e /\ Asked(e).gen = generation + 1
         /\ Asked(e).session = session /\ Asked(e).reload = reloads
<1>1. /\ generation + 1 \in Nat /\ session \in Sessions /\ reloads \in Nat
      /\ published \in Readers
  BY DEF FrameTypes
<1> DEFINE g == generation + 1
<1>2. [event |-> e, gen |-> g, session |-> session, reload |-> reloads, reader |-> published,
       stage |-> "waiting", frame |-> FALSE, wanted |-> TRUE] \in Reads
  <2> g \in Nat BY <1>1
  <2> HIDE DEF g
  <2> QED BY <1>1 DEF Reads
<1> QED BY <1>2 DEF Asked

LEMMA RequestMade ==
  ASSUME NEW e \in Events, NEW g \in Nat, NEW said \in BOOLEAN
  PROVE  /\ [event |-> e, gen |-> g, said |-> said] \in Requests
         /\ [event |-> e, gen |-> g, said |-> said] # NoRequest
  BY FrameAssumption DEF Requests

(* A paint: the request stands and the frame stays, or every read is of an  *)
(* earlier request than the one the pane has now.                           *)
LEMMA PaintKeeps ==
  ASSUME FrameInv, NEW e \in Events \cup {NoEvent}, Painted(e), target' \in Events \cup {NoEvent},
         UNCHANGED <<session, open, reloads, published, handed, threadVars, linkVars>>,
         repaint' \in BOOLEAN
  PROVE  FrameInv'
<1> USE DEF FrameInv
<1>1. UNCHANGED <<session, open, reloads, published, handed, refreshes, reader, connection,
                  frameLatched, dead>> /\ forget' = FALSE
  BY DEF threadVars, linkVars, Painted
<1>2. /\ session \in Sessions /\ reloads \in Nat /\ generation \in Nat
      /\ request \in Requests \cup {NoRequest} /\ shown \in Reads \cup {NoFrame}
      /\ workers \subseteq Reads /\ handed \in Seq(Posts)
  BY DEF FrameTypes
<1>3. \A i \in 1 .. Len(handed) : handed[i].read \in Reads
  <2>1. \A i \in 1 .. Len(handed) : handed[i] \in Posts BY <1>2, ElementOfSeq
  <2> QED BY <2>1 DEF Posts
<1>4. \A r \in Reads : r.gen \in Nat BY ReadOf
<1>5. ASSUME request' \in Requests \cup {NoRequest}, generation' \in Nat,
             shown' \in Reads \cup {NoFrame}, workers' \subseteq Reads
      PROVE  FrameTypes'
  BY <1>1, <1>5 DEF FrameTypes
<1>6. ASSUME generation' \in Nat, generation' > generation, shown' = NoFrame,
             request' \in Requests \cup {NoRequest},
             request' # NoRequest => request'.gen = generation',
             \A w \in workers' : \/ w \in workers
                                 \/ /\ w \in Reads /\ w.gen = generation'
                                    /\ request' # NoRequest /\ w.event = request'.event
                                    /\ w.session = session /\ w.reload = reloads
      PROVE  FrameInv'
  <2>1. workers' \subseteq Reads BY <1>2, <1>6
  <2>2. FrameTypes' BY <1>5, <1>6, <2>1
  <2>3. PaneCurrent' BY <1>6 DEF PaneCurrent, NoFrame
  <2>4. \A r \in Reads : IsCurrent(r) => r.gen # generation' /\ r.gen <= generation'
    BY <1>2, <1>4, <1>6 DEF IsCurrent
  <2>5. \A w \in workers' : IsCurrent(w)'
    <3> TAKE w \in workers'
    <3>1. CASE w \in workers BY <3>1, <2>4, <1>2 DEF ReadsCurrent, IsCurrent
    <3>2. CASE w \notin workers BY <3>2, <1>6, <1>1 DEF IsCurrent
    <3> QED BY <3>1, <3>2
  <2>6. \A i \in 1 .. Len(handed) : IsCurrent(handed[i].read)'
    BY <2>4, <1>1, <1>3 DEF ReadsCurrent, IsCurrent
  <2> QED BY <2>2, <2>3, <2>5, <2>6, <1>1 DEF ReadsCurrent
<1> DEFINE held == IF forget THEN NoRequest ELSE request
<1>7. CASE e = NoEvent \/ ~open \/ published = NoReader
  <2>1. Cleared BY <1>7 DEF Painted
  <2> QED BY <2>1, <1>6, <1>2 DEF Cleared
<1>8. CASE ~(e = NoEvent \/ ~open \/ published = NoReader) /\ held # NoRequest /\ held.event = e
  <2>1. ~forget /\ request' = request /\ UNCHANGED <<generation, shown, workers>>
    BY <1>8 DEF Painted
  <2>2. FrameTypes' BY <2>1, <1>2, <1>5
  <2>3. PaneCurrent' BY <2>1, <1>1 DEF PaneCurrent, IsCurrent, NoFrame
  <2>4. ReadsCurrent' BY <2>1, <1>1 DEF ReadsCurrent, IsCurrent
  <2> QED BY <2>2, <2>3, <2>4
<1>9. CASE ~(e = NoEvent \/ ~open \/ published = NoReader) /\ ~(held # NoRequest /\ held.event = e)
  <2>1. e \in Events /\ published # NoReader BY <1>9
  <2>2. CASE /\ request' = [event |-> e, gen |-> generation + 1, said |-> FALSE]
             /\ generation' = generation + 1
             /\ shown' = NoFrame
             /\ workers' = workers \cup {Asked(e)}
    <3>1. generation' \in Nat /\ generation' > generation BY <2>2, <1>2
    <3>2. request' \in Requests /\ request' # NoRequest
      BY <2>1, <2>2, <3>1, RequestMade
    <3>3. request'.gen = generation' /\ request'.event = e BY <2>2
    <3>4. \A w \in workers' : \/ w \in workers
                              \/ /\ w \in Reads /\ w.gen = generation'
                                 /\ request' # NoRequest /\ w.event = request'.event
                                 /\ w.session = session /\ w.reload = reloads
      BY <2>1, <2>2, <3>2, <3>3, AskedOne
    <3> QED BY <1>6, <3>1, <3>2, <3>3, <3>4, <2>2
  <2>3. CASE /\ request' = NoRequest
             /\ generation' = generation + 2
             /\ shown' = NoFrame
             /\ UNCHANGED workers
    BY <2>3, <1>6, <1>2
  <2> QED BY <2>2, <2>3, <1>9 DEF Painted
<1> QED BY <1>7, <1>8, <1>9

LEMMA SelectKeeps == FrameInv /\ Select => FrameInv'
<1> SUFFICES ASSUME FrameInv, Select PROVE FrameInv' OBVIOUS
<1>1. PICK e \in Events \cup {NoEvent} : target' = e /\ Painted(e) BY DEF Select
<1>2. repaint' \in BOOLEAN /\ UNCHANGED <<session, open, reloads, published, handed, threadVars,
                                          linkVars>>
  BY DEF Select, FrameInv, FrameTypes
<1> QED BY <1>1, <1>2, PaintKeeps

LEMMA RepaintKeeps == FrameInv /\ Repaint => FrameInv'
<1> SUFFICES ASSUME FrameInv, Repaint PROVE FrameInv' OBVIOUS
<1>1. /\ target \in Events \cup {NoEvent} /\ Painted(target) /\ target' = target
      /\ repaint' \in BOOLEAN
      /\ UNCHANGED <<session, open, reloads, published, handed, threadVars, linkVars>>
  BY DEF Repaint, FrameInv, FrameTypes
<1> QED BY <1>1, PaintKeeps

LEMMA ReopenKeeps == FrameInv /\ Reopen => FrameInv'
<1> SUFFICES ASSUME FrameInv, Reopen PROVE FrameInv' OBVIOUS
<1> USE DEF FrameInv
<1>0. /\ session \in Nat /\ session + 1 \in Sessions /\ generation \in Nat
      /\ workers \subseteq Reads /\ handed \in Seq(Posts)
  BY FrameAssumption DEF FrameTypes, Sessions, Reopen
<1>1. /\ session' \in Sessions /\ generation' \in Nat /\ generation' = generation + 2
      /\ request' = NoRequest /\ shown' = NoFrame
      /\ UNCHANGED <<workers, handed, reloads, repaint, refreshes, connection, frameLatched,
                     dead>>
  BY <1>0 DEF Reopen, linkVars
<1>2. reader' \in [Sessions -> ReaderPCs]
  BY <1>0 DEF Reopen, FrameTypes, ReaderPCs
<1>3. FrameTypes' BY <1>1, <1>2 DEF FrameTypes, Reopen
<1>4. \A r \in Reads : IsCurrent(r) => r.gen # generation' /\ r.gen <= generation'
  BY <1>0, <1>1, ReadOf DEF IsCurrent
<1>5. \A i \in 1 .. Len(handed) : handed[i].read \in Reads
  <2>1. \A i \in 1 .. Len(handed) : handed[i] \in Posts BY <1>0, ElementOfSeq
  <2> QED BY <2>1 DEF Posts
<1>6. ReadsCurrent' BY <1>0, <1>1, <1>4, <1>5 DEF ReadsCurrent, IsCurrent
<1>7. PaneCurrent' BY <1>1 DEF PaneCurrent, NoFrame
<1> QED BY <1>3, <1>6, <1>7

(* Steps that leave the pane, its reads and what they are asked under: the *)
(* invariant stays as its types do.                                        *)
LEMMA OthersKeep ==
  ASSUME FrameInv, FrameTypes', UNCHANGED <<session, request, generation, shown>>,
         UNCHANGED <<reloads, forget>> \/ forget',
         workers' \subseteq workers,
         \A i \in 1 .. Len(handed') :
            \E r \in workers \cup {handed[j].read : j \in 1 .. Len(handed)} :
               handed'[i].read = r
  PROVE  FrameInv'
<1>1. \A r : IsCurrent(r) => IsCurrent(r)' BY DEF IsCurrent
<1>2. PaneCurrent' BY <1>1 DEF FrameInv, PaneCurrent, NoFrame
<1>3. \A w \in workers' : IsCurrent(w)' BY <1>1 DEF FrameInv, ReadsCurrent
<1>4. \A i \in 1 .. Len(handed') : IsCurrent(handed'[i].read)
  BY DEF FrameInv, ReadsCurrent
<1>5. ReadsCurrent' BY <1>1, <1>3, <1>4 DEF ReadsCurrent, IsCurrent
<1> QED BY <1>2, <1>5 DEF FrameInv

LEMMA HandRebuildKeeps == FrameInv /\ HandRebuild => FrameInv'
<1> SUFFICES ASSUME FrameInv, HandRebuild PROVE FrameInv' OBVIOUS
<1>0. FrameTypes /\ handed \in Seq(Posts) /\ handed # <<>> BY DEF FrameInv, FrameTypes, HandRebuild
<1>1. /\ handed' \in Seq(Posts) /\ Head(handed) \in Posts
      /\ \A i \in 1 .. Len(handed') : i + 1 \in 1 .. Len(handed) /\ handed'[i] = handed[i + 1]
  BY <1>0, TailOf DEF HandRebuild
<1> DEFINE s == Head(handed).read.session
<1>2. s \in Sessions
  <2>1. Head(handed).read \in Reads BY <1>1 DEF Posts
  <2> QED BY <2>1, ReadOf
<1>3. /\ UNCHANGED <<session, target, request, generation, shown, workers, reader, connection,
                     frameLatched, dead, reloads, forget, published>>
      /\ open' \in BOOLEAN /\ repaint' \in BOOLEAN /\ refreshes' \in [Sessions -> Nat]
  <2> HIDE DEF s
  <2>1. refreshes \in [Sessions -> Nat] /\ refreshes[s] + 1 \in Nat /\ open \in BOOLEAN
        /\ repaint \in BOOLEAN
    BY <1>0, <1>2 DEF FrameTypes
  <2>2. UNCHANGED <<session, target, request, generation, shown, workers, reader, connection,
                     frameLatched, dead>>
    BY DEF HandRebuild, loopVars, linkVars
  <2>3. \/ UNCHANGED <<refreshes, stateVars>>
        \/ refreshes' = [refreshes EXCEPT ![s] = @ + 1] /\ UNCHANGED stateVars
        \/ /\ open' = FALSE /\ repaint' = TRUE
           /\ UNCHANGED <<refreshes, reloads, forget, published>>
    BY DEF HandRebuild, s
  <2> QED BY <2>1, <2>2, <2>3 DEF stateVars
<1>4. FrameTypes' BY <1>0, <1>1, <1>3 DEF FrameTypes
<1> QED BY <1>1, <1>3, <1>4, OthersKeep

LEMMA PaintReadKeeps == FrameInv /\ PaintRead => FrameInv'
<1> SUFFICES ASSUME FrameInv, PaintRead PROVE FrameInv' OBVIOUS
<1>0. FrameTypes /\ handed \in Seq(Posts) /\ handed # <<>> BY DEF FrameInv, FrameTypes, PaintRead
<1>1. /\ handed' \in Seq(Posts) /\ Head(handed) \in Posts
      /\ Head(handed) = handed[1] /\ 1 \in 1 .. Len(handed)
      /\ \A i \in 1 .. Len(handed') : i + 1 \in 1 .. Len(handed) /\ handed'[i] = handed[i + 1]
  BY <1>0, TailOf DEF PaintRead
<1> DEFINE brought == Head(handed).read
<1>2. brought \in Reads /\ IsCurrent(brought) BY <1>1 DEF Posts, FrameInv, ReadsCurrent
<1> HIDE DEF brought
<1>3. UNCHANGED <<session, target, generation, open, reloads, forget, repaint, published, workers,
                  refreshes, reader, connection, frameLatched, dead>>
  BY DEF PaintRead, stateVars, threadVars, linkVars
<1>4. CASE ~Wanted(brought)
  <2>1. UNCHANGED <<request, shown>> BY <1>4 DEF PaintRead, brought
  <2>2. FrameTypes' BY <2>1, <1>0, <1>1, <1>3 DEF FrameTypes
  <2> QED BY <2>1, <2>2, <1>1, <1>3, OthersKeep
<1>5. CASE Wanted(brought)
  <2>1. brought.gen = generation /\ request # NoRequest BY <1>5, <1>2 DEF Wanted, IsCurrent
  <2>2. /\ request' = [request EXCEPT !.said = TRUE]
        /\ shown' = IF brought.frame THEN brought ELSE NoFrame
    BY <1>5, <2>1 DEF PaintRead, brought
  <2>3. request \in Requests BY <2>1, <1>0 DEF FrameTypes
  <2>4. /\ request' \in Requests /\ request' # NoRequest
        /\ request'.event = request.event /\ request'.gen = request.gen /\ request'.said
    BY <2>2, <2>3, FrameAssumption DEF Requests
  <2>5. shown' \in Reads \cup {NoFrame} BY <2>2, <1>2
  <2>6. FrameTypes' BY <2>4, <2>5, <1>0, <1>1, <1>3 DEF FrameTypes
  <2>7. \A r : IsCurrent(r) => IsCurrent(r)' BY <2>1, <2>4, <1>3 DEF IsCurrent
  <2>8. shown' = NoFrame \/ (IsCurrent(shown)' /\ shown'.gen = generation')
    BY <2>2, <2>1, <2>4, <1>2, <1>3 DEF IsCurrent
  <2>9. request'.gen = generation' BY <2>1, <2>4, <1>3 DEF FrameInv, PaneCurrent
  <2>10. PaneCurrent' BY <2>4, <2>8, <2>9 DEF PaneCurrent, NoFrame
  <2>11. \A w \in workers' : IsCurrent(w)' BY <2>7, <1>3 DEF FrameInv, ReadsCurrent
  <2>12. \A i \in 1 .. Len(handed') : IsCurrent(handed'[i].read)
    BY <1>1 DEF FrameInv, ReadsCurrent
  <2>13. ReadsCurrent' BY <2>7, <2>11, <2>12 DEF ReadsCurrent, IsCurrent
  <2> QED BY <2>6, <2>10, <2>13 DEF FrameInv
<1> QED BY <1>4, <1>5

(* A read that goes on is still the read it was.                           *)
LEMMA GoesOnAs ==
  ASSUME FrameInv, NEW w \in workers, NEW next \in Reads,
         next.gen = w.gen, next.event = w.event, next.session = w.session, next.reload = w.reload,
         Becomes(w, next), FrameTypes',
         UNCHANGED <<session, request, generation, shown, reloads, forget, handed>>
  PROVE  FrameInv'
<1>1. \A r : IsCurrent(r) => IsCurrent(r)' BY DEF IsCurrent
<1>2. PaneCurrent' BY <1>1 DEF FrameInv, PaneCurrent, NoFrame
<1>3. IsCurrent(next)' BY DEF FrameInv, ReadsCurrent, IsCurrent
<1>4. \A r \in workers' : IsCurrent(r)'
  BY <1>1, <1>3 DEF FrameInv, ReadsCurrent, Becomes
<1>5. ReadsCurrent' BY <1>1, <1>4 DEF FrameInv, ReadsCurrent
<1> QED BY <1>2, <1>5 DEF FrameInv

LEMMA TakeSlotKeeps == ASSUME FrameInv, NEW w \in workers, TakeSlot(w) PROVE FrameInv'
<1>0. FrameTypes /\ w \in Reads BY DEF FrameInv, FrameTypes
<1>1. UNCHANGED <<session, target, request, generation, shown, open, reloads, forget, repaint,
                  published, handed, refreshes, reader, connection, frameLatched, dead>>
  BY DEF TakeSlot, loopVars, stateVars, threadVars, linkVars
<1>2. CASE Wanted(w)
  <2> DEFINE next == [w EXCEPT !.stage = "reading"]
  <2>1. next \in Reads BY <1>0 DEF Reads
  <2>2. /\ next.gen = w.gen /\ next.event = w.event /\ next.session = w.session
        /\ next.reload = w.reload
    BY <1>0 DEF Reads
  <2>3. Becomes(w, next) BY <1>2 DEF TakeSlot
  <2> HIDE DEF next
  <2>4. FrameTypes' BY <1>0, <1>1, <2>1, <2>3 DEF FrameTypes, Becomes
  <2> QED BY <1>1, <2>1, <2>2, <2>3, <2>4, GoesOnAs
<1>3. CASE ~Wanted(w)
  <2>1. workers' = workers \ {w} BY <1>3 DEF TakeSlot
  <2>2. FrameTypes' BY <1>0, <1>1, <2>1 DEF FrameTypes
  <2> QED BY <1>1, <2>1, <2>2, OthersKeep
<1> QED BY <1>2, <1>3

LEMMA ReadKeeps == ASSUME FrameInv, NEW w \in workers, Read(w) PROVE FrameInv'
<1>0. FrameTypes /\ w \in Reads BY DEF FrameInv, FrameTypes
<1>1. UNCHANGED <<session, target, request, generation, shown, open, reloads, forget, repaint,
                  published, handed, refreshes, reader>>
  BY DEF Read, loopVars, stateVars, threadVars
<1> DEFINE Done(frame) == [w EXCEPT !.stage = "done", !.frame = frame, !.wanted = Wanted(w)]
<1>2. PICK found : \/ Becomes(w, Done(FALSE)) /\ UNCHANGED linkVars
                   \/ Becomes(w, Done(found = "frame")) /\ UNCHANGED linkVars
                   \/ /\ Becomes(w, Done(FALSE)) /\ w.reader \in Connections
                      /\ dead' = dead \cup {w.reader}
                      /\ frameLatched' = [frameLatched EXCEPT ![w.session] = TRUE]
                      /\ UNCHANGED connection
  <2>1. w.reader \in Connections \cup {Offline, Unavailable}
    BY <1>0, ReadOf DEF Readers
  <2> QED BY <2>1 DEF Read
<1>3. \A frame \in BOOLEAN : /\ Done(frame) \in Reads
                             /\ Done(frame).gen = w.gen /\ Done(frame).event = w.event
                             /\ Done(frame).session = w.session /\ Done(frame).reload = w.reload
  <2> DEFINE Ending(frame, wanted) ==
        [w EXCEPT !.stage = "done", !.frame = frame, !.wanted = wanted]
  <2>1. Wanted(w) \in BOOLEAN BY DEF Wanted
  <2>2. \A frame, wanted \in BOOLEAN :
           /\ Ending(frame, wanted) \in Reads
           /\ Ending(frame, wanted).gen = w.gen /\ Ending(frame, wanted).event = w.event
           /\ Ending(frame, wanted).session = w.session /\ Ending(frame, wanted).reload = w.reload
    BY <1>0 DEF Reads
  <2>3. \A frame \in BOOLEAN : Done(frame) = Ending(frame, Wanted(w)) OBVIOUS
  <2> HIDE DEF Ending, Done
  <2> QED BY <2>1, <2>2, <2>3
<1> HIDE DEF Done
<1>4. PICK frame \in BOOLEAN : Becomes(w, Done(frame)) BY <1>2
<1>5. /\ connection' = connection /\ frameLatched' \in [Sessions -> BOOLEAN]
      /\ dead' \subseteq Connections
  BY <1>0, <1>2 DEF linkVars, FrameTypes
<1>6. FrameTypes' BY <1>0, <1>1, <1>3, <1>4, <1>5 DEF FrameTypes, Becomes
<1> QED BY <1>1, <1>3, <1>4, <1>6, GoesOnAs

LEMMA FinishReadKeeps == ASSUME FrameInv, NEW w \in workers, FinishRead(w) PROVE FrameInv'
<1>0. FrameTypes /\ w \in Reads /\ handed \in Seq(Posts) BY DEF FrameInv, FrameTypes
<1>1. UNCHANGED <<session, target, request, generation, shown, open, reloads, forget, repaint,
                  published, refreshes, reader, connection, frameLatched, dead>>
  BY DEF FinishRead, loopVars, stateVars, threadVars, linkVars
<1> DEFINE one == IF NeedsRebuild(w) THEN <<[what |-> "rebuild", read |-> w]>> ELSE <<>>
           two == IF w.wanted THEN <<[what |-> "result", read |-> w]>> ELSE <<>>
<1>2. /\ one \in Seq(Posts) /\ \A i \in 1 .. Len(one) : one[i].read = w
      /\ two \in Seq(Posts) /\ \A i \in 1 .. Len(two) : two[i].read = w
  <2>1. [what |-> "rebuild", read |-> w] \in Posts /\ [what |-> "result", read |-> w] \in Posts
    BY <1>0 DEF Posts
  <2> QED BY <2>1
<1>3. handed' = (handed \o one) \o two /\ workers' = workers \ {w}
  BY DEF FinishRead
<1> HIDE DEF one, two
<1>4. handed \o one \in Seq(Posts) /\ handed' \in Seq(Posts)
  BY <1>0, <1>2, <1>3, ConcatProperties
<1>5. \A i \in 1 .. Len(handed \o one) :
        \/ i \in 1 .. Len(handed) /\ (handed \o one)[i] = handed[i]
        \/ i - Len(handed) \in 1 .. Len(one) /\ (handed \o one)[i] = one[i - Len(handed)]
  BY <1>0, <1>2, ConcatProperties, LenProperties
<1>6. \A i \in 1 .. Len(handed') :
        \/ i \in 1 .. Len(handed \o one) /\ handed'[i] = (handed \o one)[i]
        \/ i - Len(handed \o one) \in 1 .. Len(two) /\ handed'[i] = two[i - Len(handed \o one)]
  BY <1>2, <1>3, <1>4, ConcatProperties, LenProperties
<1>7. \A i \in 1 .. Len(handed') :
        handed'[i].read = w \/ \E j \in 1 .. Len(handed) : handed'[i].read = handed[j].read
  BY <1>2, <1>5, <1>6
<1>8. FrameTypes' BY <1>0, <1>1, <1>3, <1>4 DEF FrameTypes
<1>9. \A i \in 1 .. Len(handed') :
        \E r \in workers \cup {handed[j].read : j \in 1 .. Len(handed)} : handed'[i].read = r
  BY <1>7
<1> QED BY <1>1, <1>3, <1>8, <1>9, OthersKeep

(* The reader thread leaves the pane and its reads alone; a reload hands   *)
(* over that the frame is to be forgotten.                                 *)
LEMMA ReaderKeeps == ASSUME FrameInv, NEW s \in Sessions, ReaderThread(s) PROVE FrameInv'
<1>0. FrameTypes BY DEF FrameInv
<1>1. UNCHANGED <<session, request, generation, shown, workers, handed>>
  BY DEF ReaderThread, Refreshing, Open, Reload, RowsLand, TakeRefresh, Reconnect, ReconnectLost,
     PublishReader, Publishes, Panic, loopVars, threadVars
<1>2. UNCHANGED <<reloads, forget>> \/ forget'
  BY DEF ReaderThread, Refreshing, Open, Reload, RowsLand, TakeRefresh, Reconnect, ReconnectLost,
     PublishReader, Publishes, Panic, stateVars
<1>3. <<s, 1>> \in Readers /\ <<s, connection[s]>> \in Readers /\ Offline \in Readers
      /\ Unavailable \in Readers
  BY <1>0, FrameAssumption DEF Readers, Connections, FrameTypes
<1>4. \A to \in ReaderPCs : Goes(s, to) => reader' \in [Sessions -> ReaderPCs]
  BY <1>0 DEF FrameTypes, Goes
<1>5. FrameTypes'
  <2> USE <1>0, <1>1 DEF FrameTypes
  <2>1. CASE Open(s)
    BY <2>1, <1>3, <1>4 DEF Open, loopVars, linkVars, ReaderPCs
  <2>2. CASE Reload(s)
    BY <2>2 DEF Reload, threadVars, linkVars
  <2>3. CASE RowsLand(s)
    BY <2>3 DEF RowsLand, threadVars, linkVars
  <2>4. CASE TakeRefresh(s)
    <3>1. refreshes[s] \in Nat /\ refreshes[s] > 0 BY <2>4 DEF TakeRefresh
    <3>2. refreshes[s] - 1 \in Nat BY <3>1
    <3>3. refreshes' \in [Sessions -> Nat] BY <2>4, <3>2 DEF TakeRefresh
    <3>4. reader' \in [Sessions -> ReaderPCs] BY <2>4, <1>4 DEF TakeRefresh, ReaderPCs
    <3> QED BY <2>4, <3>3, <3>4 DEF TakeRefresh, loopVars, stateVars, linkVars
  <2>5. CASE Reconnect(s)
    <3>1. connection[s] + 1 \in 1 .. MaxConnection BY <2>5, FrameAssumption DEF Reconnect
    <3>2. connection' \in [Sessions -> 1 .. MaxConnection] BY <2>5, <3>1 DEF Reconnect
    <3>3. reader' \in [Sessions -> ReaderPCs] BY <2>5, <1>4 DEF Reconnect, ReaderPCs
    <3>4. frameLatched' \in [Sessions -> BOOLEAN] BY <2>5 DEF Reconnect
    <3> QED BY <2>5, <3>2, <3>3, <3>4 DEF Reconnect, loopVars, stateVars
  <2>6. ASSUME NEW made \in Readers, Publishes(s, made) PROVE FrameTypes'
    BY <2>6, <1>4 DEF Publishes, loopVars, linkVars, ReaderPCs
  <2>7. CASE Panic(s)
    BY <2>7, <1>4 DEF Panic, loopVars, linkVars, ReaderPCs
  <2> QED BY <2>1, <2>2, <2>3, <2>4, <2>5, <2>6, <2>7, <1>3
      DEF ReaderThread, Refreshing, ReconnectLost, PublishReader
<1> QED BY <1>1, <1>2, <1>5, OthersKeep

LEMMA FrameStep == FrameInv /\ [FrameNext]_frameVars => FrameInv'
<1> SUFFICES ASSUME FrameInv, [FrameNext]_frameVars PROVE FrameInv' OBVIOUS
<1>1. CASE Loop
  BY <1>1, SelectKeeps, RepaintKeeps, ReopenKeeps, HandRebuildKeeps, PaintReadKeeps DEF Loop
<1>2. CASE \E w \in workers : Worker(w)
  BY <1>2, TakeSlotKeeps, ReadKeeps, FinishReadKeeps DEF Worker
<1>3. CASE \E s \in Sessions : ReaderThread(s)
  BY <1>3, ReaderKeeps
<1>4. CASE UNCHANGED frameVars
  <2>1. FrameTypes' BY <1>4 DEF FrameInv, FrameTypes, frameVars, loopVars, stateVars, threadVars, linkVars
  <2> QED BY <1>4, <2>1, OthersKeep DEF frameVars, loopVars, stateVars, threadVars, linkVars
<1> QED BY <1>1, <1>2, <1>3, <1>4 DEF FrameNext

LEMMA FrameInvHolds == FrameSpec => []FrameInv
<1> QED BY FrameStarts, FrameStep, PTL DEF FrameSpec

\* The frame on the pane is the one its request is for, however slow its
\* read was (PaneShowsItsRequest), with any number of events, sessions,
\* reloads and reads in flight.
THEOREM FrameIsOfItsRequest == FrameSpec => []PaneShowsItsRequest
<1>1. FrameInv => PaneShowsItsRequest
  BY DEF FrameInv, PaneCurrent, IsCurrent, PaneShowsItsRequest
<1> QED BY <1>1, FrameInvHolds, PTL

-----------------------------------------------------------------------------
(* The launcher.  What carries the proof is the order of the handed-over   *)
(* words: the last word of a request is the youngest of its kind, and      *)
(* whatever is still to be taken of a kind keeps that kind's flag up.      *)

PressKinds == {"start", "stop", "unlock"}

(* What the threads hand over: an unlock only its last word; a line that    *)
(* says a request is under way only from that request, and not as its last. *)
Jobs ==
    {job \in [from : PressKinds, status : {"keep", "up", "down"},
              line : {"keep", "said", "starting", "stopping"},
              offer : BOOLEAN, last : BOOLEAN] :
        /\ job.line = "starting" => job.from = "start" /\ ~job.last
        /\ job.line = "stopping" => job.from = "stop" /\ ~job.last
        /\ job.from \in {"start", "stop"} /\ job.last => job.line = "said"
        /\ job.from = "unlock" => job.last}

Speaks(q, from) == \E i \in 1 .. Len(q) : q[i].from = from
Ends(q, from) == \E i \in 1 .. Len(q) : q[i].from = from /\ q[i].last
LastIsLast(q) == \A i, j \in 1 .. Len(q) : q[i].last /\ q[j].from = q[i].from => j <= i

Threads(ats) == [at : ats, attempt : Nat, ran : BOOLEAN]

StartSteps == {"idle", "probe", "launch", "wait", "ask", "record"}
StopSteps == {"idle", "press", "ask", "probe"}
Starters == Threads(StartSteps)
Stoppers == Threads(StopSteps)
Unlockers == Threads({"idle", "run"})
Runtimes == [is : {"up", "down", "stopping"}, owner : {"clear", "unconfirmed"}, turns : Nat]
Flags == [starting : BOOLEAN, shuttingDown : BOOLEAN, unlocking : BOOLEAN]
Views ==
    [status : {"checking", "up", "down", "failed"}, newest : {"live", "start", "stop"},
     silent : BOOLEAN, line : {"said", "checking", "starting", "stopping"},
     offered : BOOLEAN, confirming : BOOLEAN]
Windows == [is : {"open", "fading", "closed"}, refused : BOOLEAN]

LauncherTypes ==
    /\ starter \in Starters /\ stopper \in Stoppers /\ unlocker \in Unlockers
    /\ flags \in Flags
    /\ daemon \in Runtimes
    /\ view \in Views
    /\ window \in Windows
    /\ posts \in Seq(Jobs)

\* One kind of request: its flag is up while its thread or its last word is out, never both.
Request(flag, thread, q, from) ==
    /\ flag = (thread.at # "idle" \/ Ends(q, from))
    /\ thread.at # "idle" => ~Ends(q, from)
    /\ Speaks(q, from) => flag

RequestsOf(up, q) ==
    /\ Request(up.starting, starter, q, "start")
    /\ Request(up.shuttingDown, stopper, q, "stop")
    /\ Request(up.unlocking, unlocker, q, "unlock")

Standing == RequestsOf(flags, posts)

Apart ==
    /\ ~(flags.starting /\ flags.unlocking)
    /\ view.offered => ~flags.unlocking /\ ~flags.starting
    /\ window.is = "closed" => ~flags.unlocking

LauncherInv == LauncherTypes /\ LastIsLast(posts) /\ Standing /\ Apart /\ LineEndsWithItsRequest

-----------------------------------------------------------------------------
(* A word joins the queue behind the others.                               *)
LEMMA Joins ==
  ASSUME NEW q \in Seq(Jobs), LastIsLast(q), NEW job \in Jobs, ~Ends(q, job.from)
  PROVE  /\ Append(q, job) \in Seq(Jobs)
         /\ LastIsLast(Append(q, job))
         /\ \A from \in PressKinds :
               /\ Speaks(Append(q, job), from) <=> Speaks(q, from) \/ from = job.from
               /\ Ends(Append(q, job), from) <=> Ends(q, from) \/ (from = job.from /\ job.last)
<1> DEFINE r == Append(q, job)
<1>1. /\ r \in Seq(Jobs) /\ Len(r) = Len(q) + 1 /\ Len(q) \in Nat
      /\ \A i \in 1 .. Len(q) : r[i] = q[i]
      /\ r[Len(q) + 1] = job
  OBVIOUS
<1> HIDE DEF r
<1>2. \A i \in 1 .. Len(r) : i \in 1 .. Len(q) \/ i = Len(q) + 1
  BY <1>1
<1>3. LastIsLast(r)
  BY <1>1, <1>2 DEF LastIsLast, Ends
<1>4. ASSUME NEW from \in PressKinds
      PROVE  /\ Speaks(r, from) <=> Speaks(q, from) \/ from = job.from
             /\ Ends(r, from) <=> Ends(q, from) \/ (from = job.from /\ job.last)
  <2>1. 1 .. Len(q) \subseteq 1 .. Len(r) /\ Len(q) + 1 \in 1 .. Len(r)
    BY <1>1
  <2>2. QED
    BY <1>1, <1>2, <2>1 DEF Speaks, Ends
<1>5. QED
  BY <1>1, <1>3, <1>4 DEF r

(* The oldest word is taken; after a last word nothing of its kind is left. *)
LEMMA Leaves ==
  ASSUME NEW q \in Seq(Jobs), q # <<>>, LastIsLast(q)
  PROVE  /\ Head(q) \in Jobs /\ Tail(q) \in Seq(Jobs)
         /\ LastIsLast(Tail(q))
         /\ Speaks(q, Head(q).from)
         /\ Head(q).last => Ends(q, Head(q).from) /\ ~Speaks(Tail(q), Head(q).from)
         /\ \A from \in PressKinds :
               /\ Speaks(Tail(q), from) => Speaks(q, from)
               /\ Ends(Tail(q), from) => Ends(q, from)
               /\ Ends(q, from) => Ends(Tail(q), from) \/ (Head(q).from = from /\ Head(q).last)
<1> DEFINE r == Tail(q)
<1>1. /\ Head(q) \in Jobs /\ Head(q) = q[1] /\ r \in Seq(Jobs)
      /\ Len(q) \in Nat \ {0} /\ Len(r) = Len(q) - 1
      /\ \A i \in 1 .. Len(r) : r[i] = q[i + 1] /\ i + 1 \in 1 .. Len(q)
  BY HeadTailProperties
<1> HIDE DEF r
<1>2. LastIsLast(r)
  <2> SUFFICES ASSUME NEW i \in 1 .. Len(r), NEW j \in 1 .. Len(r), r[i].last, r[j].from = r[i].from
               PROVE  j <= i
    BY DEF LastIsLast
  <2>1. q[i + 1].last /\ q[j + 1].from = q[i + 1].from
    BY <1>1
  <2>2. j + 1 <= i + 1
    BY <1>1, <2>1 DEF LastIsLast
  <2>3. QED
    BY <2>2
<1>3. Speaks(q, Head(q).from) /\ (Head(q).last => Ends(q, Head(q).from))
  BY <1>1 DEF Speaks, Ends
<1>4. Head(q).last => ~Speaks(r, Head(q).from)
  <2> SUFFICES ASSUME q[1].last, NEW i \in 1 .. Len(r), r[i].from = q[1].from
               PROVE  FALSE
    BY <1>1 DEF Speaks
  <2>1. i + 1 <= 1
    BY <1>1 DEF LastIsLast
  <2>2. QED
    BY <2>1
<1>5. ASSUME NEW from \in PressKinds
      PROVE  /\ Speaks(r, from) => Speaks(q, from)
             /\ Ends(r, from) => Ends(q, from)
             /\ Ends(q, from) => Ends(r, from) \/ (Head(q).from = from /\ Head(q).last)
  <2>1. (Speaks(r, from) => Speaks(q, from)) /\ (Ends(r, from) => Ends(q, from))
    BY <1>1 DEF Speaks, Ends
  <2>2. ASSUME NEW i \in 1 .. Len(q), q[i].from = from, q[i].last
        PROVE  Ends(r, from) \/ (Head(q).from = from /\ Head(q).last)
    <3>1. CASE i = 1
      BY <1>1, <2>2, <3>1
    <3>2. CASE i # 1
      <4>1. i - 1 \in 1 .. Len(r) /\ r[i - 1] = q[i]
        BY <1>1, <3>2
      <4>2. QED
        BY <2>2, <4>1 DEF Ends
    <3>3. QED
      BY <3>1, <3>2
  <2>3. QED
    BY <2>1, <2>2 DEF Ends
<1>6. QED
  BY <1>1, <1>2, <1>3, <1>4, <1>5 DEF r

-----------------------------------------------------------------------------
(* What a thread does: it hands over a word, its last one as it ends, or    *)
(* goes on without one.                                                     *)
LEMMA StartPosts ==
  ASSUME LauncherInv, starter.at # "idle", starter' \in Starters, daemon' \in Runtimes,
         NEW job \in Jobs, job.from = "start", posts' = Append(posts, job),
         starter'.at = "idle" <=> job.last,
         UNCHANGED <<stopper, unlocker, flags, view, window>>
  PROVE  LauncherInv'
<1> USE DEF LauncherInv
<1>1. posts \in Seq(Jobs) /\ ~Ends(posts, job.from)
  BY DEF LauncherTypes, Standing, RequestsOf, Request
<1>2. /\ posts' \in Seq(Jobs) /\ LastIsLast(posts')
      /\ \A from \in PressKinds :
           /\ Speaks(posts', from) <=> Speaks(posts, from) \/ from = "start"
           /\ Ends(posts', from) <=> Ends(posts, from) \/ (from = "start" /\ job.last)
  BY <1>1, Joins
<1>3. Standing'
  BY <1>2 DEF Standing, RequestsOf, Request, PressKinds
<1>4. LauncherTypes' /\ Apart' /\ LineEndsWithItsRequest'
  BY <1>2 DEF LauncherTypes, Apart, LineEndsWithItsRequest
<1>5. QED
  BY <1>2, <1>3, <1>4

LEMMA StopPosts ==
  ASSUME LauncherInv, stopper.at # "idle", stopper' \in Stoppers, daemon' \in Runtimes,
         NEW job \in Jobs, job.from = "stop", posts' = Append(posts, job),
         stopper'.at = "idle" <=> job.last,
         UNCHANGED <<starter, unlocker, flags, view, window>>
  PROVE  LauncherInv'
<1> USE DEF LauncherInv
<1>1. posts \in Seq(Jobs) /\ ~Ends(posts, job.from)
  BY DEF LauncherTypes, Standing, RequestsOf, Request
<1>2. /\ posts' \in Seq(Jobs) /\ LastIsLast(posts')
      /\ \A from \in PressKinds :
           /\ Speaks(posts', from) <=> Speaks(posts, from) \/ from = "stop"
           /\ Ends(posts', from) <=> Ends(posts, from) \/ (from = "stop" /\ job.last)
  BY <1>1, Joins
<1>3. Standing'
  BY <1>2 DEF Standing, RequestsOf, Request, PressKinds
<1>4. LauncherTypes' /\ Apart' /\ LineEndsWithItsRequest'
  BY <1>2 DEF LauncherTypes, Apart, LineEndsWithItsRequest
<1>5. QED
  BY <1>2, <1>3, <1>4

LEMMA UnlockPosts ==
  ASSUME LauncherInv, unlocker.at # "idle", unlocker' = Idle, daemon' \in Runtimes,
         NEW job \in Jobs, job.from = "unlock", job.last, posts' = Append(posts, job),
         UNCHANGED <<starter, stopper, flags, view, window>>
  PROVE  LauncherInv'
<1> USE DEF LauncherInv
<1>1. posts \in Seq(Jobs) /\ ~Ends(posts, job.from)
  BY DEF LauncherTypes, Standing, RequestsOf, Request
<1>2. /\ posts' \in Seq(Jobs) /\ LastIsLast(posts')
      /\ \A from \in PressKinds :
           /\ Speaks(posts', from) <=> Speaks(posts, from) \/ from = "unlock"
           /\ Ends(posts', from) <=> Ends(posts, from) \/ from = "unlock"
  BY <1>1, Joins
<1>3. Idle \in Unlockers /\ Idle.at = "idle"
  BY DEF Idle, Unlockers, Threads
<1>4. Standing'
  BY <1>2, <1>3 DEF Standing, RequestsOf, Request, PressKinds
<1>5. LauncherTypes' /\ Apart' /\ LineEndsWithItsRequest'
  BY <1>2, <1>3 DEF LauncherTypes, Apart, LineEndsWithItsRequest
<1>6. QED
  BY <1>2, <1>4, <1>5

LEMMA GoesOn ==
  ASSUME LauncherInv, starter' \in Starters, stopper' \in Stoppers, daemon' \in Runtimes,
         starter'.at = "idle" <=> starter.at = "idle", stopper'.at = "idle" <=> stopper.at = "idle",
         UNCHANGED <<unlocker, flags, posts, view, window>>
  PROVE  LauncherInv'
  BY DEF LauncherInv, LauncherTypes, Standing, RequestsOf, Request, Apart, LineEndsWithItsRequest, LastIsLast, Speaks, Ends

-----------------------------------------------------------------------------
(* The threads' steps.                                                     *)
LEMMA Handed ==
  /\ \A status \in {"keep", "up", "down"}, line \in {"keep", "said", "starting"} :
        [Job("start") EXCEPT !.status = status, !.line = line] \in Jobs
  /\ [Job("start") EXCEPT !.line = "starting"] \in Jobs
  /\ [Job("stop") EXCEPT !.line = "stopping"] \in Jobs
  /\ \A from \in {"start", "stop"}, status \in {"keep", "up", "down"}, offer \in BOOLEAN :
        LastWord(from, status, "said", offer) \in Jobs
  /\ \A offer \in BOOLEAN : LastWord("unlock", "keep", "keep", offer) \in Jobs
  BY DEF Job, LastWord, Jobs, PressKinds

LEMMA Answers == Reachable \in {"up", "down"}
  BY DEF Reachable

LEMMA Finishes ==
  ASSUME LauncherInv, starter.at # "idle", NEW status \in {"keep", "up", "down"}, NEW offer \in BOOLEAN,
         Finish(status, "said", offer), UNCHANGED <<daemon, stopper, unlocker, flags, view, window>>
  PROVE  LauncherInv'
<1> DEFINE job == LastWord("start", status, "said", offer)
<1>1. job \in Jobs /\ job.from = "start" /\ job.last
  BY Handed DEF LastWord
<1>2. posts' = Append(posts, job) /\ starter' = Idle
  BY DEF Finish, Post
<1>3. Idle \in Starters /\ Idle.at = "idle"
  BY DEF Idle, Starters, Threads, StartSteps
<1>4. daemon' \in Runtimes
  BY DEF LauncherInv, LauncherTypes
<1> HIDE DEF job
<1>5. QED
  BY <1>1, <1>2, <1>3, <1>4, StartPosts

LEMMA StartWorkInv == LauncherInv /\ StartWork => LauncherInv'
<1> SUFFICES ASSUME LauncherInv, StartWork PROVE LauncherInv'
  OBVIOUS
<1>1. /\ starter \in Starters /\ stopper \in Stoppers /\ daemon \in Runtimes
      /\ UNCHANGED <<daemon, stopper, unlocker, flags, view, window>>
  BY DEF LauncherInv, LauncherTypes, StartWork, ProbeFirst, Launch, WaitChild, AskReady, RecordStart
<1>2. CASE ProbeFirst
  <2> DEFINE job == [Job("start") EXCEPT !.status = Reachable,
                                         !.line = IF Reachable = "up" THEN "said" ELSE "keep"]
  <2>1. job \in Jobs /\ job.from = "start" /\ ~job.last
    BY Handed, Answers DEF Job
  <2>2. starter' \in Starters /\ starter.at # "idle" /\ starter'.at # "idle" /\ posts' = Append(posts, job)
    BY <1>1, <1>2 DEF ProbeFirst, Starters, Threads, StartSteps, Post
  <2> HIDE DEF job
  <2>3. QED
    BY <1>1, <2>1, <2>2, StartPosts
<1>3. CASE Launch
  <2>1. starter.at # "idle"
    BY <1>3 DEF Launch
  <2>2. CASE Finish("keep", "said", FALSE)
    BY <1>1, <2>1, <2>2, Finishes
  <2>3. CASE starter' = [starter EXCEPT !.at = "wait", !.ran = TRUE] /\ Post([Job("start") EXCEPT !.line = "starting"])
    <3> DEFINE job == [Job("start") EXCEPT !.line = "starting"]
    <3>1. job \in Jobs /\ job.from = "start" /\ ~job.last
      BY Handed DEF Job
    <3>2. starter' \in Starters /\ starter'.at # "idle" /\ posts' = Append(posts, job)
      BY <1>1, <2>3 DEF Starters, Threads, StartSteps, Post
    <3> HIDE DEF job
    <3>3. QED
      BY <1>1, <2>1, <3>1, <3>2, StartPosts
  <2>4. QED
    BY <1>3, <2>2, <2>3 DEF Launch
<1>4. CASE WaitChild
  <2>1. starter.at # "idle"
    BY <1>4 DEF WaitChild
  <2>2. CASE \E offer \in BOOLEAN : Finish("keep", "said", offer)
    BY <1>1, <2>1, <2>2, Finishes
  <2>3. CASE starter' = [starter EXCEPT !.at = "ask"] /\ UNCHANGED posts
    <3>1. starter' \in Starters /\ starter'.at # "idle"
      BY <1>1, <2>3 DEF Starters, Threads, StartSteps
    <3>2. QED
      BY <1>1, <2>1, <2>3, <3>1, GoesOn
  <2>4. QED
    BY <1>4, <2>2, <2>3 DEF WaitChild
<1>5. CASE AskReady
  <2>1. starter.at # "idle"
    BY <1>5 DEF AskReady
  <2>2. CASE Finish("keep", "said", FALSE)
    BY <1>1, <2>1, <2>2, Finishes
  <2>3. CASE starter' = [starter EXCEPT !.at = "record"] /\ UNCHANGED posts
    <3>1. starter' \in Starters /\ starter'.at # "idle"
      BY <1>1, <2>3 DEF Starters, Threads, StartSteps
    <3>2. QED
      BY <1>1, <2>1, <2>3, <3>1, GoesOn
  <2>4. CASE starter' = [starter EXCEPT !.at = "wait", !.attempt = @ + 1] /\ Post([Job("start") EXCEPT !.line = "starting"])
    <3> DEFINE job == [Job("start") EXCEPT !.line = "starting"]
    <3>1. job \in Jobs /\ job.from = "start" /\ ~job.last
      BY Handed DEF Job
    <3>2. starter' \in Starters /\ starter'.at # "idle" /\ posts' = Append(posts, job)
      <4>1. starter.attempt + 1 \in Nat
        BY <1>1 DEF Starters, Threads, StartSteps
      <4>2. "wait" \in StartSteps
        BY DEF StartSteps
      <4>3. [starter EXCEPT !.at = "wait", !.attempt = starter.attempt + 1] \in Starters
        BY <1>1, <4>1, <4>2 DEF Starters, Threads
      <4>4. [starter EXCEPT !.at = "wait", !.attempt = starter.attempt + 1].at = "wait"
        BY <1>1 DEF Starters, Threads
      <4>5. QED
        BY <2>4, <4>3, <4>4 DEF Post
    <3> HIDE DEF job
    <3>3. QED
      BY <1>1, <2>1, <3>1, <3>2, StartPosts
  <2>5. QED
    BY <1>5, <2>2, <2>3, <2>4 DEF AskReady
<1>6. CASE RecordStart
  <2>1. starter.at # "idle"
    BY <1>6 DEF RecordStart
  <2>2. \E status \in {"keep", "up", "down"} : Finish(status, "said", FALSE)
    BY <1>6 DEF RecordStart
  <2>3. QED
    BY <1>1, <2>1, <2>2, Finishes
<1>7. QED
  BY <1>2, <1>3, <1>4, <1>5, <1>6 DEF StartWork

LEMMA StopWorkInv == LauncherInv /\ StopWork => LauncherInv'
<1> SUFFICES ASSUME LauncherInv, StopWork PROVE LauncherInv'
  OBVIOUS
<1>1. /\ starter \in Starters /\ stopper \in Stoppers /\ daemon \in Runtimes
      /\ UNCHANGED <<starter, unlocker, flags, view, window>>
      /\ stopper.at # "idle"
  BY DEF LauncherInv, LauncherTypes, StopWork, RecordStop, AskStop, ProbeLast
<1>2. CASE RecordStop
  <2>1. stopper' \in Stoppers /\ stopper'.at # "idle" /\ UNCHANGED <<daemon, posts>>
    <3>1. CASE stopper' = [stopper EXCEPT !.at = "ask", !.attempt = 1]
      <4>1. "ask" \in StopSteps /\ 1 \in Nat
        BY DEF StopSteps
      <4>2. [stopper EXCEPT !.at = "ask", !.attempt = 1] \in Stoppers
        BY <1>1, <4>1 DEF Stoppers, Threads
      <4>3. [stopper EXCEPT !.at = "ask", !.attempt = 1].at = "ask"
        BY <1>1 DEF Stoppers, Threads
      <4>4. QED
        BY <1>2, <3>1, <4>2, <4>3 DEF RecordStop
    <3>2. CASE stopper' = [stopper EXCEPT !.at = "probe"]
      BY <1>1, <1>2, <3>2 DEF RecordStop, Stoppers, Threads, StopSteps
    <3>3. QED
      BY <1>2, <3>1, <3>2 DEF RecordStop
  <2>2. QED
    BY <1>1, <2>1, GoesOn
<1>3. CASE AskStop
  <2>1. /\ stopper' \in Stoppers /\ stopper'.at # "idle" /\ daemon' \in Runtimes
        /\ UNCHANGED posts \/ Post([Job("stop") EXCEPT !.line = "stopping"])
    BY <1>1, <1>3 DEF AskStop, Stoppers, Threads, StopSteps, Runtimes
  <2>2. CASE UNCHANGED posts
    BY <1>1, <2>1, <2>2, GoesOn
  <2>3. CASE Post([Job("stop") EXCEPT !.line = "stopping"])
    <3> DEFINE job == [Job("stop") EXCEPT !.line = "stopping"]
    <3>1. job \in Jobs /\ job.from = "stop" /\ ~job.last /\ posts' = Append(posts, job)
      BY <2>3, Handed DEF Job, Post
    <3> HIDE DEF job
    <3>2. QED
      BY <1>1, <2>1, <3>1, StopPosts
  <2>4. QED
    BY <2>1, <2>2, <2>3
<1>4. CASE ProbeLast
  <2> DEFINE job == LastWord("stop", Reachable, "said", FALSE)
  <2>1. job \in Jobs /\ job.from = "stop" /\ job.last
    BY Handed, Answers DEF LastWord
  <2>2. stopper' \in Stoppers /\ stopper'.at = "idle" /\ posts' = Append(posts, job) /\ UNCHANGED daemon
    BY <1>4 DEF ProbeLast, Post, Idle, Stoppers, Threads, StopSteps
  <2> HIDE DEF job
  <2>3. QED
    BY <1>1, <2>1, <2>2, StopPosts
<1>5. QED
  BY <1>2, <1>3, <1>4 DEF StopWork

LEMMA RunUnlockInv == LauncherInv /\ RunUnlock => LauncherInv'
<1> SUFFICES ASSUME LauncherInv, RunUnlock PROVE LauncherInv'
  OBVIOUS
<1>1. /\ unlocker.at # "idle" /\ unlocker' = Idle /\ daemon' \in Runtimes
      /\ UNCHANGED <<starter, stopper, flags, view, window>>
  BY DEF LauncherInv, LauncherTypes, RunUnlock, Runtimes
<1>2. PICK offer \in BOOLEAN : posts' = Append(posts, LastWord("unlock", "keep", "keep", offer))
  BY DEF RunUnlock, Post, Reports
<1> DEFINE job == LastWord("unlock", "keep", "keep", offer)
<1>3. job \in Jobs /\ job.from = "unlock" /\ job.last
  BY Handed DEF LastWord
<1> HIDE DEF job
<1>4. QED
  BY <1>1, <1>2, <1>3, UnlockPosts DEF job

-----------------------------------------------------------------------------
(* A start that nothing holds back: the start of a press or of an unlock.   *)
LEMMA Begins ==
  ASSUME NEW up \in Flags, NEW q \in Seq(Jobs), LauncherTypes, LastIsLast(q), RequestsOf(up, q),
         ~up.starting, ~up.unlocking,
         Started(up), posts' = q, UNCHANGED <<daemon, stopper, unlocker>>,
         window' \in Windows, window'.refused => window'.is = "closed"
  PROVE  LauncherInv'
<1>1. Idle \in Starters /\ [Idle EXCEPT !.at = "probe"] \in Starters
      /\ [Idle EXCEPT !.at = "probe"].at # "idle"
  BY DEF Idle, Starters, Threads, StartSteps
<1>2. /\ view' \in Views /\ ~view'.offered /\ view'.line \in {"checking", "said"}
      /\ flags' \in Flags /\ flags'.unlocking = FALSE /\ flags'.shuttingDown = up.shuttingDown
      /\ view'.line = "checking" => flags'.starting
  BY DEF Started, LauncherTypes, Views, Flags
<1>3. starter' \in Starters /\ flags'.starting = (starter'.at # "idle")
  BY <1>1 DEF Started, LauncherTypes, RequestsOf, Request, Flags
<1>4. starter.at = "idle" /\ ~Ends(q, "start") /\ ~Speaks(q, "start")
  BY DEF RequestsOf, Request
<1>5. Standing'
  BY <1>2, <1>3, <1>4 DEF Standing, RequestsOf, Request
<1>6. LauncherTypes'
  BY <1>2, <1>3 DEF LauncherTypes
<1>7. Apart' /\ LineEndsWithItsRequest'
  BY <1>2 DEF Apart, LineEndsWithItsRequest
<1>8. QED
  BY <1>5, <1>6, <1>7 DEF LauncherInv

LEMMA StartPressInv == LauncherInv /\ StartPress => LauncherInv'
<1> SUFFICES ASSUME LauncherInv, StartPress PROVE LauncherInv'
  OBVIOUS
<1> USE DEF LauncherInv
<1>1. UNCHANGED <<daemon, stopper, unlocker, posts, window>>
  BY DEF StartPress
<1>2. CASE flags.unlocking \/ flags.starting
  <2>1. /\ view' = [view EXCEPT !.line = "said"] /\ UNCHANGED <<flags, starter>>
    BY <1>2 DEF StartPress, Start
  <2>2. view' \in Views /\ view'.line = "said" /\ view'.offered = view.offered
    BY <2>1 DEF LauncherTypes, Views
  <2>3. LauncherTypes' /\ Apart' /\ LineEndsWithItsRequest'
    BY <1>1, <2>1, <2>2 DEF LauncherTypes, Apart, LineEndsWithItsRequest
  <2>4. LastIsLast(posts)' /\ Standing'
    BY <1>1, <2>1 DEF LastIsLast, Standing, RequestsOf, Request, Speaks, Ends
  <2>5. QED
    BY <2>3, <2>4
<1>3. CASE ~(flags.unlocking \/ flags.starting)
  <2>1. Started(flags)
    BY <1>3 DEF StartPress, Start
  <2>2. window' \in Windows /\ (window'.refused => window'.is = "closed")
    BY <1>1, <1>3 DEF LauncherTypes, LineEndsWithItsRequest
  <2>3. QED
    BY <1>1, <1>3, <2>1, <2>2, Begins DEF LauncherTypes, Standing
<1>4. QED
  BY <1>2, <1>3

(* The other presses leave the words alone.                                *)
LEMMA ShutdownInv == LauncherInv /\ Shutdown => LauncherInv'
<1> SUFFICES ASSUME LauncherInv, Shutdown PROVE LauncherInv'
  OBVIOUS
<1> USE DEF LauncherInv
<1>1. /\ UNCHANGED <<daemon, starter, unlocker, posts, window>>
      /\ flags'.starting = flags.starting /\ flags'.unlocking = flags.unlocking
      /\ flags' \in Flags /\ view' \in Views /\ view'.offered = view.offered
      /\ view'.line \in {"said", "stopping"}
  <2>1. UNCHANGED <<daemon, starter, unlocker, posts, window>>
    BY DEF Shutdown
  <2>2. view \in Views /\ flags \in Flags
    BY DEF LauncherTypes
  <2>3. /\ view' \in Views /\ view'.offered = view.offered
        /\ view'.line \in {"said", "stopping"}
    <3>1. CASE view' = [view EXCEPT !.line = "said"]
      BY <2>2, <3>1 DEF Views
    <3>2. CASE view' = [view EXCEPT !.line = "stopping", !.newest = "stop"]
      BY <2>2, <3>2 DEF Views
    <3>3. CASE view' = [view EXCEPT !.line = "said", !.newest = "stop"]
      BY <2>2, <3>3 DEF Views
    <3>4. QED
      BY <3>1, <3>2, <3>3 DEF Shutdown
  <2>4. /\ flags' \in Flags /\ flags'.starting = flags.starting /\ flags'.unlocking = flags.unlocking
    BY <2>2 DEF Shutdown, Flags
  <2>5. QED
    BY <2>1, <2>3, <2>4
<1>2. /\ stopper' \in Stoppers
      /\ \/ UNCHANGED stopper /\ UNCHANGED flags /\ view'.line = "said"
         \/ ~flags.shuttingDown /\ flags'.shuttingDown /\ stopper'.at # "idle"
  <2>1. [Idle EXCEPT !.at = "press"] \in Stoppers /\ [Idle EXCEPT !.at = "press"].at # "idle"
    BY DEF Idle, Stoppers, Threads, StopSteps
  <2>2. CASE UNCHANGED <<stopper, flags>> /\ view'.line = "said"
    BY <2>2 DEF LauncherTypes
  <2>3. CASE ~flags.shuttingDown /\ flags' = [flags EXCEPT !.shuttingDown = TRUE]
             /\ stopper' = [Idle EXCEPT !.at = "press"]
    BY <2>1, <2>3 DEF LauncherTypes, Flags
  <2>4. QED
    BY <2>2, <2>3 DEF Shutdown, LauncherTypes, Views
<1>3. LastIsLast(posts)' /\ Standing'
  BY <1>1, <1>2 DEF LastIsLast, Standing, RequestsOf, Request, Speaks, Ends
<1>4. LauncherTypes' /\ Apart' /\ LineEndsWithItsRequest'
  BY <1>1, <1>2 DEF LauncherTypes, Apart, LineEndsWithItsRequest
<1>5. QED
  BY <1>3, <1>4

LEMMA UnlockInv == LauncherInv /\ window.is # "closed" /\ (ConfirmUnlock \/ Unlock) => LauncherInv'
<1> SUFFICES ASSUME LauncherInv, window.is # "closed", ConfirmUnlock \/ Unlock PROVE LauncherInv'
  OBVIOUS
<1> USE DEF LauncherInv
<1>1. /\ UNCHANGED <<daemon, starter, stopper, posts, window>> /\ view.offered
      /\ flags' \in Flags /\ view' \in Views /\ view'.line = view.line
      /\ flags'.starting = flags.starting /\ flags'.shuttingDown = flags.shuttingDown
  BY DEF ConfirmUnlock, Unlock, LauncherTypes, Flags, Views
<1>2. ~flags.unlocking /\ ~flags.starting
  BY <1>1 DEF Apart
<1>3. /\ unlocker' \in Unlockers
      /\ \/ UNCHANGED unlocker /\ UNCHANGED flags
         \/ flags'.unlocking /\ unlocker'.at # "idle" /\ ~view'.offered
  <2>1. [Idle EXCEPT !.at = "run"] \in Unlockers /\ [Idle EXCEPT !.at = "run"].at # "idle"
    BY DEF Idle, Unlockers, Threads
  <2>2. CASE UNCHANGED <<unlocker, flags>>
    BY <2>2 DEF LauncherTypes
  <2>3. CASE /\ unlocker' = [Idle EXCEPT !.at = "run"]
             /\ flags' = [flags EXCEPT !.unlocking = TRUE]
             /\ view' = [view EXCEPT !.offered = FALSE, !.confirming = FALSE]
    BY <2>1, <2>3 DEF LauncherTypes, Flags, Views
  <2>4. QED
    BY <2>2, <2>3 DEF ConfirmUnlock, Unlock
<1>4. LastIsLast(posts)' /\ Standing'
  BY <1>1, <1>2, <1>3 DEF LastIsLast, Standing, RequestsOf, Request, Speaks, Ends
<1>5. LauncherTypes' /\ Apart' /\ LineEndsWithItsRequest'
  BY <1>1, <1>2, <1>3 DEF LauncherTypes, Apart, LineEndsWithItsRequest
<1>6. QED
  BY <1>4, <1>5

(* The steps that touch no request: a `Status` read, the close, the Runtime. *)
LEMMA OutsideInv == LauncherInv /\ (LiveLanded \/ CloseWorkbench \/ Faded \/ Boots \/ Turns \/ Stops) => LauncherInv'
<1> SUFFICES ASSUME LauncherInv, LiveLanded \/ CloseWorkbench \/ Faded \/ Boots \/ Turns \/ Stops PROVE LauncherInv'
  OBVIOUS
<1> USE DEF LauncherInv
<1>1. UNCHANGED <<starter, stopper, unlocker, flags, posts>>
  BY DEF LiveLanded, CloseWorkbench, Faded, Boots, Turns, Stops
<1>2. daemon' \in Runtimes
  <2>1. daemon \in Runtimes /\ daemon.turns + 1 \in Nat
    BY DEF LauncherTypes, Runtimes
  <2>2. CASE Turns
    <3>1. CASE \E left \in {"clear", "unconfirmed"} :
                  daemon' = [is |-> "down", owner |-> left, turns |-> daemon.turns + 1]
      BY <2>1, <3>1 DEF Runtimes
    <3>2. CASE daemon' = [daemon EXCEPT !.is = "up", !.turns = @ + 1]
      BY <2>1, <3>2 DEF Runtimes
    <3>3. QED
      BY <2>2, <3>1, <3>2 DEF Turns
  <2>3. CASE Stops
    BY <2>1, <2>3 DEF Stops, Runtimes
  <2>4. CASE Boots
    BY <2>1, <2>4 DEF Boots, Runtimes
  <2>5. CASE UNCHANGED daemon
    BY <2>1, <2>5
  <2>6. QED
    BY <2>2, <2>3, <2>4, <2>5 DEF LiveLanded, CloseWorkbench, Faded
<1>3. view' \in Views /\ view'.line = view.line /\ view'.offered = view.offered
  BY DEF LiveLanded, CloseWorkbench, Faded, Boots, Turns, Stops, LauncherTypes, Views
<1>4. /\ window' \in Windows
      /\ window'.is = "closed" => ~flags.unlocking
      /\ window'.refused => flags.unlocking \/ window'.is = "closed"
  <2>1. CASE CloseWorkbench
    BY <2>1 DEF CloseWorkbench, LauncherTypes, Windows, LineEndsWithItsRequest
  <2>2. CASE Faded
    BY <2>2 DEF Faded, LauncherTypes, Windows, LineEndsWithItsRequest
  <2>3. CASE UNCHANGED window
    BY <2>3 DEF LauncherTypes, LineEndsWithItsRequest, Apart
  <2>4. QED
    BY <2>1, <2>2, <2>3 DEF LiveLanded, Boots, Turns, Stops
<1>5. LastIsLast(posts)' /\ Standing'
  BY <1>1 DEF LastIsLast, Standing, RequestsOf, Request, Speaks, Ends
<1>6. LauncherTypes' /\ Apart' /\ LineEndsWithItsRequest'
  BY <1>1, <1>2, <1>3, <1>4 DEF LauncherTypes, Apart, LineEndsWithItsRequest
<1>7. QED
  BY <1>5, <1>6

-----------------------------------------------------------------------------
(* The event loop takes the oldest word.                                   *)
LEMMA TakeInv == LauncherInv /\ Take => LauncherInv'
<1> SUFFICES ASSUME LauncherInv, Take PROVE LauncherInv'
  OBVIOUS
<1> USE DEF LauncherInv
<1> DEFINE job == Head(posts)
<1>1. /\ posts \in Seq(Jobs) /\ posts # <<>> /\ posts' = Tail(posts)
      /\ UNCHANGED <<daemon, stopper, unlocker>>
  BY DEF Take, LauncherTypes
<1>2. /\ job \in Jobs /\ posts' \in Seq(Jobs) /\ LastIsLast(posts') /\ Speaks(posts, job.from)
      /\ job.last => Ends(posts, job.from) /\ ~Speaks(posts', job.from)
      /\ \A from \in PressKinds :
            /\ Speaks(posts', from) => Speaks(posts, from)
            /\ Ends(posts', from) => Ends(posts, from)
            /\ Ends(posts, from) => Ends(posts', from) \/ (job.from = from /\ job.last)
            /\ Ends(posts', from) => Speaks(posts', from)
  BY <1>1, Leaves DEF Speaks, Ends
<1> HIDE DEF job
<1>3. CASE job.from = "unlock"
  <2> DEFINE over == [flags EXCEPT !.unlocking = FALSE]
  <2>1. /\ over \in Flags /\ ~over.unlocking /\ ~over.starting
        /\ over.starting = flags.starting /\ over.shuttingDown = flags.shuttingDown
    BY <1>2, <1>3 DEF LauncherTypes, Flags, Standing, RequestsOf, Request, Apart
  <2>2. RequestsOf(over, posts')
    <3>1. job.last /\ unlocker.at = "idle" /\ ~Speaks(posts', "unlock") /\ ~Ends(posts', "unlock")
      BY <1>2, <1>3 DEF Standing, RequestsOf, Request, PressKinds, Jobs
    <3>2. /\ Ends(posts', "start") <=> Ends(posts, "start")
          /\ Ends(posts', "stop") <=> Ends(posts, "stop")
          /\ Speaks(posts', "start") => Speaks(posts, "start")
          /\ Speaks(posts', "stop") => Speaks(posts, "stop")
      BY <1>2, <1>3 DEF PressKinds, Ends
    <3> HIDE DEF over
    <3>3. Request(over.starting, starter, posts', "start")
      BY <2>1, <3>2 DEF Standing, RequestsOf, Request
    <3>4. Request(over.shuttingDown, stopper, posts', "stop")
      BY <2>1, <3>2 DEF Standing, RequestsOf, Request
    <3>5. Request(over.unlocking, unlocker, posts', "unlock")
      BY <2>1, <3>1 DEF Request, Flags
    <3>6. QED
      BY <3>3, <3>4, <3>5 DEF RequestsOf
  <2>3. window' \in Windows /\ ~window'.refused /\ window'.is = window.is
    BY <1>3 DEF Take, UnlockTaken, LauncherTypes, Windows, job
  <2>4. CASE job.offer
    <3>1. view' = [view EXCEPT !.offered = TRUE] /\ flags' = over /\ UNCHANGED starter
      BY <1>3, <2>4 DEF Take, UnlockTaken, job
    <3>2. view' \in Views /\ view'.line = view.line
      BY <3>1 DEF LauncherTypes, Views
    <3> HIDE DEF over
    <3>3. Standing'
      BY <1>1, <2>2, <3>1 DEF Standing, RequestsOf, Request
    <3>4. LauncherTypes' /\ Apart' /\ LineEndsWithItsRequest'
      BY <1>1, <1>2, <2>1, <2>3, <3>1, <3>2 DEF LauncherTypes, Apart, LineEndsWithItsRequest
    <3>5. QED
      BY <1>2, <3>3, <3>4
  <2>5. CASE ~job.offer
    <3>1. Started(over)
      BY <1>3, <2>1, <2>5 DEF Take, UnlockTaken, Start, job
    <3> HIDE DEF over
    <3>2. QED
      BY <1>1, <1>2, <2>1, <2>2, <2>3, <3>1, Begins
  <2>6. QED
    BY <2>4, <2>5
<1>4. CASE job.from # "unlock"
  <2>1. Taken(job) /\ job.from \in {"start", "stop"}
    BY <1>2, <1>4 DEF Take, job, Jobs, PressKinds
  <2>2. UNCHANGED <<starter, window>>
    BY <2>1 DEF Taken
  <2>3. /\ flags' \in Flags /\ flags'.unlocking = flags.unlocking
        /\ flags'.starting = (flags.starting /\ ~(job.last /\ job.from = "start"))
        /\ flags'.shuttingDown = (flags.shuttingDown /\ ~(job.last /\ job.from = "stop"))
    BY <2>1 DEF Taken, LauncherTypes, Flags
  <2>4. Standing'
    BY <1>1, <1>2, <2>1, <2>2, <2>3 DEF Standing, RequestsOf, Request, PressKinds
  <2>5. /\ view' \in Views
        /\ view'.line = IF job.line = "keep" THEN view.line ELSE job.line
        /\ view'.offered = IF job.last /\ job.from = "start" THEN job.offer ELSE view.offered
    <3> DEFINE status == Probed(job.from, job.status)
               line == IF job.line = "keep" THEN view.line ELSE job.line
               offered == IF job.last /\ job.from = "start" THEN job.offer ELSE view.offered
    <3>1. view \in Views
      BY DEF LauncherTypes
    <3>2. view' = [view EXCEPT !.status = status, !.line = line, !.offered = offered]
      BY <2>1 DEF Taken
    <3>3. status \in {"checking", "up", "down", "failed"}
      BY <1>2, <3>1 DEF Views, Probed, Jobs
    <3>4. line \in {"said", "checking", "starting", "stopping"} /\ offered \in BOOLEAN
      BY <1>2, <3>1 DEF Views, Jobs
    <3>5. view' \in Views /\ view'.line = line /\ view'.offered = offered
      <4> HIDE DEF status, line, offered
      <4>1. QED
        BY <3>1, <3>2, <3>3, <3>4 DEF Views
    <3>6. QED
      BY <3>5
  <2>6. LauncherTypes'
    BY <1>1, <1>2, <2>2, <2>3, <2>5 DEF LauncherTypes
  <2>7. IF job.from = "start" THEN flags.starting ELSE flags.shuttingDown
    BY <1>2, <2>1 DEF Standing, RequestsOf, Request
  <2>8. Apart'
    BY <2>1, <2>2, <2>3, <2>5, <2>7 DEF Apart
  <2>9. LineEndsWithItsRequest'
    BY <1>2, <2>1, <2>2, <2>3, <2>5, <2>7 DEF LineEndsWithItsRequest, Jobs
  <2>10. QED
    BY <1>2, <2>4, <2>6, <2>8, <2>9
<1>5. QED
  BY <1>3, <1>4

-----------------------------------------------------------------------------
LEMMA LauncherStarts == LauncherInit => LauncherInv
<1> SUFFICES ASSUME LauncherInit PROVE LauncherInv
  OBVIOUS
<1>1. Idle \in Starters /\ Idle \in Stoppers /\ Idle \in Unlockers /\ Idle.at = "idle"
  BY DEF Idle, Starters, Stoppers, Unlockers, Threads, StartSteps, StopSteps
<1>2. posts = <<>> /\ posts \in Seq(Jobs) /\ \A i \in 1 .. Len(posts) : FALSE
  BY DEF LauncherInit
<1>3. LauncherTypes
  BY <1>1, <1>2 DEF LauncherInit, LauncherTypes, FirstView, Views, Flags, Windows, Runtimes
<1>4. LastIsLast(posts) /\ Standing
  BY <1>1, <1>2 DEF LauncherInit, LastIsLast, Standing, RequestsOf, Request, Speaks, Ends
<1>5. Apart /\ LineEndsWithItsRequest
  BY DEF LauncherInit, Apart, LineEndsWithItsRequest, FirstView
<1>6. QED
  BY <1>3, <1>4, <1>5 DEF LauncherInv

LEMMA LauncherStep == LauncherInv /\ [LauncherNext]_launcherVars => LauncherInv'
<1> SUFFICES ASSUME LauncherInv, [LauncherNext]_launcherVars PROVE LauncherInv'
  OBVIOUS
<1>1. CASE PersonStep /\ window.is # "closed"
  BY <1>1, StartPressInv, ShutdownInv, UnlockInv, OutsideInv DEF PersonStep
<1>2. CASE ThreadStep
  BY <1>2, StartWorkInv, StopWorkInv, RunUnlockInv, TakeInv, OutsideInv DEF ThreadStep
<1>3. CASE UNCHANGED launcherVars
  BY <1>3 DEF launcherVars, LauncherInv, LauncherTypes, LastIsLast, Standing, RequestsOf, Request, Speaks, Ends,
              Apart, LineEndsWithItsRequest
<1>4. QED
  BY <1>1, <1>2, <1>3 DEF LauncherNext

LEMMA LauncherInvHolds == LauncherSpec => []LauncherInv
  BY LauncherStarts, LauncherStep, PTL DEF LauncherSpec

(* An unlock runs alone: no start beside it, not offered again, and the     *)
(* workbench does not close under it (launcher.rs, ui.rs).                   *)
THEOREM UnlocksRunAlone == LauncherSpec => []UnlockRunsAlone
<1>1. LauncherInv => UnlockRunsAlone
  BY DEF LauncherInv, LauncherTypes, Standing, RequestsOf, Request, Apart, UnlockRunsAlone, Unlockers, Threads
<1>2. QED
  BY <1>1, LauncherInvHolds, PTL

(* No line that says a request is under way outlives it (launcher.rs).       *)
THEOREM LinesEnd == LauncherSpec => []LineEndsWithItsRequest
<1>1. LauncherInv => LineEndsWithItsRequest
  BY DEF LauncherInv
<1>2. QED
  BY <1>1, LauncherInvHolds, PTL

(* A flag is up exactly while its request's thread or last word is out, and  *)
(* there is one of them: no press is refused for a request that is over.     *)
THEOREM OneRequestOfAKind == LauncherSpec => []OneOfEachRequest
<1>1. LauncherInv => OneOfEachRequest
  <2> SUFFICES ASSUME LauncherInv PROVE OneOfEachRequest
    OBVIOUS
  <2>1. \A from \in PressKinds : Out(from) <=> Ends(posts, from)
    BY DEF Out, Ends
  <2>2. \A i, j \in 1 .. Len(posts) :
           posts[i].last /\ posts[j].last /\ posts[i].from = posts[j].from => i = j
    BY DEF LauncherInv, LauncherTypes, LastIsLast
  <2>3. QED
    BY <2>1, <2>2 DEF LauncherInv, Standing, RequestsOf, Request, OneOfEachRequest, PressKinds
<1>2. QED
  BY <1>1, LauncherInvHolds, PTL

-----------------------------------------------------------------------------
(* The operations of a device: their inductive invariant.                  *)

DeviceSlots == [out : Nat, cooling : Nat]

SlotTypes ==
  /\ slots \in [Devices -> DeviceSlots] /\ pictures \in [Devices -> DeviceSlots]
  /\ switch \in [of : Devices \cup {Nobody}, at : {"none", "out", "unconfirmed"}]
  /\ issued \in Nat

\* What a thread of a work is, and no ticket is two works'.
WorkTypes ==
  /\ \A w \in works :
       /\ w = [kind |-> w.kind, of |-> w.of, op |-> w.op, ticket |-> w.ticket, word |-> w.word,
               letGo |-> w.letGo]
       /\ w.kind \in {"rescue", "refresh", "switch"} /\ w.of \in Devices
       /\ w.ticket \in Nat \ {0} /\ w.ticket <= issued /\ w.letGo \in BOOLEAN
  /\ \A v, w \in works : v.ticket = w.ticket => v = w

\* What `Status` lists are devices.
ListTypes ==
  /\ DOMAIN listed \subseteq Devices
  /\ read = [at |-> read.at, gen |-> read.gen, epoch |-> read.epoch, says |-> read.says]
  /\ read.at = "online" => DOMAIN read.says \subseteq Devices

\* The thread of a work that was not let go holds its device's ticket, the switch by being out.
Carried ==
  /\ \A w \in works : ~w.letGo =>
       /\ w.kind = "rescue" => slots[w.of].out = w.ticket
       /\ w.kind = "refresh" => pictures[w.of].out = w.ticket
       /\ w.kind = "switch" => switch.of = w.of /\ switch.at = "out"
  /\ \A v, w \in works : v.kind = "switch" /\ w.kind = "switch" /\ ~v.letGo /\ ~w.letGo => v = w

\* One of the three is out of a device.
Exclusive ==
  \A a \in Devices :
    /\ slots[a].out # 0 => pictures[a].out = 0 /\ switch.of # a
    /\ pictures[a].out # 0 => switch.of # a

DeviceInv == SlotTypes /\ WorkTypes /\ ListTypes /\ Carried /\ Exclusive

LEMMA DeviceStarts ==
  DeviceInit => DeviceInv
<1> SUFFICES ASSUME DeviceInit PROVE DeviceInv
  OBVIOUS
<1>1. SlotTypes
  BY DEF DeviceInit, SlotTypes, DeviceSlots, Rest, NoSwitchOut
<1>2. WorkTypes /\ Carried
  BY DEF DeviceInit, WorkTypes, Carried
<1>3. ListTypes
  BY DEF DeviceInit, ListTypes, NoRead
<1>4. Exclusive
  BY DeviceAssumption DEF DeviceInit, Exclusive, Rest, NoSwitchOut
<1> QED
  BY <1>1, <1>2, <1>3, <1>4 DEF DeviceInv

-----------------------------------------------------------------------------
(* A work goes out.                                                        *)

\* A work goes out of a device from which none is out, under a new ticket.
GoesOut(kind, a, o) ==
  /\ slots[a].out = 0 /\ pictures[a].out = 0 /\ switch.of # a
  /\ issued' = issued + 1 /\ works' = works \cup {Thread(kind, a, o)}
  /\ UNCHANGED <<listed, read>>

LEMMA ThreadsGoOut ==
  ASSUME DeviceInv, NEW kind \in {"rescue", "refresh", "switch"}, NEW a \in Devices, NEW o,
         GoesOut(kind, a, o),
         kind = "rescue" => /\ slots' = [slots EXCEPT ![a] = [out |-> issued + 1, cooling |-> 0]]
                            /\ UNCHANGED <<pictures, switch>>
         , kind = "refresh" => /\ pictures' = [pictures EXCEPT ![a].out = issued + 1]
                               /\ UNCHANGED <<slots, switch>>
         , kind = "switch" => /\ switch = NoSwitchOut /\ switch' = [of |-> a, at |-> "out"]
                              /\ UNCHANGED <<slots, pictures>>
  PROVE  DeviceInv'
<1> DEFINE new == Thread(kind, a, o)
           ticket == issued + 1
<1>1. ticket \in Nat \ {0} /\ issued < ticket /\ issued' = ticket
  BY DEF DeviceInv, SlotTypes, GoesOut
<1>2. /\ new.kind = kind /\ new.of = a /\ new.ticket = ticket /\ new.letGo = FALSE
      /\ new = [kind |-> new.kind, of |-> new.of, op |-> new.op, ticket |-> new.ticket,
                word |-> new.word, letGo |-> new.letGo]
  BY DEF Thread
<1>3. works' = works \cup {new} /\ UNCHANGED <<listed, read>>
  BY DEF GoesOut
<1> HIDE DEF new, ticket
<1>4. \A w \in works : w.ticket # ticket /\ w.ticket <= ticket
  BY <1>1 DEF DeviceInv, WorkTypes, SlotTypes
<1>5. WorkTypes'
  <2>1. \A w \in works' : w = new \/ w \in works
    BY <1>3
  <2>2. \A w \in works' :
          /\ w = [kind |-> w.kind, of |-> w.of, op |-> w.op, ticket |-> w.ticket, word |-> w.word,
                  letGo |-> w.letGo]
          /\ w.kind \in {"rescue", "refresh", "switch"} /\ w.of \in Devices
          /\ w.letGo \in BOOLEAN
    BY <1>2, <2>1 DEF DeviceInv, WorkTypes
  <2>3. \A w \in works' : w.ticket \in Nat \ {0} /\ w.ticket <= issued'
    BY <1>1, <1>2, <1>4, <2>1 DEF DeviceInv, WorkTypes
  <2>4. \A v, w \in works' : v.ticket = w.ticket => v = w
    BY <1>2, <1>4, <2>1 DEF DeviceInv, WorkTypes
  <2> QED
    BY <2>2, <2>3, <2>4 DEF WorkTypes
<1>6. ListTypes'
  BY <1>3 DEF DeviceInv, ListTypes
<1>7. CASE kind = "rescue"
  <2>1. /\ slots' = [slots EXCEPT ![a] = [out |-> ticket, cooling |-> 0]]
        /\ UNCHANGED <<pictures, switch>>
    BY <1>7 DEF ticket
  <2>2. SlotTypes'
    BY <1>1, <2>1 DEF DeviceInv, SlotTypes, DeviceSlots
  <2>3. slots'[a].out = ticket /\ \A b \in Devices \ {a} : slots'[b] = slots[b]
    BY <2>1 DEF DeviceInv, SlotTypes
  <2>4. \A w \in works : ~w.letGo /\ w.kind = "rescue" => w.of # a
    BY DEF DeviceInv, WorkTypes, Carried, GoesOut
  <2>5. Carried'
    BY <1>2, <1>3, <1>7, <2>1, <2>3, <2>4 DEF DeviceInv, WorkTypes, Carried
  <2>6. Exclusive'
    BY <2>1, <2>3 DEF DeviceInv, Exclusive, GoesOut
  <2> QED
    BY <1>5, <1>6, <2>2, <2>5, <2>6 DEF DeviceInv
<1>8. CASE kind = "refresh"
  <2>1. /\ pictures' = [pictures EXCEPT ![a].out = ticket] /\ UNCHANGED <<slots, switch>>
    BY <1>8 DEF ticket
  <2>2. SlotTypes'
    BY <1>1, <2>1 DEF DeviceInv, SlotTypes, DeviceSlots
  <2>3. pictures'[a].out = ticket /\ \A b \in Devices \ {a} : pictures'[b] = pictures[b]
    BY <2>1 DEF DeviceInv, SlotTypes, DeviceSlots
  <2>4. \A w \in works : ~w.letGo /\ w.kind = "refresh" => w.of # a
    BY DEF DeviceInv, WorkTypes, Carried, GoesOut
  <2>5. Carried'
    BY <1>2, <1>3, <1>8, <2>1, <2>3, <2>4 DEF DeviceInv, WorkTypes, Carried
  <2>6. Exclusive'
    BY <2>1, <2>3 DEF DeviceInv, Exclusive, GoesOut
  <2> QED
    BY <1>5, <1>6, <2>2, <2>5, <2>6 DEF DeviceInv
<1>9. CASE kind = "switch"
  <2>1. switch = NoSwitchOut /\ switch' = [of |-> a, at |-> "out"] /\ UNCHANGED <<slots, pictures>>
    BY <1>9
  <2>2. SlotTypes'
    BY <1>1, <2>1 DEF DeviceInv, SlotTypes
  <2>3. \A w \in works : ~w.letGo => w.kind # "switch"
    BY <2>1 DEF DeviceInv, Carried, NoSwitchOut
  <2>4. Carried'
    BY <1>2, <1>3, <1>9, <2>1, <2>3 DEF DeviceInv, Carried
  <2>5. Exclusive'
    BY <2>1 DEF DeviceInv, Exclusive, GoesOut
  <2> QED
    BY <1>5, <1>6, <2>2, <2>4, <2>5 DEF DeviceInv
<1> QED
  BY <1>7, <1>8, <1>9

\* A button that can be pressed is of a device from which no work is out.
LEMMA OfferedIsFree ==
  ASSUME DeviceInv, NEW a, NEW o, Offers(a, o)
  PROVE  a \in Devices /\ slots[a].out = 0 /\ pictures[a].out = 0 /\ switch.of # a
<1>1. a \in DOMAIN listed /\ Busy(a) = "free"
  BY DEF Offers, Free
<1> QED
  BY <1>1 DEF Busy, DeviceInv, ListTypes

\* The steps that change none of what the invariant is about but cooldowns.
LEMMA StillKeeps ==
  ASSUME DeviceInv, UNCHANGED <<switch, issued, works, listed, read>>,
         SlotTypes', \A a \in Devices : slots'[a].out = slots[a].out /\ pictures'[a].out = pictures[a].out
  PROVE  DeviceInv'
BY DEF DeviceInv, WorkTypes, ListTypes, Carried, Exclusive

LEMMA SendKeeps ==
  ASSUME DeviceInv, NEW a, NEW o, Offers(a, o), SendOut(a, o),
         UNCHANGED <<pictures, switch, listed, read>>
  PROVE  DeviceInv'
<1>1. a \in Devices /\ slots[a].out = 0 /\ pictures[a].out = 0 /\ switch.of # a
  BY OfferedIsFree
<1>2. issued' = issued + 1
  BY DEF SendOut, BeginWork
<1>3. CASE /\ slots' = [slots EXCEPT ![a] = [out |-> issued + 1, cooling |-> 0]]
           /\ works' = works \cup {Thread("rescue", a, o)}
  <2>1. GoesOut("rescue", a, o)
    BY <1>1, <1>2, <1>3 DEF GoesOut
  <2> QED
    BY <1>1, <1>3, <2>1, ThreadsGoOut
<1>4. CASE /\ slots' = [slots EXCEPT ![a] = [out |-> 0, cooling |-> issued + 1]]
           /\ UNCHANGED works
  <2> DEFINE ticket == issued + 1
  <2>1. ticket \in Nat /\ issued <= ticket
    BY DEF DeviceInv, SlotTypes
  <2>2. slots' = [slots EXCEPT ![a] = [out |-> 0, cooling |-> ticket]] /\ issued' = ticket
    BY <1>2, <1>4
  <2> HIDE DEF ticket
  <2>3. SlotTypes'
    BY <2>1, <2>2 DEF DeviceInv, SlotTypes, DeviceSlots
  <2>4. \A b \in Devices : slots'[b].out = slots[b].out
    BY <1>1, <2>2 DEF DeviceInv, SlotTypes
  <2>5. WorkTypes'
    BY <1>4, <2>1, <2>2 DEF DeviceInv, WorkTypes, SlotTypes
  <2> QED
    BY <1>4, <2>3, <2>4, <2>5 DEF DeviceInv, WorkTypes, ListTypes, Carried, Exclusive
<1> QED
  BY <1>3, <1>4 DEF SendOut

LEMMA DeskKeeps ==
  ASSUME DeviceInv, DeskStep
  PROVE  DeviceInv'
<1>1. CASE \E o \in bar.ops : PressBar(o)
  <2>1. PICK o \in bar.ops : PressBar(o)
    BY <1>1
  <2>2. CASE o \in Destructive
    BY <2>1, <2>2, StillKeeps DEF PressBar, DeviceInv, SlotTypes
  <2>3. CASE o \notin Destructive
    BY <2>1, <2>3, SendKeeps DEF PressBar
  <2> QED
    BY <2>2, <2>3
<1>2. CASE Confirm
  <2>1. CASE Offers(asked.of, asked.op)
    BY <1>2, <2>1, SendKeeps DEF Confirm
  <2>2. CASE ~Offers(asked.of, asked.op)
    BY <1>2, <2>2, StillKeeps DEF Confirm, DeviceInv, SlotTypes
  <2> QED
    BY <2>1, <2>2
<1>3. CASE Cancel
  BY <1>3, StillKeeps DEF Cancel, DeviceInv, SlotTypes
<1>4. CASE Look
  BY <1>4, StillKeeps DEF Look, DeviceInv, SlotTypes
<1>5. CASE \E a \in Devices : Refresh(a)
  <2>1. PICK a \in Devices : Refresh(a)
    BY <1>5
  <2>2. Busy(a) \notin {"rescue", "switch"} /\ pictures[a] = Rest /\ a \in DOMAIN listed
    BY <2>1 DEF Refresh, Refreshable, RefreshView
  <2>3. slots[a].out = 0 /\ pictures[a].out = 0 /\ switch.of # a
    BY <2>2 DEF Busy, Rest
  <2>4. /\ pictures' = [pictures EXCEPT ![a].out = issued + 1] /\ UNCHANGED <<slots, switch>>
        /\ GoesOut("refresh", a, Nobody)
    BY <2>1, <2>3 DEF Refresh, RefreshBegin, GoesOut
  <2> QED
    BY <2>4, ThreadsGoOut
<1>6. CASE \E a \in Devices : Switch(a)
  <2>1. PICK a \in Devices : Switch(a)
    BY <1>6
  <2>2. Busy(a) \notin {"rescue", "refresh"} /\ switch = NoSwitchOut /\ a \in DOMAIN listed
    BY <2>1 DEF Switch, Switchable
  <2>3. slots[a].out = 0 /\ pictures[a].out = 0 /\ switch.of # a
    BY <2>2, DeviceAssumption DEF Busy, NoSwitchOut
  <2>4. /\ switch' = [of |-> a, at |-> "out"] /\ UNCHANGED <<slots, pictures>>
        /\ GoesOut("switch", a, Nobody)
    BY <2>1, <2>3 DEF Switch, GoesOut
  <2> QED
    BY <2>2, <2>4, ThreadsGoOut
<1> QED
  BY <1>1, <1>2, <1>3, <1>4, <1>5, <1>6 DEF DeskStep

LEMMA CoolKeeps ==
  ASSUME DeviceInv, NEW a \in Devices, Cool(a)
  PROVE  DeviceInv'
<1>1. UNCHANGED <<switch, issued, works, listed, read>>
  BY DEF Cool
<1>2. CASE Cooled(a)
  BY <1>1, <1>2, StillKeeps DEF Cooled, DeviceInv, SlotTypes, DeviceSlots
<1>3. CASE RefreshCooled(a)
  BY <1>1, <1>3, StillKeeps DEF RefreshCooled, DeviceInv, SlotTypes, DeviceSlots
<1> QED
  BY <1>2, <1>3 DEF Cool

-----------------------------------------------------------------------------
(* A work lands.                                                           *)

LEMMA OperateKeeps ==
  ASSUME DeviceInv, NEW w \in works, Operate(w)
  PROVE  DeviceInv'
<1>1. PICK word : works' = (works \ {w}) \cup {[w EXCEPT !.word = word]}
  BY DEF Operate
<1>2. UNCHANGED <<slots, pictures, switch, issued, listed, read>>
  BY DEF Operate
<1> DEFINE next == [w EXCEPT !.word = word]
<1>3. /\ next.kind = w.kind /\ next.of = w.of /\ next.ticket = w.ticket /\ next.letGo = w.letGo
      /\ next = [kind |-> next.kind, of |-> next.of, op |-> next.op, ticket |-> next.ticket,
                 word |-> next.word, letGo |-> next.letGo]
  BY DEF DeviceInv, WorkTypes
<1>4. works' = (works \ {w}) \cup {next}
  BY <1>1
<1> HIDE DEF next
<1>5. \A v \in works \ {w} : v.ticket # w.ticket
  BY DEF DeviceInv, WorkTypes
<1>6. WorkTypes'
  BY <1>2, <1>3, <1>4, <1>5 DEF DeviceInv, WorkTypes
<1>7. Carried'
  BY <1>2, <1>3, <1>4 DEF DeviceInv, Carried
<1> QED
  BY <1>2, <1>6, <1>7 DEF DeviceInv, SlotTypes, ListTypes, Exclusive

LEMMA LandKeeps ==
  ASSUME DeviceInv, LandWork
  PROVE  DeviceInv'
<1>1. PICK w \in works : /\ LandRescue(w) \/ LandRefresh(w) \/ LandSwitch(w)
                         /\ works' = works \ {w} /\ UNCHANGED <<listed, issued, read>>
  BY DEF LandWork
<1> DEFINE a == w.of
           ticket == w.ticket
<1>2. /\ a \in Devices /\ ticket \in Nat
      /\ \A v \in works \ {w} : v.ticket # ticket
  BY DEF DeviceInv, WorkTypes
<1>3. WorkTypes' /\ ListTypes'
  BY <1>1 DEF DeviceInv, WorkTypes, ListTypes
<1>4. CASE LandRescue(w)
  <2>1. /\ UNCHANGED <<pictures, switch>>
        /\ \/ slots[a].out = ticket /\ slots' = [slots EXCEPT ![a] = [out |-> 0, cooling |-> ticket]]
           \/ UNCHANGED slots
    BY <1>4 DEF LandRescue, Settle
  <2>2. \A v \in works' : ~v.letGo /\ v.kind = "rescue" => slots'[v.of].out = v.ticket
    BY <1>1, <1>2, <2>1 DEF DeviceInv, WorkTypes, SlotTypes, Carried
  <2>3. SlotTypes'
    BY <1>1, <1>2, <2>1 DEF DeviceInv, SlotTypes, DeviceSlots
  <2>4. Carried'
    BY <1>1, <2>1, <2>2 DEF DeviceInv, Carried
  <2>5. \A b \in Devices : slots'[b].out \in {0, slots[b].out}
    BY <2>1 DEF DeviceInv, SlotTypes
  <2>6. Exclusive'
    BY <2>1, <2>5 DEF DeviceInv, Exclusive
  <2> QED
    BY <1>3, <2>3, <2>4, <2>6 DEF DeviceInv
<1>5. CASE LandRefresh(w)
  <2>1. /\ UNCHANGED <<slots, switch>>
        /\ \/ /\ pictures[a].out = ticket
              /\ pictures' = [pictures EXCEPT ![a] = [out |-> 0, cooling |-> ticket]]
           \/ UNCHANGED pictures
    BY <1>5 DEF LandRefresh, RefreshSettle
  <2>2. \A v \in works' : ~v.letGo /\ v.kind = "refresh" => pictures'[v.of].out = v.ticket
    BY <1>1, <1>2, <2>1 DEF DeviceInv, WorkTypes, SlotTypes, Carried
  <2>3. SlotTypes'
    BY <1>1, <1>2, <2>1 DEF DeviceInv, SlotTypes, DeviceSlots
  <2>4. Carried'
    BY <1>1, <2>1, <2>2 DEF DeviceInv, Carried
  <2>5. \A b \in Devices : pictures'[b].out \in {0, pictures[b].out}
    BY <2>1 DEF DeviceInv, SlotTypes
  <2>6. Exclusive'
    BY <2>1, <2>5 DEF DeviceInv, Exclusive
  <2> QED
    BY <1>3, <2>3, <2>4, <2>6 DEF DeviceInv
<1>6. CASE LandSwitch(w)
  <2>1. w.kind = "switch" /\ UNCHANGED <<slots, pictures>>
    BY <1>6 DEF LandSwitch
  <2>2. CASE w.letGo
    <3>1. UNCHANGED switch
      BY <1>6, <2>2 DEF LandSwitch
    <3>2. SlotTypes' /\ Carried' /\ Exclusive'
      BY <1>1, <2>1, <3>1 DEF DeviceInv, SlotTypes, Carried, Exclusive
    <3> QED
      BY <1>3, <3>2 DEF DeviceInv
  <2>3. CASE ~w.letGo
    <3>1. switch' \in {[switch EXCEPT !.at = "unconfirmed"], NoSwitchOut}
      BY <1>6, <2>3 DEF LandSwitch
    <3>2. \A v \in works' : ~v.letGo => v.kind # "switch"
      BY <1>1, <2>1, <2>3 DEF DeviceInv, Carried
    <3>3. SlotTypes' /\ switch'.of \in {switch.of, Nobody}
      BY <1>1, <2>1, <3>1 DEF DeviceInv, SlotTypes, NoSwitchOut
    <3>4. Carried'
      BY <1>1, <2>1, <3>2 DEF DeviceInv, Carried
    <3>5. Exclusive'
      BY <2>1, <3>3, DeviceAssumption DEF DeviceInv, Exclusive
    <3> QED
      BY <1>3, <3>3, <3>4, <3>5 DEF DeviceInv
  <2> QED
    BY <2>2, <2>3 DEF DeviceInv, WorkTypes
<1> QED
  BY <1>1, <1>4, <1>5, <1>6

-----------------------------------------------------------------------------
(* `Status`.                                                               *)

LEMMA StatusKeeps ==
  ASSUME DeviceInv, StatusStep
  PROVE  DeviceInv'
<1>1. CASE BeginStatus \/ AnswerRead \/ ReadOld
  <2>1. UNCHANGED <<slots, pictures, switch, issued, works, listed>>
    BY <1>1 DEF BeginStatus, AnswerRead, ReadOld
  <2>2. ListTypes'
    <3>1. CASE BeginStatus
      BY <2>1, <3>1 DEF BeginStatus, NoRead, DeviceInv, ListTypes
    <3>2. CASE AnswerRead
      <4> DEFINE says == [b \in {c \in Devices : outside.device[c] # Absent} |-> outside.device[b]]
      <4>1. DOMAIN says \subseteq Devices
        OBVIOUS
      <4>2. \/ read' = [read EXCEPT !.at = "online", !.epoch = outside.epoch, !.says = says]
            \/ read' = [read EXCEPT !.at = "down"]
        BY <3>2 DEF AnswerRead
      <4> HIDE DEF says
      <4> QED
        BY <2>1, <4>1, <4>2 DEF DeviceInv, ListTypes
    <3>3. CASE ReadOld
      BY <2>1, <3>3 DEF ReadOld, NoRead, DeviceInv, ListTypes
    <3> QED
      BY <1>1, <3>1, <3>2, <3>3
  <2> QED
    BY <2>1, <2>2 DEF DeviceInv, SlotTypes, WorkTypes, Carried, Exclusive
<1>2. CASE ReadDown
  <2>1. /\ UNCHANGED <<slots, pictures, switch, issued, works>> /\ read' = NoRead /\ listed' = <<>>
    BY <1>2 DEF ReadDown
  <2>2. ListTypes'
    BY <2>1 DEF ListTypes, NoRead
  <2> QED
    BY <2>1, <2>2 DEF DeviceInv, SlotTypes, WorkTypes, Carried, Exclusive
<1>3. CASE ReadSame
  <2>1. /\ UNCHANGED <<slots, pictures, issued, works>> /\ read' = NoRead /\ listed' = read.says
        /\ read.at = "online"
        /\ \/ switch.at = "unconfirmed" /\ switch' = NoSwitchOut
           \/ UNCHANGED switch
    BY <1>3 DEF ReadSame
  <2>2. ListTypes'
    BY <2>1 DEF DeviceInv, ListTypes, NoRead
  <2>3. SlotTypes' /\ WorkTypes'
    BY <2>1 DEF DeviceInv, SlotTypes, WorkTypes, NoSwitchOut
  <2>4. Carried'
    BY <2>1 DEF DeviceInv, Carried
  <2>5. Exclusive'
    BY <2>1, DeviceAssumption DEF DeviceInv, Exclusive, NoSwitchOut
  <2> QED
    BY <2>2, <2>3, <2>4, <2>5 DEF DeviceInv
<1>4. CASE ReadAnother
  <2>1. /\ slots' = LetGo(slots) /\ pictures' = LetGo(pictures) /\ switch' = NoSwitchOut
        /\ works' = {[w EXCEPT !.letGo = TRUE] : w \in works} /\ issued' = issued
        /\ read' = NoRead /\ listed' = read.says /\ read.at = "online"
    BY <1>4 DEF ReadAnother, RescueRestarted, RefreshRestarted
  <2>2. ListTypes'
    BY <2>1 DEF DeviceInv, ListTypes, NoRead
  <2>3. ASSUME NEW held \in [Devices -> DeviceSlots]
        PROVE  LetGo(held) \in [Devices -> DeviceSlots] /\ \A b \in Devices : LetGo(held)[b].out = 0
    BY DEF LetGo, DeviceSlots
  <2>4. SlotTypes' /\ \A b \in Devices : slots'[b].out = 0 /\ pictures'[b].out = 0
    BY <2>1, <2>3 DEF DeviceInv, SlotTypes, NoSwitchOut
  <2>5. \A w \in works' : \E v \in works :
            /\ w = [v EXCEPT !.letGo = TRUE] /\ w.letGo /\ w.ticket = v.ticket /\ w.kind = v.kind
            /\ w.of = v.of /\ w.op = v.op /\ w.word = v.word
    BY <2>1 DEF DeviceInv, WorkTypes
  <2>6. WorkTypes'
    <3>1. ASSUME NEW w \in works'
          PROVE  /\ w = [kind |-> w.kind, of |-> w.of, op |-> w.op, ticket |-> w.ticket,
                         word |-> w.word, letGo |-> w.letGo]
                 /\ w.kind \in {"rescue", "refresh", "switch"} /\ w.of \in Devices
                 /\ w.ticket \in Nat \ {0} /\ w.ticket <= issued' /\ w.letGo \in BOOLEAN
      <4>1. PICK v \in works : w = [v EXCEPT !.letGo = TRUE]
        BY <2>1
      <4>2. v = [kind |-> v.kind, of |-> v.of, op |-> v.op, ticket |-> v.ticket, word |-> v.word,
                 letGo |-> v.letGo]
        BY DEF DeviceInv, WorkTypes
      <4>3. w = [kind |-> v.kind, of |-> v.of, op |-> v.op, ticket |-> v.ticket, word |-> v.word,
                 letGo |-> TRUE]
        BY <4>1, <4>2
      <4> QED
        BY <2>1, <4>3 DEF DeviceInv, WorkTypes
    <3>2. \A v, w \in works' : v.ticket = w.ticket => v = w
      <4> SUFFICES ASSUME NEW v \in works', NEW w \in works', v.ticket = w.ticket
                   PROVE  v = w
        OBVIOUS
      <4>1. PICK x \in works : v = [x EXCEPT !.letGo = TRUE] /\ v.ticket = x.ticket
        BY <2>5
      <4>2. PICK y \in works : w = [y EXCEPT !.letGo = TRUE] /\ w.ticket = y.ticket
        BY <2>5
      <4>3. x = y
        BY <4>1, <4>2 DEF DeviceInv, WorkTypes
      <4> QED
        BY <4>1, <4>2, <4>3
    <3> QED
      BY <3>1, <3>2 DEF WorkTypes
  <2>7. Carried'
    BY <2>5 DEF Carried
  <2>8. Exclusive'
    BY <2>1, <2>4, DeviceAssumption DEF Exclusive, NoSwitchOut
  <2> QED
    BY <2>2, <2>4, <2>6, <2>7, <2>8 DEF DeviceInv
<1> QED
  BY <1>1, <1>2, <1>3, <1>4 DEF StatusStep

LEMMA DeviceStep ==
  ASSUME DeviceInv, [DeviceNext]_deviceVars
  PROVE  DeviceInv'
<1>1. CASE Others \/ UNCHANGED deviceVars
  <2>1. UNCHANGED <<slots, pictures, switch, issued, works, listed, read>>
    BY <1>1 DEF Others, deviceVars
  <2> QED
    BY <2>1 DEF DeviceInv, SlotTypes, WorkTypes, ListTypes, Carried, Exclusive
<1> QED
  BY <1>1, DeskKeeps, CoolKeeps, OperateKeeps, LandKeeps, StatusKeeps
  DEF DeviceNext, CoolStep, WorkStep

-----------------------------------------------------------------------------
(* The operations of a device: the theorems.                               *)

\* Every reachable state of the device's works satisfies their inductive invariant.
THEOREM DeviceInvHolds == DeviceSpec => []DeviceInv
BY DeviceStarts, DeviceStep, PTL DEF DeviceSpec

\* One work of a device goes out from the window at a time, of the three kinds that operate it, and
\* none beside a switch whose answer was lost until it is seen over.
THEOREM OneWorkGoesOut == DeviceSpec => []OneWorkPerDevice
<1>1. DeviceInv => OneWorkPerDevice
  <2> SUFFICES ASSUME DeviceInv, NEW a \in Devices
               PROVE  LET out == {w \in works : w.of = a /\ ~w.letGo}
                      IN /\ Cardinality(out) <= 1
                         /\ (switch.of = a /\ switch.at = "unconfirmed") => out = {}
    BY DEF OneWorkPerDevice
  <2> DEFINE out == {w \in works : w.of = a /\ ~w.letGo}
  <2>1. \A v, w \in out : v = w
    BY DEF DeviceInv, WorkTypes, Carried, Exclusive
  <2>2. switch.of = a /\ switch.at = "unconfirmed" => out = {}
    BY DEF DeviceInv, WorkTypes, Carried, Exclusive
  <2>3. out = {} \/ \E w : out = {w}
    BY <2>1
  <2> HIDE DEF out
  <2>4. Cardinality(out) <= 1
    <3>1. CASE out = {}
      BY <3>1, FS_EmptySet
    <3>2. CASE \E w : out = {w}
      <4>1. PICK w : out = {w}
        BY <3>2
      <4>2. Cardinality({w}) = 1
        BY FS_Singleton
      <4> QED
        BY <4>1, <4>2
    <3> QED
      BY <2>3, <3>1, <3>2
  <2> QED
    BY <2>2, <2>4 DEF out
<1> QED
  BY <1>1, DeviceInvHolds, PTL

\* A destructive operation goes out only on the question it asked, with the page and the account
\* as they were, the Runtime the same and the button not left off since.
THEOREM DestructiveGoesAsAsked == DeviceSpec => []SentAsAsked
<1> DEFINE Unchanged == since = {} /\ sent = {}
<1>1. DeviceInit => Unchanged
  BY DEF DeviceInit
<1>2. Unchanged /\ [DeviceNext]_deviceVars => Unchanged'
  <2> SUFFICES ASSUME Unchanged, [DeviceNext]_deviceVars PROVE Unchanged'
    OBVIOUS
  <2>1. CASE DeskStep
    <3>1. CASE \E o \in bar.ops : PressBar(o)
      BY <3>1 DEF PressBar
    <3>2. CASE Confirm \/ Cancel
      BY <3>2 DEF Confirm, Cancel
    <3>3. CASE Look
      BY <3>3 DEF Look, Turn, Pick, Minimize, Unconfirm, Notes
    <3>4. CASE \E a \in Devices : Refresh(a) \/ Switch(a)
      BY <3>4 DEF Refresh, Switch
    <3> QED
      BY <2>1, <3>1, <3>2, <3>3, <3>4 DEF DeskStep
  <2>2. CASE CoolStep \/ WorkStep \/ Others \/ UNCHANGED deviceVars
    BY <2>2 DEF CoolStep, Cool, WorkStep, Operate, LandWork, Others, deviceVars
  <2>3. CASE StatusStep
    BY <2>3 DEF StatusStep, BeginStatus, AnswerRead, ReadOld, ReadDown, ReadSame, ReadAnother,
      ReviewedBar, Unconfirm, Notes
  <2> QED
    BY <2>1, <2>2, <2>3 DEF DeviceNext
<1>3. Unchanged => SentAsAsked
  BY DEF SentAsAsked
<1> QED
  BY <1>1, <1>2, <1>3, PTL DEF DeviceSpec
=============================================================================
