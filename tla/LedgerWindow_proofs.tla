-------------------------- MODULE LedgerWindow_proofs --------------------------
(***************************************************************************)
(* The ledger window's type correctness, then its inductive invariant and  *)
(* the theorems it carries, for every set of filters and bounds, window    *)
(* width, fill length and bound of the model.                              *)
(***************************************************************************)
EXTENDS LedgerWindow, TLAPS, SequenceTheorems

-----------------------------------------------------------------------------
(* What the view model's operations keep: each returns a view, and the     *)
(* loaded windows stay contiguous, for every window width and pin.         *)

\* The next position down is a position or 0.
LEMMA TopType ==
  ASSUME NEW v \in View
  PROVE  Top(v) \in Int /\ (v.lowest # 0 => Top(v) \in Nat)
BY DEF Top, View

\* The next window down is a window that ends there.
LEMMA NextWindowType ==
  ASSUME NEW v \in View, HasEarlier(v)
  PROVE  /\ NextWindow(v) \in Window
         /\ NextWindow(v).from <= NextWindow(v).to
         /\ NextWindow(v).to = Top(v)
BY DEF NextWindow, NextFrom, HasEarlier, Top, View, Window, QueryOf, Query

\* The next window up is one above the upper end, within the pin.
LEMMA NextNewerWindowType ==
  ASSUME NEW v \in View, HasNewer(v)
  PROVE  /\ NextNewerWindow(v) \in Window
         /\ NextNewerWindow(v).from = v.upper + 1
         /\ NextNewerWindow(v).from <= NextNewerWindow(v).to
         /\ NextNewerWindow(v).to <= v.pin
BY WindowAssumption
   DEF NextNewerWindow, NewerTo, HasNewer, View, Window, QueryOf, Query

\* A new view is a view, and contiguous.
LEMMA NewViewType ==
  ASSUME NEW p \in Nat, NEW b \in BOOLEAN, NEW f \in Filters
  PROVE  NewView(p, b, f) \in View /\ Contiguous(NewView(p, b, f))
BY WindowAssumption
   DEF NewView, View, TimeBounds, Contiguous, Adjacent, Covers, Window

\* A view started over is a view, and contiguous.
LEMMA BeginType ==
  ASSUME NEW v \in View, NEW u \in Nat
  PROVE  /\ Begin(v, u) \in View
         /\ Begin(v, u).pin = v.pin
         /\ u <= v.pin => Contiguous(Begin(v, u))
<1>1. /\ Begin(v, u).windows = <<>> /\ Begin(v, u).lowest = 0
      /\ Begin(v, u).low = 0 /\ Begin(v, u).high = 0
      /\ Begin(v, u).upper = u /\ Begin(v, u).pin = v.pin
  BY DEF Begin, View
<1>2. Begin(v, u) \in View
  <2>1. <<>> \in Seq(Window)
    OBVIOUS
  <2> QED
    BY <2>1, WindowAssumption DEF Begin, View
<1>3. u <= v.pin => Contiguous(Begin(v, u))
  BY <1>1 DEF Contiguous, Adjacent, Covers
<1> QED
  BY <1>1, <1>2, <1>3

\* A window is never wider than the widest.
LEMMA NextWidthType ==
  ASSUME NEW w \in Nat \ {0}, NEW d
  PROVE  NextWidth(w, d) \in Nat \ {0}
BY WindowAssumption DEF NextWidth

\* A window applied below leaves a view.
LEMMA ApplyWindowType ==
  ASSUME NEW v \in View, NEW w \in Window, NEW d
  PROVE  ApplyWindow(v, w, d) \in View
<1>1. NextWidth(v.width, d) \in Nat \ {0}
  BY NextWidthType DEF View
<1>2. <<w>> \o v.windows \in Seq(Window)
  BY DEF View
<1> QED
  BY <1>1, <1>2 DEF ApplyWindow, View, Window

\* A window applied on top leaves a view.
LEMMA ApplyNewerWindowType ==
  ASSUME NEW v \in View, NEW w \in Window
  PROVE  ApplyNewerWindow(v, w) \in View
<1>1. Append(v.windows, w) \in Seq(Window)
  BY DEF View
<1> QED
  BY <1>1 DEF ApplyNewerWindow, View, Window

-----------------------------------------------------------------------------
(* A window put below, right under the lowest position read, or one put    *)
(* above, right over the upper end, keeps the windows contiguous.          *)

\* The next window down, applied, leaves no gap (apply_window).
LEMMA ApplyWindowContiguous ==
  ASSUME NEW v \in View, NEW w \in Window, NEW d,
         Contiguous(v), HasEarlier(v), w.to = Top(v), w.from <= w.to
  PROVE  Contiguous(ApplyWindow(v, w, d)) /\ ApplyWindow(v, w, d).pin = v.pin
<1> DEFINE ws == <<w>> \o v.windows
           a == ApplyWindow(v, w, d)
<1>1. /\ a.windows = ws /\ a.lowest = w.from /\ a.low = w.from
      /\ a.high = (IF v.high = 0 THEN w.to ELSE v.high)
      /\ a.upper = v.upper /\ a.pin = v.pin
  BY DEF ApplyWindow, View
<1>2. /\ v.windows \in Seq(Window) /\ Len(v.windows) \in Nat
      /\ v.lowest \in Nat /\ v.upper \in Nat /\ v.high \in Nat
  BY DEF View
<1>3. /\ ws \in Seq(Window) /\ Len(ws) = Len(v.windows) + 1
      /\ ws[1] = w
      /\ \A i \in 1..Len(v.windows) : ws[i + 1] = v.windows[i]
  BY <1>2
<1>4. \A i \in 1..Len(ws) : i = 1 \/ (i - 1 \in 1..Len(v.windows) /\ ws[i] = v.windows[i - 1])
  BY <1>2, <1>3
<1>5. v.windows # <<>> => /\ Len(v.windows) > 0 /\ v.windows[1].from = w.to + 1
                          /\ v.windows[1] \in Window
  <2>1. SUFFICES ASSUME v.windows # <<>>
                 PROVE  /\ Len(v.windows) > 0 /\ v.windows[1].from = w.to + 1
                        /\ v.windows[1] \in Window
    OBVIOUS
  <2>2. Len(v.windows) > 0
    BY <1>2, <2>1
  <2>3. v.windows[1] \in Window
    BY <1>2, <2>2
  <2>4. v.windows[1].from = v.lowest /\ v.lowest # 0
    BY <2>1, <2>3 DEF Contiguous, Covers, Window
  <2> QED
    BY <2>2, <2>3, <2>4, <1>2 DEF Top
<1>6. Adjacent(ws)
  <2>1. \A i \in 1..Len(ws) : ws[i].from <= ws[i].to
    BY <1>3, <1>4 DEF Contiguous, Adjacent
  <2>2. ASSUME NEW i \in 1..(Len(ws) - 1)
        PROVE  ws[i + 1].from = ws[i].to + 1
    <3>1. i \in 1..Len(v.windows) /\ ws[i + 1] = v.windows[i]
      BY <1>2, <1>3
    <3>2. CASE i = 1
      BY <1>3, <1>5, <3>1, <3>2, <1>2
    <3>3. CASE i # 1
      <4>1. i - 1 \in 1..(Len(v.windows) - 1) /\ ws[i] = v.windows[i - 1]
        BY <3>1, <3>3, <1>4, <1>2, <1>3
      <4>2. v.windows[(i - 1) + 1].from = v.windows[i - 1].to + 1
        BY <4>1 DEF Contiguous, Adjacent
      <4> QED
        BY <4>1, <4>2, <3>1
    <3> QED
      BY <3>2, <3>3
  <2> QED
    BY <2>1, <2>2 DEF Adjacent
<1>7. Covers(a)
  <2>1. ws # <<>> /\ ws[1].from = w.from
    BY <1>3, <1>2
  <2>2. CASE v.windows = <<>>
    BY <1>1, <1>2, <1>3, <2>1, <2>2 DEF Covers, Contiguous, Top, HasEarlier
  <2>3. CASE v.windows # <<>>
    <3>1. ws[Len(ws)] = v.windows[Len(v.windows)]
      BY <1>2, <1>3, <1>5, <2>3
    <3>2. v.upper # 0
      <4>1. v.windows[Len(v.windows)] \in Window
        BY <1>2, <1>5, <2>3
      <4> QED
        BY <4>1, <2>3 DEF Contiguous, Covers, Window
    <3> QED
      BY <1>1, <2>1, <2>3, <3>1, <3>2 DEF Covers, Contiguous
  <2> QED
    BY <2>2, <2>3
<1> QED
  BY <1>1, <1>6, <1>7 DEF Contiguous

\* The next window up, applied, leaves no gap (apply_newer_window).
LEMMA ApplyNewerWindowContiguous ==
  ASSUME NEW v \in View, NEW w \in Window,
         Contiguous(v), w.from = v.upper + 1, w.from <= w.to, w.to <= v.pin
  PROVE  Contiguous(ApplyNewerWindow(v, w)) /\ ApplyNewerWindow(v, w).pin = v.pin
<1> DEFINE ws == Append(v.windows, w)
           a == ApplyNewerWindow(v, w)
<1>1. /\ a.windows = ws /\ a.upper = w.to /\ a.high = w.to
      /\ a.lowest = (IF v.lowest = 0 THEN w.from ELSE v.lowest)
      /\ a.low = (IF v.low = 0 THEN w.from ELSE v.low)
      /\ a.pin = v.pin
  BY DEF ApplyNewerWindow, View
<1>2. /\ v.windows \in Seq(Window) /\ Len(v.windows) \in Nat
      /\ v.lowest \in Nat /\ v.upper \in Nat /\ v.low \in Nat
      /\ w.from \in Nat \ {0} /\ w.to \in Nat \ {0}
  BY DEF View, Window
<1>3. /\ ws \in Seq(Window) /\ Len(ws) = Len(v.windows) + 1
      /\ ws[Len(ws)] = w
      /\ \A i \in 1..Len(v.windows) : ws[i] = v.windows[i]
  BY <1>2
<1>4. Adjacent(ws)
  <2>1. \A i \in 1..Len(ws) : ws[i].from <= ws[i].to
    BY <1>2, <1>3 DEF Contiguous, Adjacent
  <2>2. ASSUME NEW i \in 1..(Len(ws) - 1)
        PROVE  ws[i + 1].from = ws[i].to + 1
    <3>1. i \in 1..Len(v.windows) /\ ws[i] = v.windows[i]
      BY <1>2, <1>3
    <3>2. CASE i = Len(v.windows)
      BY <1>2, <1>3, <3>1, <3>2 DEF Contiguous, Covers
    <3>3. CASE i # Len(v.windows)
      <4>1. i + 1 \in 1..Len(v.windows) /\ i \in 1..(Len(v.windows) - 1)
        BY <1>2, <3>1, <3>3
      <4>2. ws[i + 1] = v.windows[i + 1]
        BY <1>3, <4>1
      <4>3. v.windows[i + 1].from = v.windows[i].to + 1
        BY <4>1 DEF Contiguous, Adjacent
      <4>4. QED
        BY <3>1, <4>2, <4>3
    <3> QED
      BY <3>2, <3>3
  <2> QED
    BY <2>1, <2>2 DEF Adjacent
<1>5. Covers(a)
  <2>1. ws # <<>> /\ ws[Len(ws)].to = w.to
    BY <1>3, <1>2
  <2>2. CASE v.windows = <<>>
    BY <1>1, <1>2, <1>3, <2>1, <2>2 DEF Covers, Contiguous
  <2>3. CASE v.windows # <<>>
    <3>1. ws[1] = v.windows[1] /\ v.windows[1] \in Window
      BY <1>2, <1>3, <2>3
    <3>2. v.lowest # 0 /\ v.low # 0
      BY <3>1, <2>3 DEF Contiguous, Covers, Window
    <3> QED
      BY <1>1, <2>1, <2>3, <3>1, <3>2 DEF Covers, Contiguous
  <2> QED
    BY <2>2, <2>3
<1>6. a.upper <= a.pin
  BY <1>1
<1> QED
  BY <1>1, <1>4, <1>5, <1>6 DEF Contiguous

-----------------------------------------------------------------------------
(* Type correctness.                                                       *)

\* A reader made with only its next step and its carry is a reader.
LEMMA ThreadType ==
  ASSUME NEW pc \in PCs, NEW f \in Filters
  PROVE  /\ Thread(pc, f) \in Reader
         /\ Thread(pc, f).pc = pc /\ Thread(pc, f).gen = 0
         /\ Thread(pc, f).moved = FALSE
BY LedgerAssumption
   DEF Thread, Reader, Ops, NoWindow, Window, Query, TimeBounds

\* So is one that keeps which read stopped the following.
LEMMA ThreadHaltedType ==
  ASSUME NEW pc \in PCs, NEW h \in Nat
  PROVE  LET r == [Thread(pc, DefaultFilter) EXCEPT !.halted = h]
         IN r \in Reader /\ r.pc = pc /\ r.gen = 0 /\ r.moved = FALSE
BY ThreadType, LedgerAssumption DEF Reader, Thread

\* A reader between requests, or ended.
LEMMA RestsType ==
  ASSUME TypeOK, NEW s \in Sessions, NEW pc \in PCs, NEW h \in Nat, Rests(s, pc, h)
  PROVE  /\ reader' \in [Sessions -> Reader]
         /\ reader'[s].pc = pc /\ reader'[s].gen = 0
         /\ \A t \in Sessions \ {s} : reader'[t] = reader[t]
<1> DEFINE r == [Thread(pc, DefaultFilter) EXCEPT !.halted = h]
<1>1. r \in Reader /\ r.pc = pc /\ r.gen = 0
  BY ThreadHaltedType
<1>2. reader' = [reader EXCEPT ![s] = r]
  BY DEF Rests
<1> HIDE DEF r
<1>3. reader \in [Sessions -> Reader]
  BY DEF TypeOK
<1> QED
  BY <1>1, <1>2, <1>3

\* A reader that goes to its next step: the others' stay as they are.
LEMMA GoesType ==
  ASSUME TypeOK, NEW s \in Sessions, NEW pc \in PCs, Goes(s, pc)
  PROVE  /\ reader' \in [Sessions -> Reader]
         /\ reader'[s] = [reader[s] EXCEPT !.pc = pc]
         /\ \A t \in Sessions \ {s} : reader'[t] = reader[t]
BY DEF Goes, TypeOK, Reader

\* A request over: its reader rests, and only the busy line may change.
LEMMA OverType ==
  ASSUME TypeOK, NEW s \in Sessions, Over(s)
  PROVE  /\ reader' \in [Sessions -> Reader] /\ busy' \in BOOLEAN
         /\ reader'[s].pc \in {"idle", "tickend"} /\ reader'[s].gen = 0
         /\ \A t \in Sessions \ {s} : reader'[t] = reader[t]
<1>1. reader[s].halted \in Nat
  BY DEF TypeOK, Reader
<1>2. (IF reader[s].op = "tick" THEN "tickend" ELSE "idle") \in PCs
  BY DEF PCs
<1>3. busy' \in BOOLEAN
  BY DEF Over
<1> QED
  BY <1>1, <1>2, <1>3, RestsType DEF Over

\* What `send` hands over keeps the queue's, the phase's and the flags' types.
LEMMA SentType ==
  ASSUME TypeOK, session \in Sessions, NEW op \in Ops, NEW g \in Nat, Sent(op, g)
  PROVE  /\ queue' \in [Sessions -> Seq(Command)]
         /\ phase' \in Phases /\ busy' \in BOOLEAN /\ repaint' \in BOOLEAN
<1>1. [op |-> op, gen |-> g] \in Command
  BY DEF Command
<1>2. Append(queue[session], [op |-> op, gen |-> g]) \in Seq(Command)
  BY <1>1 DEF TypeOK
<1> QED
  BY <1>2 DEF Sent, TypeOK, Phases

\* A paint does the effects and leaves none.
LEMMA RefreshedType ==
  ASSUME TypeOK, NEW f \in BOOLEAN, NEW h \in TimeBounds, Refreshed(f, h)
  PROVE  effects' = {} /\ following' \in BOOLEAN /\ handle' \in TimeBounds
BY DEF Refreshed, TimeBounds

\* A change that starts the view over keeps the types.
LEMMA RestartedType ==
  ASSUME TypeOK, session \in Sessions, NEW v \in View, NEW op \in Ops,
         NEW f \in BOOLEAN, NEW h \in TimeBounds, Restarted(v, op, f, h)
  PROVE  TypeOK'
<1>1. generation' = generation + 1 /\ generation' \in Nat \ {0}
  BY DEF Restarted, Superseding, TypeOK
<1>2. Sent(op, generation + 1)
  BY <1>1 DEF Restarted
<1>3. /\ queue' \in [Sessions -> Seq(Command)]
      /\ phase' \in Phases /\ busy' \in BOOLEAN /\ repaint' \in BOOLEAN
  BY <1>1, <1>2, SentType DEF TypeOK
<1>4. effects' = {} /\ following' \in BOOLEAN /\ handle' \in TimeBounds
  BY RefreshedType DEF Restarted
<1> QED
  BY <1>1, <1>3, <1>4 DEF Restarted, TypeOK

\* So does one that only supersedes (`stop_following`).
LEMMA StoppedType ==
  ASSUME TypeOK, NEW v \in View, NEW h \in TimeBounds, Stopped(v, h)
  PROVE  /\ generation' = generation + 1 /\ generation' \in Nat \ {0}
         /\ view' = [v EXCEPT !.followError = FALSE] /\ view' \in View
         /\ effects' = {} /\ following' \in BOOLEAN /\ handle' \in TimeBounds
<1>1. effects' = {} /\ following' \in BOOLEAN /\ handle' \in TimeBounds
  BY RefreshedType DEF Stopped
<1>2. generation' = generation + 1 /\ generation' \in Nat \ {0}
  BY DEF Stopped, Superseding, TypeOK
<1>3. [v EXCEPT !.followError = FALSE] \in View
  BY DEF View
<1>4. view' = [v EXCEPT !.followError = FALSE]
  BY DEF Stopped
<1> HIDE DEF TypeOK
<1> QED
  BY <1>1, <1>2, <1>3, <1>4

\* A request's locals as a step sets them.
LEMMA SetBound ==
  ASSUME NEW r \in Reader, NEW pc \in PCs, NEW b \in TimeBounds
  PROVE  [r EXCEPT !.pc = pc, !.bound = b] \in Reader
BY DEF Reader

\* The window a request is to read next.
LEMMA SetWindow ==
  ASSUME NEW r \in Reader, NEW pc \in PCs, NEW w \in Window
  PROVE  [r EXCEPT !.pc = pc, !.window = w] \in Reader
BY DEF Reader

\* Whether a poll moved the pin.
LEMMA SetMoved ==
  ASSUME NEW r \in Reader, NEW pc \in PCs, NEW m \in BOOLEAN
  PROVE  [r EXCEPT !.pc = pc, !.moved = m] \in Reader
BY DEF Reader

\* One window more read.
LEMMA SetRead ==
  ASSUME NEW r \in Reader, NEW pc \in PCs, NEW w \in Window, NEW n \in Nat
  PROVE  [r EXCEPT !.pc = pc, !.window = w, !.read = n] \in Reader
BY DEF Reader

\* A request taken from the queue.
LEMMA SetCommand ==
  ASSUME NEW r \in Reader, NEW pc \in PCs, NEW op \in Ops, NEW g \in Nat
  PROVE  [r EXCEPT !.pc = pc, !.op = op, !.gen = g, !.read = 0] \in Reader
BY DEF Reader

-----------------------------------------------------------------------------
\* Every control's handler keeps the types.
LEMMA PressedType ==
  ASSUME TypeOK, Pressed \/ Timers \/ PostedRepaint \/ Append1,
         ~closed => session \in Sessions
  PROVE  TypeOK'
<1> USE DEF Ops
<1>0. Live => view \in View
  BY DEF Live, TypeOK
<1>1. CASE PickFilter
  <2>1. PICK f \in Filters :
          Restarted([view EXCEPT !.filter = f], "reload", following, handle)
    BY <1>1 DEF PickFilter
  <2>2. [view EXCEPT !.filter = f] \in View
    BY <1>0, <1>1 DEF PickFilter, View
  <2>3. session \in Sessions /\ following \in BOOLEAN /\ handle \in TimeBounds
    BY <1>1 DEF PickFilter, Uses, TypeOK
  <2> QED
    BY <2>1, <2>2, <2>3, RestartedType
<1>2. CASE JumpLatest
  <2>1. session \in Sessions /\ following \in BOOLEAN /\ handle \in TimeBounds
    BY <1>2 DEF JumpLatest, Uses, TypeOK
  <2>2. view \in View
    BY <1>0, <1>2 DEF JumpLatest, Restarted
  <2> QED
    BY <1>2, <2>1, <2>2, RestartedType DEF JumpLatest
<1>3. CASE FollowOn
  <2>1. session \in Sessions /\ handle \in TimeBounds
    BY <1>3 DEF FollowOn, Uses, TypeOK
  <2>2. [view EXCEPT !.followError = FALSE] \in View
    BY <1>0, <1>3 DEF FollowOn, Restarted, View
  <2> QED
    BY <1>3, <2>1, <2>2, RestartedType DEF FollowOn
<1>4. CASE FollowOff
  <2>1. view \in View /\ handle \in TimeBounds
    BY <1>0, <1>4 DEF FollowOff, TypeOK
  <2> QED
    BY <1>4, <2>1, StoppedType DEF FollowOff, TypeOK
<1>5. CASE CursorMoved
  <2>1. PICK h \in TimeBounds :
          LET bound == IF view.span THEN h ELSE NoBound
              moved == [view EXCEPT !.bound = bound]
          IN IF bound # NoBound
               THEN Stopped(moved, h)
               ELSE view' = moved /\ Refreshed(following, h) /\ UNCHANGED generation
    BY <1>5 DEF CursorMoved
  <2> DEFINE bound == IF view.span THEN h ELSE NoBound
             moved == [view EXCEPT !.bound = bound]
  <2>2. moved \in View
    BY <1>0, <1>5 DEF CursorMoved, View, TimeBounds
  <2>3. CASE bound # NoBound
    <3>1. Stopped(moved, h)
      BY <2>1, <2>3
    <3> HIDE DEF moved
    <3> QED
      BY <3>1, <2>2, <1>5, StoppedType DEF CursorMoved, TypeOK
  <2>4. CASE bound = NoBound
    <3>1. view' = moved /\ Refreshed(following, h) /\ generation' = generation
      BY <2>1, <2>4
    <3> HIDE DEF moved
    <3>2. following \in BOOLEAN
      BY DEF TypeOK
    <3> QED
      BY <3>1, <3>2, <2>2, <1>5, RefreshedType DEF CursorMoved, TypeOK
  <2> QED
    BY <2>3, <2>4
<1>6. CASE CursorRested
  <2>0. session \in Sessions /\ following \in BOOLEAN /\ handle \in TimeBounds
    BY <1>6 DEF CursorRested, TypeOK
  <2>1. CASE Live
    BY <1>0, <1>6, <2>0, <2>1, RestartedType DEF CursorRested
  <2>2. CASE ~Live
    BY <1>6, <2>0, <2>2, RefreshedType DEF CursorRested, TypeOK
  <2> QED
    BY <2>1, <2>2
<1>7. CASE LoadMore
  <2>0. session \in Sessions /\ following \in BOOLEAN /\ handle \in TimeBounds
        /\ view \in View
    BY <1>0, <1>7 DEF LoadMore, Uses, TypeOK
  <2>1. CASE resting
    BY <1>7, <2>0, <2>1, RestartedType DEF LoadMore
  <2>2. CASE ~resting
    <3>1. Sent("earlier", generation) /\ Refreshed(following, handle)
      BY <1>7, <2>2 DEF LoadMore
    <3>2. /\ queue' \in [Sessions -> Seq(Command)]
          /\ phase' \in Phases /\ busy' \in BOOLEAN /\ repaint' \in BOOLEAN
      BY <3>1, <2>0, SentType DEF TypeOK
    <3>3. effects' = {} /\ following' \in BOOLEAN /\ handle' \in TimeBounds
      BY <3>1, <2>0, RefreshedType
    <3> QED
      BY <1>7, <2>2, <3>2, <3>3 DEF LoadMore, TypeOK
  <2> QED
    BY <2>1, <2>2
<1>8. CASE FollowTimerStops
  <2>1. view \in View /\ handle \in TimeBounds
    BY <1>0, <1>8 DEF FollowTimerStops, TypeOK
  <2> QED
    BY <1>8, <2>1, StoppedType DEF FollowTimerStops, TypeOK
<1>9. CASE FollowTimerTicks
  <2>1. Sent("tick", generation) /\ session \in Sessions
    BY <1>9 DEF FollowTimerTicks
  <2>2. /\ queue' \in [Sessions -> Seq(Command)]
        /\ phase' \in Phases /\ busy' \in BOOLEAN /\ repaint' \in BOOLEAN
    BY <2>1, SentType DEF TypeOK
  <2> QED
    BY <1>9, <2>2 DEF FollowTimerTicks, TypeOK
<1>10. CASE Reopen
  <2> DEFINE carry == IF view = NoView THEN DefaultFilter ELSE view.filter
  <2>1. carry \in Filters
    BY LedgerAssumption DEF TypeOK, View
  <2>2. session + 1 \in Sessions
    BY <1>10, LedgerAssumption DEF Reopen, Sessions, TypeOK
  <2>3. Thread("open", carry) \in Reader
    BY <2>1, ThreadType DEF PCs
  <2>4. reader' \in [Sessions -> Reader]
    <3>1. \/ reader' = [reader EXCEPT ![session + 1] = Thread("open", carry)]
          \/ reader' = reader
      BY <1>10 DEF Reopen
    <3> HIDE DEF carry
    <3> QED
      BY <3>1, <2>2, <2>3 DEF TypeOK
  <2>5. phase' \in Phases /\ repaint' \in BOOLEAN
    BY <1>10 DEF Reopen, TypeOK, Phases
  <2>6. /\ session' \in Nat \ {0} /\ generation' \in Nat \ {0}
        /\ view' = NoView /\ busy' = FALSE /\ effects' = {} /\ follows' = FALSE
        /\ following' = FALSE /\ resting' = FALSE /\ handle' = NoBound
        /\ tickInFlight' = FALSE
        /\ head' = head /\ closed' = closed /\ queue' = queue /\ pin' = pin
    BY <1>10 DEF Reopen, Superseding, TypeOK
  <2> QED
    <3> HIDE DEF carry
    <3>1. (/\ head \in Nat
           /\ queue \in [Sessions -> Seq(Command)]
           /\ pin \in [Sessions -> Nat])'
      BY <2>6 DEF TypeOK
    <3>2. (/\ session \in Nat \ {0} /\ generation \in Nat \ {0})'
      BY <2>6
    <3>3. (/\ closed \in BOOLEAN /\ follows \in BOOLEAN /\ busy \in BOOLEAN
           /\ following \in BOOLEAN /\ resting \in BOOLEAN
           /\ tickInFlight \in BOOLEAN)'
      BY <2>6 DEF TypeOK
    <3>4. (effects \subseteq EffectNames /\ handle \in TimeBounds /\ view = NoView)'
      BY <2>6 DEF TimeBounds
    <3> QED
      BY <2>4, <2>5, <3>1, <3>2, <3>3, <3>4 DEF TypeOK
<1>11. CASE Close
  <2>1. (session \in Nat \ {0} /\ generation \in Nat \ {0})'
    BY <1>11 DEF Close, TypeOK
  <2>2. (closed \in BOOLEAN /\ following \in BOOLEAN /\ resting \in BOOLEAN)'
    BY <1>11 DEF Close
  <2>3. UNCHANGED <<head, phase, follows, view, busy, effects, handle, repaint,
                    tickInFlight, queue, reader, pin>>
    BY <1>11 DEF Close
  <2> QED
    BY <2>1, <2>2, <2>3 DEF TypeOK
<1>12. CASE PostedRepaint
  <2>1. following \in BOOLEAN /\ handle \in TimeBounds
    BY DEF TypeOK
  <2> QED
    BY <1>12, <2>1, RefreshedType DEF PostedRepaint, TypeOK
<1>13. CASE Append1
  BY <1>13 DEF Append1, TypeOK, tagVars, loopVars
<1> QED
  BY <1>1, <1>2, <1>3, <1>4, <1>5, <1>6, <1>7, <1>8, <1>9, <1>10, <1>11, <1>12, <1>13
     DEF Pressed, Timers

-----------------------------------------------------------------------------
(* The reader's steps.                                                     *)

\* A face that opens has a new view, its span known or not.
LEMMA PublishedView ==
  ASSUME NEW s \in Sessions, InSession(s), Publish(s)
  PROVE  \E span \in BOOLEAN : view' = NewView(pin[s], span, reader[s].carry)
<1> DEFINE b == pin[s] > 0
           spans == {b} \cup (IF "read" \in Faults THEN {FALSE} ELSE {})
<1>1. PICK span \in spans : view' = NewView(pin[s], span, reader[s].carry)
  BY DEF Publish
<1>2. b \in BOOLEAN
  OBVIOUS
<1> HIDE DEF b
<1>3. spans \subseteq BOOLEAN
  <2>1. (IF "read" \in Faults THEN {FALSE} ELSE {}) \subseteq BOOLEAN
    OBVIOUS
  <2> QED
    BY <1>2, <2>1
<1> HIDE DEF spans
<1> QED
  BY <1>1, <1>3

\* Opening a face keeps the types.
LEMMA OpeningType ==
  ASSUME TypeOK, NEW s \in Sessions, Opening(s)
  PROVE  TypeOK'
<1> USE DEF loopOnly, tagVars, loopVars
<1>1. CASE OpenRefused(s)
  <2>1. reader' \in [Sessions -> Reader]
    BY <1>1, RestsType DEF OpenRefused, PCs
  <2>2. phase' \in Phases /\ repaint' \in BOOLEAN /\ busy' \in BOOLEAN
    BY <1>1 DEF OpenRefused, TypeOK, Phases
  <2> QED
    BY <1>1, <2>1, <2>2 DEF OpenRefused, TypeOK
<1>2. CASE Opened(s)
  <2>1. reader' \in [Sessions -> Reader]
    BY <1>2, RestsType, GoesType DEF Opened, PCs
  <2>2. busy' \in BOOLEAN /\ pin' \in [Sessions -> Nat]
    BY <1>2 DEF Opened, TypeOK
  <2> QED
    BY <1>2, <2>1, <2>2 DEF Opened, TypeOK
<1>3. CASE Publish(s)
  <2>1. CASE InSession(s)
    <3>1. reader' = [reader EXCEPT ![s] = [Thread("plan", DefaultFilter)
                                             EXCEPT !.gen = generation]]
      BY <1>3, <2>1 DEF Publish
    <3>2. [Thread("plan", DefaultFilter) EXCEPT !.gen = generation] \in Reader
      <4>1. Thread("plan", DefaultFilter) \in Reader
        BY ThreadType, LedgerAssumption DEF PCs
      <4>2. generation \in Nat
        BY DEF TypeOK
      <4> QED
        BY <4>1, <4>2 DEF Reader
    <3>3. reader' \in [Sessions -> Reader]
      BY <3>1, <3>2 DEF TypeOK
    <3>4. view' \in View
      <4>1. PICK span \in BOOLEAN : view' = NewView(pin[s], span, reader[s].carry)
        BY <1>3, <2>1, PublishedView
      <4>2. pin[s] \in Nat /\ reader[s].carry \in Filters
        BY DEF TypeOK, Reader
      <4> QED
        BY <4>1, <4>2, NewViewType
    <3>5. phase' \in Phases /\ follows' \in BOOLEAN /\ repaint' \in BOOLEAN
      BY <1>3, <2>1 DEF Publish, Phases
    <3> QED
      BY <1>3, <3>3, <3>4, <3>5 DEF Publish, TypeOK
  <2>2. CASE ~InSession(s)
    <3>1. reader' \in [Sessions -> Reader]
      BY <1>3, <2>2, RestsType DEF Publish, PCs
    <3> QED
      BY <1>3, <2>2, <3>1 DEF Publish, TypeOK
  <2> QED
    BY <2>1, <2>2
<1> QED
  BY <1>1, <1>2, <1>3 DEF Opening

\* A view stays one with an error, a span or a bound set.
LEMMA ErrorType ==
  ASSUME NEW v \in View, NEW b \in BOOLEAN
  PROVE  /\ [v EXCEPT !.queryError = b] \in View
         /\ [v EXCEPT !.followError = b] \in View
         /\ [v EXCEPT !.span = b] \in View
         /\ [v EXCEPT !.bound = NoBound] \in View
         /\ v.queryError \in BOOLEAN
BY DEF View, TimeBounds

\* The view stays one with the span a read leaves it.
LEMMA SpanSetType ==
  ASSUME NEW s \in Sessions, view \in View, pin[s] \in Nat, SpanSet(s)
  PROVE  view' \in View
<1> DEFINE b == pin[s] > 0
<1>1. b \in BOOLEAN
  OBVIOUS
<1>2. view' = view \/ view' = [view EXCEPT !.span = b]
  BY DEF SpanSet
<1> HIDE DEF b
<1> QED
  BY <1>1, <1>2, ErrorType

\* A reload's and a fill's steps keep the types.
LEMMA ReloadingType ==
  ASSUME TypeOK, NEW s \in Sessions, Current(s) => view \in View, Reloading(s)
  PROVE  TypeOK'
<1> USE DEF loopOnly, tagVars, loopVars
<1>0. view \in View
  BY DEF Reloading, Plan, BeginView, ProbeFails, NextDown, Filled, LandDown, ReadFails
<1>1. CASE Plan(s)
  <2>1. view.bound \in TimeBounds
    BY <1>0 DEF View
  <2>2. reader' \in [Sessions -> Reader]
    <3>1. [reader[s] EXCEPT !.pc = "begin", !.bound = view.bound] \in Reader
      BY <2>1, SetBound DEF PCs, TypeOK
    <3> QED
      BY <1>1, <3>1 DEF Plan, TypeOK
  <2> QED
    BY <1>1, <2>2 DEF Plan, TypeOK
<1>2. CASE BeginView(s)
  <2>1. PICK upper \in 0..pin[s] : view' = Begin(view, upper)
    BY <1>2 DEF BeginView
  <2>2. view' \in View
    BY <1>0, <2>1, BeginType DEF TypeOK
  <2>3. reader' \in [Sessions -> Reader]
    <3>1. [reader[s] EXCEPT !.pc = "next", !.bound = NoBound] \in Reader
      BY SetBound DEF PCs, TypeOK, TimeBounds
    <3> QED
      BY <1>2, <3>1 DEF BeginView, TypeOK
  <2> QED
    BY <1>2, <2>2, <2>3 DEF BeginView, TypeOK
<1>3. CASE ProbeFails(s)
  <2>1. view' \in View
    BY <1>0, <1>3, BeginType, ErrorType DEF ProbeFails
  <2> QED
    BY <1>3, <2>1, OverType DEF ProbeFails, TypeOK
<1>4. CASE NextDown(s)
  <2>1. NextWindow(view) \in Window
    BY <1>0, <1>4, NextWindowType DEF NextDown
  <2>2. view' \in View
    BY <1>0, <1>4, ErrorType DEF NextDown
  <2>3. reader' \in [Sessions -> Reader]
    <3>1. [reader[s] EXCEPT !.pc = "read", !.window = NextWindow(view)] \in Reader
      BY <2>1, SetWindow DEF PCs, TypeOK
    <3> QED
      BY <1>4, <3>1 DEF NextDown, TypeOK
  <2> QED
    BY <1>4, <2>2, <2>3 DEF NextDown, TypeOK
<1>5. CASE Filled(s)
  <2>1. view' \in View
    BY <1>0, <1>5, ErrorType DEF Filled
  <2> QED
    BY <1>5, <2>1, OverType DEF Filled, TypeOK
<1>6. CASE LandDown(s)
  <2>1. reader[s].window \in Window
    BY DEF TypeOK, Reader
  <2>2. view' \in View
    BY <1>0, <1>6, <2>1, ApplyWindowType DEF LandDown
  <2>3. NoWindow \in Window
    BY LedgerAssumption DEF NoWindow, Window, Query, TimeBounds
  <2>4. reader' \in [Sessions -> Reader]
    <3>1. [reader[s] EXCEPT !.pc = "next", !.window = NoWindow, !.read = reader[s].read + 1]
            \in Reader
      <4>1. reader[s] \in Reader /\ reader[s].read + 1 \in Nat
        BY DEF TypeOK, Reader
      <4> QED
        BY <2>3, <4>1, SetRead DEF PCs
    <3> QED
      BY <1>6, <3>1 DEF LandDown, TypeOK
  <2> QED
    BY <1>6, <2>2, <2>4 DEF LandDown, TypeOK
<1>7. CASE ReadFails(s)
  <2>1. view' \in View
    BY <1>0, <1>7, ErrorType DEF ReadFails
  <2> QED
    BY <1>7, <2>1, OverType DEF ReadFails, TypeOK
<1> QED
  BY <1>1, <1>2, <1>3, <1>4, <1>5, <1>6, <1>7 DEF Reloading

\* The steps of a new pin keep the types.
LEMMA RepinningType ==
  ASSUME TypeOK, NEW s \in Sessions, s = session /\ Serves(s) => view \in View,
         Repinning(s)
  PROVE  TypeOK'
<1> USE DEF loopOnly, tagVars, loopVars
<1>0. Current(s) => view \in View
  BY DEF Repinning, Repin, RepinFails, Repinned, StartAtPin, SpanRead, At, Serves, Current
<1>1. CASE Repin(s)
  <2>1. reader' \in [Sessions -> Reader]
    BY <1>1, GoesType DEF Repin, PCs
  <2>2. pin' \in [Sessions -> Nat]
    BY <1>1 DEF Repin, TypeOK
  <2> QED
    BY <1>1, <2>1, <2>2 DEF Repin, TypeOK
<1>2. CASE RepinFails(s)
  <2>1. view' \in View
    BY <1>0, <1>2, ErrorType DEF RepinFails
  <2>2. reader[s].halted \in Nat /\ reader[s].gen \in Nat
    BY DEF TypeOK, Reader
  <2>3. reader' \in [Sessions -> Reader]
    BY <1>2, <2>2, RestsType DEF RepinFails, PCs
  <2>4. effects' \subseteq EffectNames
    BY <1>2 DEF RepinFails, TypeOK, EffectNames
  <2> QED
    BY <1>2, <2>1, <2>3, <2>4 DEF RepinFails, TypeOK
<1>3. CASE Repinned(s)
  <2>1. CASE InSession(s)
    <3>1. view \in View /\ pin[s] \in Nat
      BY <1>3, <2>1 DEF Repinned, InSession, Serves, TypeOK
    <3>2. SetPin(view, pin[s]) \in View
      BY <3>1 DEF SetPin, View
    <3>3. view' \in View /\ phase' \in Phases
      BY <1>3, <2>1, <3>1, <3>2 DEF Repinned, Phases
    <3>4. reader' \in [Sessions -> Reader]
      BY <1>3, <2>1, GoesType DEF Repinned, PCs
    <3> QED
      BY <1>3, <2>1, <3>3, <3>4 DEF Repinned, TypeOK
  <2>2. CASE ~InSession(s)
    BY <1>3, <2>2, OverType DEF Repinned, TypeOK
  <2> QED
    BY <2>1, <2>2
<1>4. CASE StartAtPin(s)
  <2>1. view' \in View
    BY <1>0, <1>4, ErrorType DEF StartAtPin
  <2>2. reader' \in [Sessions -> Reader]
    BY <1>4, GoesType DEF StartAtPin, PCs
  <2>3. effects' \subseteq EffectNames
    BY <1>4 DEF StartAtPin, TypeOK, EffectNames
  <2> QED
    BY <1>4, <2>1, <2>2, <2>3 DEF StartAtPin, TypeOK
<1>5. CASE SpanRead(s)
  <2>1. view' \in View
    BY <1>0, <1>5, SpanSetType DEF SpanRead, TypeOK
  <2>2. reader' \in [Sessions -> Reader]
    BY <1>5, GoesType DEF SpanRead, PCs
  <2> QED
    BY <1>5, <2>1, <2>2 DEF SpanRead, TypeOK
<1> QED
  BY <1>1, <1>2, <1>3, <1>4, <1>5 DEF Repinning

\* A follow tick's steps keep the types.
LEMMA TickingType ==
  ASSUME TypeOK, NEW s \in Sessions, Current(s) => view \in View, Ticking(s)
  PROVE  TypeOK'
<1> USE DEF loopOnly, tagVars, loopVars
<1>1. CASE TickHalted(s)
  BY <1>1, OverType DEF TickHalted, TypeOK
<1>2. CASE Poll(s)
  <2>1. reader' \in [Sessions -> Reader]
    <3>1. [reader[s] EXCEPT !.pc = "polled", !.moved = (head > pin[s])] \in Reader
      <4> DEFINE m == head > pin[s]
      <4>1. reader[s] \in Reader /\ "polled" \in PCs
        BY DEF TypeOK, PCs
      <4>2. m \in BOOLEAN
        OBVIOUS
      <4> HIDE DEF m
      <4>3. [reader[s] EXCEPT !.pc = "polled", !.moved = m] \in Reader
        BY <4>1, <4>2, SetMoved
      <4> QED
        BY <4>3 DEF m
    <3> QED
      BY <1>2, <3>1 DEF Poll, TypeOK
  <2>2. pin' \in [Sessions -> Nat]
    BY <1>2 DEF Poll, TypeOK
  <2> QED
    BY <1>2, <2>1, <2>2 DEF Poll, TypeOK
<1>3. CASE PollFails(s)
  <2>1. view' \in View
    BY <1>3, ErrorType DEF PollFails
  <2> QED
    BY <1>3, <2>1, OverType DEF PollFails, TypeOK
<1>4. CASE TickPlan(s)
  <2>1. view' \in View
    BY <1>4, ErrorType DEF TickPlan
  <2>2. reader' \in [Sessions -> Reader] /\ busy' \in BOOLEAN
    BY <1>4, GoesType, OverType DEF TickPlan, PCs, TypeOK
  <2>3. repaint' \in BOOLEAN
    BY <1>4 DEF TickPlan
  <2> QED
    BY <1>4, <2>1, <2>2, <2>3 DEF TickPlan, TypeOK
<1>5. CASE TickNext(s)
  <2>1. NextNewerWindow(view) \in Window
    BY <1>5, NextNewerWindowType DEF TickNext
  <2>2. reader' \in [Sessions -> Reader]
    <3>1. [reader[s] EXCEPT !.pc = "tickread", !.window = NextNewerWindow(view)] \in Reader
      BY <2>1, SetWindow DEF PCs, TypeOK
    <3> QED
      BY <1>5, <3>1 DEF TickNext, TypeOK
  <2> QED
    BY <1>5, <2>2 DEF TickNext, TypeOK
<1>6. CASE TickFilled(s)
  <2>1. reader' \in [Sessions -> Reader] /\ busy' \in BOOLEAN
    BY <1>6, GoesType, OverType DEF TickFilled, PCs, TypeOK
  <2> QED
    BY <1>6, <2>1 DEF TickFilled, TypeOK
<1>7. CASE LandNewer(s)
  <2>1. reader[s].window \in Window
    BY DEF TypeOK, Reader
  <2>2. view' \in View
    BY <1>7, <2>1, ApplyNewerWindowType DEF LandNewer
  <2>3. NoWindow \in Window
    BY LedgerAssumption DEF NoWindow, Window, Query, TimeBounds
  <2>4. reader' \in [Sessions -> Reader]
    <3>1. [reader[s] EXCEPT !.pc = "ticknext", !.window = NoWindow, !.read = reader[s].read + 1]
            \in Reader
      <4>1. reader[s] \in Reader /\ reader[s].read + 1 \in Nat
        BY DEF TypeOK, Reader
      <4> QED
        BY <2>3, <4>1, SetRead DEF PCs
    <3> QED
      BY <1>7, <3>1 DEF LandNewer, TypeOK
  <2> QED
    BY <1>7, <2>2, <2>4 DEF LandNewer, TypeOK
<1>8. CASE TickReadFails(s)
  <2>1. view' \in View
    BY <1>8, ErrorType DEF TickReadFails
  <2>2. reader[s].gen \in Nat
    BY DEF TypeOK, Reader
  <2>3. reader' \in [Sessions -> Reader]
    BY <1>8, <2>2, RestsType DEF TickReadFails, PCs
  <2>4. effects' \subseteq EffectNames
    BY <1>8 DEF TickReadFails, TypeOK, EffectNames
  <2> QED
    BY <1>8, <2>1, <2>3, <2>4 DEF TickReadFails, TypeOK
<1>9. CASE TickEnd(s)
  <2>1. reader' \in [Sessions -> Reader]
    BY <1>9, GoesType DEF TickEnd, PCs
  <2>2. busy' \in BOOLEAN
    BY <1>9 DEF TickEnd
  <2> QED
    BY <1>9, <2>1, <2>2 DEF TickEnd, TypeOK
<1>10. CASE TickSpan(s)
  <2>1. view' \in View
    BY <1>10, SpanSetType DEF TickSpan, TypeOK
  <2> QED
    BY <1>10, <2>1, OverType DEF TickSpan, TypeOK
<1> QED
  BY <1>1, <1>2, <1>3, <1>4, <1>5, <1>6, <1>7, <1>8, <1>9, <1>10 DEF Ticking

\* So does every step of a reader thread.
LEMMA ReaderType ==
  ASSUME TypeOK, NEW s \in Sessions, s = session /\ Serves(s) => view \in View,
         Reads(s) \/ Panic(s)
  PROVE  TypeOK'
<1> USE DEF loopOnly, tagVars, loopVars
<1>1. CASE Opening(s)
  BY <1>1, OpeningType
<1>2. CASE Take(s)
  <2>1. Head(queue[s]) \in Command /\ Tail(queue[s]) \in Seq(Command)
    BY <1>2 DEF Take, TypeOK
  <2>2. Start(Head(queue[s]).op) \in PCs
    BY <2>1 DEF Start, PCs
  <2>3. reader' \in [Sessions -> Reader]
    <3> DEFINE c == Head(queue[s])
    <3>1. [reader[s] EXCEPT !.pc = Start(c.op), !.op = c.op, !.gen = c.gen, !.read = 0]
            \in Reader
      BY <2>1, <2>2, SetCommand DEF Command, TypeOK
    <3> QED
      BY <1>2, <3>1 DEF Take, TypeOK
  <2>4. queue' \in [Sessions -> Seq(Command)]
    BY <1>2, <2>1 DEF Take, TypeOK
  <2> QED
    BY <1>2, <2>3, <2>4 DEF Take, TypeOK
<1>3. CASE LetGo(s)
  <2>1. reader' \in [Sessions -> Reader]
    BY <1>3, RestsType DEF LetGo, PCs
  <2> QED
    BY <1>3, <2>1 DEF LetGo, TypeOK
<1>4. CASE Superseded(s)
  BY <1>4, OverType DEF Superseded, TypeOK
<1>5. CASE Reloading(s)
  <2>1. Current(s) => view \in View
    BY <1>5 DEF Current, Serves, At, Reloading, Plan, BeginView, ProbeFails, NextDown,
                Filled, LandDown, ReadFails
  <2> QED
    BY <1>5, <2>1, ReloadingType
<1>6. CASE Repinning(s)
  BY <1>6, RepinningType
<1>7. CASE Ticking(s)
  <2>1. Current(s) => view \in View
    BY <1>7 DEF Current, Serves, At, Ticking, TickHalted, Poll, PollFails, TickPlan,
                TickNext, TickFilled, LandNewer, TickReadFails, TickSpan, TickEnd
  <2> QED
    BY <1>7, <2>1, TickingType
<1>8. CASE Panic(s)
  <2>1. reader' \in [Sessions -> Reader]
    BY <1>8, RestsType DEF Panic, PCs
  <2>2. phase' \in Phases /\ busy' \in BOOLEAN /\ repaint' \in BOOLEAN
    BY <1>8 DEF Panic, TypeOK, Phases
  <2> QED
    BY <1>8, <2>1, <2>2 DEF Panic, TypeOK
<1> QED
  BY <1>1, <1>2, <1>3, <1>4, <1>5, <1>6, <1>7, <1>8 DEF Reads

-----------------------------------------------------------------------------
(* The inductive invariant.                                                *)

\* No control, timer or filter touches which windows a view holds.
SameWindows(v, w) ==
  /\ w.pin = v.pin /\ w.upper = v.upper /\ w.lowest = v.lowest
  /\ w.windows = v.windows /\ w.low = v.low /\ w.high = v.high

\* Contiguity is a matter of the windows and their ends alone.
LEMMA SameContiguous ==
  ASSUME NEW v, NEW w, SameWindows(v, w)
  PROVE  /\ Contiguous(w) <=> Contiguous(v)
         /\ Top(w) = Top(v) /\ (HasEarlier(w) <=> HasEarlier(v))
BY DEF SameWindows, Contiguous, Covers, Top, HasEarlier

-----------------------------------------------------------------------------
(* The event loop's steps, but those that end the session.                 *)
LoopFrame ==
  /\ head <= head' /\ session' = session /\ closed' = closed
  /\ reader' = reader /\ pin' = pin
  /\ generation <= generation'
  /\ phase' \in {phase, "failed"}
  /\ \/ queue' = queue
     \/ /\ session \in Sessions
        /\ \E op \in Ops :
             queue' = [queue EXCEPT ![session] =
                         Append(@, [op |-> op, gen |-> generation'])]
  /\ \/ view' = view
     \/ /\ view \in View /\ view' \in View /\ SameWindows(view, view')
        /\ generation' = generation => view'.bound = NoBound

\* `send` leaves the queue as it is or adds its one request.
LEMMA SentFrame ==
  ASSUME NEW op \in Ops, NEW g \in Nat, Sent(op, g), session \in Sessions
  PROVE  /\ phase' \in {phase, "failed"}
         /\ \/ queue' = queue
            \/ queue' = [queue EXCEPT ![session] = Append(@, [op |-> op, gen |-> g])]
BY DEF Sent

\* A change that starts the view over is a step of the loop's frame.
LEMMA RestartedFrame ==
  ASSUME TypeOK, session \in Sessions, NEW v \in View, view \in View, SameWindows(view, v),
         NEW op \in Ops, NEW f, NEW h, Restarted(v, op, f, h)
  PROVE  LoopFrame
<1>1. generation' = generation + 1 /\ generation' \in Nat /\ generation <= generation'
      /\ generation' # generation
  BY DEF Restarted, Superseding, TypeOK
<1>2. /\ phase' \in {phase, "failed"}
      /\ \/ queue' = queue
         \/ queue' = [queue EXCEPT ![session] = Append(@, [op |-> op, gen |-> generation'])]
  BY <1>1, SentFrame DEF Restarted
<1>3. head <= head'
  BY DEF Restarted, TypeOK
<1>4. view' = v
  BY DEF Restarted
<1> QED
  BY <1>1, <1>2, <1>3, <1>4 DEF Restarted, LoopFrame

\* So is one that only supersedes.
LEMMA StoppedFrame ==
  ASSUME TypeOK, NEW v \in View, view \in View, SameWindows(view, v), NEW h, Stopped(v, h),
         UNCHANGED <<head, session, closed, phase, queue, reader, pin>>
  PROVE  LoopFrame
<1>1. generation <= generation' /\ generation' # generation /\ head <= head'
  BY DEF Stopped, Superseding, TypeOK
<1>2. view' \in View /\ SameWindows(view, view')
  BY DEF Stopped, View, SameWindows
<1> QED
  BY <1>1, <1>2 DEF LoopFrame

\* Every control and timer keeps to the loop's frame.
LEMMA LoopStep ==
  ASSUME TypeOK, ~closed => session \in Sessions,
         Pressed \/ Timers \/ PostedRepaint \/ Append1
  PROVE  LoopFrame \/ Reopen \/ Close
<1>0. Live => view \in View
  BY DEF Live, TypeOK
<1>1. head <= head /\ head <= head + 1 /\ generation <= generation
  BY DEF TypeOK
<1>2. CASE PickFilter
  <2>1. PICK f \in Filters :
          Restarted([view EXCEPT !.filter = f], "reload", following, handle)
    BY <1>2 DEF PickFilter
  <2>2. view \in View /\ session \in Sessions
    BY <1>0, <1>2 DEF PickFilter, Uses
  <2>3. [view EXCEPT !.filter = f] \in View /\ SameWindows(view, [view EXCEPT !.filter = f])
    BY <2>2 DEF View, SameWindows
  <2> QED
    BY <2>1, <2>2, <2>3, RestartedFrame DEF Ops
<1>3. CASE JumpLatest
  <2>1. view \in View /\ session \in Sessions /\ SameWindows(view, view)
    BY <1>0, <1>3 DEF JumpLatest, Restarted, Uses, SameWindows
  <2> QED
    BY <1>3, <2>1, RestartedFrame DEF JumpLatest, Ops
<1>4. CASE FollowOn
  <2>1. view \in View /\ session \in Sessions
    BY <1>0, <1>4 DEF FollowOn, Restarted, Uses
  <2>2. /\ [view EXCEPT !.followError = FALSE] \in View
        /\ SameWindows(view, [view EXCEPT !.followError = FALSE])
    BY <2>1 DEF View, SameWindows
  <2> QED
    BY <1>4, <2>1, <2>2, RestartedFrame DEF FollowOn, Ops
<1>5. CASE FollowOff
  <2>1. view \in View /\ SameWindows(view, view)
    BY <1>0, <1>5 DEF FollowOff, SameWindows
  <2>2. Stopped(view, handle)
        /\ UNCHANGED <<head, session, closed, phase, queue, reader, pin>>
    BY <1>5 DEF FollowOff
  <2> QED
    BY <2>1, <2>2, StoppedFrame
<1>6. CASE CursorMoved
  <2>1. PICK h \in TimeBounds :
          LET bound == IF view.span THEN h ELSE NoBound
              moved == [view EXCEPT !.bound = bound]
          IN IF bound # NoBound
               THEN Stopped(moved, h)
               ELSE view' = moved /\ Refreshed(following, h) /\ UNCHANGED generation
    BY <1>6 DEF CursorMoved
  <2> DEFINE bound == IF view.span THEN h ELSE NoBound
             moved == [view EXCEPT !.bound = bound]
  <2>2. view \in View
    BY <1>0, <1>6 DEF CursorMoved
  <2>3. moved \in View /\ SameWindows(view, moved) /\ moved.bound = bound
    BY <2>2 DEF View, SameWindows, TimeBounds
  <2>4. UNCHANGED <<head, session, closed, phase, queue, reader, pin>>
    BY <1>6 DEF CursorMoved
  <2>5. CASE bound # NoBound
    <3>1. Stopped(moved, h)
      BY <2>1, <2>5
    <3> HIDE DEF moved
    <3> QED
      BY <3>1, <2>2, <2>3, <2>4, StoppedFrame
  <2>6. CASE bound = NoBound
    <3>1. view' = moved /\ generation' = generation
      BY <2>1, <2>6
    <3> HIDE DEF moved, bound
    <3> QED
      BY <3>1, <2>2, <2>3, <2>4, <2>6, <1>1 DEF LoopFrame
  <2> QED
    BY <2>5, <2>6
<1>7. CASE CursorRested
  <2>1. CASE Live
    <3>1. view \in View /\ session \in Sessions /\ SameWindows(view, view)
      BY <1>0, <1>7, <2>1 DEF CursorRested, SameWindows
    <3>2. Restarted(view, "reload", following, handle)
      BY <1>7, <2>1 DEF CursorRested
    <3> QED
      BY <3>1, <3>2, RestartedFrame DEF Ops
  <2>2. CASE ~Live
    BY <1>1, <1>7, <2>2 DEF CursorRested, LoopFrame
  <2> QED
    BY <2>1, <2>2
<1>8. CASE LoadMore
  <2>0. view \in View /\ session \in Sessions /\ SameWindows(view, view)
    BY <1>0, <1>8 DEF LoadMore, Uses, SameWindows
  <2>1. CASE resting
    <3>1. Restarted(view, "reload", following, handle)
      BY <1>8, <2>1 DEF LoadMore
    <3> QED
      BY <3>1, <2>0, RestartedFrame DEF Ops
  <2>2. CASE ~resting
    <3>1. Sent("earlier", generation) /\ generation' = generation /\ generation \in Nat
      BY <1>8, <2>2 DEF LoadMore, TypeOK
    <3>2. /\ phase' \in {phase, "failed"}
          /\ \/ queue' = queue
             \/ queue' = [queue EXCEPT ![session] =
                            Append(@, [op |-> "earlier", gen |-> generation'])]
      BY <2>0, <3>1, SentFrame DEF Ops
    <3> QED
      BY <1>1, <1>8, <2>0, <2>2, <3>1, <3>2 DEF LoadMore, LoopFrame, Ops
  <2> QED
    BY <2>1, <2>2
<1>9. CASE FollowTimerStops
  <2>1. view \in View /\ SameWindows(view, view)
    BY <1>0, <1>9 DEF FollowTimerStops, SameWindows
  <2>2. Stopped(view, handle)
        /\ UNCHANGED <<head, session, closed, phase, queue, reader, pin>>
    BY <1>9 DEF FollowTimerStops
  <2> QED
    BY <2>1, <2>2, StoppedFrame
<1>10. CASE FollowTimerTicks
  <2>1. /\ Sent("tick", generation) /\ session \in Sessions /\ generation' = generation
        /\ generation \in Nat
    BY <1>10 DEF FollowTimerTicks, TypeOK
  <2>2. /\ phase' \in {phase, "failed"}
        /\ \/ queue' = queue
           \/ queue' = [queue EXCEPT ![session] =
                          Append(@, [op |-> "tick", gen |-> generation'])]
    BY <2>1, SentFrame DEF Ops
  <2> QED
    BY <1>1, <1>10, <2>1, <2>2 DEF FollowTimerTicks, LoopFrame, Ops
<1>11. CASE PostedRepaint
  BY <1>1, <1>11 DEF PostedRepaint, LoopFrame
<1>12. CASE Append1
  BY <1>1, <1>12 DEF Append1, LoopFrame, tagVars, loopVars
<1> QED
  BY <1>2, <1>3, <1>4, <1>5, <1>6, <1>7, <1>8, <1>9, <1>10, <1>11, <1>12
     DEF Pressed, Timers

\* A queued request has a generation.
LEMMA CommandGen ==
  ASSUME NEW q \in Seq(Command), NEW i \in 1..Len(q)
  PROVE  q[i].gen \in Nat
<1>1. q[i] \in Command
  OBVIOUS
<1> QED
  BY <1>1 DEF Command

\* The loop's frame keeps every request's generation in the past.
LEMMA LoopFrameTags ==
  ASSUME IInv, TypeOK', LoopFrame
  PROVE  TagsPast'
<1>1. TypeOK /\ TagsPast
  BY DEF IInv
<1>2. /\ generation \in Nat /\ generation' \in Nat /\ generation <= generation'
      /\ reader \in [Sessions -> Reader] /\ reader' = reader
      /\ queue \in [Sessions -> Seq(Command)]
  BY <1>1 DEF TypeOK, LoopFrame
<1> SUFFICES ASSUME NEW s \in Sessions
             PROVE  /\ reader'[s].gen <= generation'
                    /\ \A i \in 1..Len(queue'[s]) : queue'[s][i].gen <= generation'
  BY DEF TagsPast
<1>3. reader'[s].gen <= generation'
  BY <1>1, <1>2 DEF TagsPast, Reader
<1>4. \A i \in 1..Len(queue[s]) : queue[s][i].gen \in Nat /\ queue[s][i].gen <= generation
  <2>1. queue[s] \in Seq(Command)
    BY <1>2
  <2> QED
    BY <1>1, <2>1, CommandGen DEF TagsPast
<1>5. \A i \in 1..Len(queue[s]) : queue[s][i].gen <= generation'
  BY <1>2, <1>4
<1>6. \/ queue'[s] = queue[s]
      \/ \E op \in Ops : queue'[s] = Append(queue[s], [op |-> op, gen |-> generation'])
  BY <1>2 DEF LoopFrame
<1>7. ASSUME NEW op \in Ops, queue'[s] = Append(queue[s], [op |-> op, gen |-> generation']),
             NEW i \in 1..Len(queue'[s])
      PROVE  queue'[s][i].gen <= generation'
  <2> DEFINE q == queue[s]
             c == [op |-> op, gen |-> generation']
  <2>1. c \in Command /\ c.gen = generation' /\ q \in Seq(Command)
    BY <1>2 DEF Command
  <2> HIDE DEF c, q
  <2>2. Len(Append(q, c)) = Len(q) + 1 /\ Append(q, c)[Len(q) + 1] = c
        /\ \A j \in 1..Len(q) : Append(q, c)[j] = q[j]
    BY <2>1
  <2>3. queue'[s] = Append(q, c)
    BY <1>7 DEF c, q
  <2>4. CASE i = Len(q) + 1
    BY <1>2, <2>1, <2>2, <2>3, <2>4
  <2>5. CASE i \in 1..Len(q)
    BY <1>5, <2>2, <2>3, <2>5 DEF q
  <2> QED
    BY <2>1, <2>2, <2>3, <2>4, <2>5
<1> QED
  BY <1>3, <1>5, <1>6, <1>7

\* The loop's frame keeps the inductive invariant.
LEMMA LoopFrameInv ==
  ASSUME IInv, TypeOK', LoopFrame
  PROVE  IInv'
<1>1. TypeOK
  BY DEF IInv
<1>2. \/ view' = view
      \/ /\ view # NoView /\ view' # NoView /\ SameWindows(view, view')
         /\ generation' = generation => view'.bound = NoBound
  BY LedgerAssumption DEF LoopFrame
<1>3. /\ view' = NoView <=> view = NoView
      /\ view # NoView =>
           /\ Contiguous(view') <=> Contiguous(view)
           /\ Top(view') = Top(view) /\ (HasEarlier(view') <=> HasEarlier(view))
           /\ view'.upper = view.upper /\ view'.pin = view.pin
           /\ generation' = generation =>
                view'.bound = view.bound \/ view'.bound = NoBound
  BY <1>2, SameContiguous DEF SameWindows
<1>4. WindowsContiguous'
  BY <1>3 DEF IInv, WindowsContiguous
<1>5. TagsPast'
  BY LoopFrameTags
<1>6. ReadersPast'
  BY DEF IInv, ReadersPast, LoopFrame
<1>7. PinsReached'
  BY <1>1 DEF IInv, PinsReached, LoopFrame, TypeOK
<1>8. PhaseServed'
  BY DEF IInv, PhaseServed, LoopFrame, Serves
<1>9. ASSUME session \in Sessions PROVE PinServed(session)'
  BY <1>3, <1>9 DEF IInv, PinServed, LoopFrame, Serves
<1>10. ASSUME session \in Sessions PROVE WindowPlanned(session)'
  <2>1. reader[session].gen \in Nat /\ generation \in Nat /\ generation' \in Nat
    BY <1>1, <1>10 DEF TypeOK, Reader
  <2>2. reader[session].gen <= generation /\ generation <= generation'
    BY <1>10 DEF IInv, TagsPast, LoopFrame
  <2>3. Current(session)' => Current(session) /\ generation' = generation
    BY <2>1, <2>2 DEF Current, LoopFrame
  <2>4. (reader[session].pc \in {"read", "tickread"}) => view # NoView
    BY <1>10 DEF IInv, PinServed, Serves
  <2>5. WindowPlanned(session)
    BY <1>10 DEF IInv
  <2> QED
    BY <1>3, <2>3, <2>4, <2>5 DEF WindowPlanned, LoopFrame
<1> QED
  BY <1>4, <1>5, <1>6, <1>7, <1>8, <1>9, <1>10 DEF IInv, LoopFrame

\* A reopened and a closed window keep it.
LEMMA EndsInv ==
  ASSUME IInv, TypeOK', Reopen \/ Close
  PROVE  IInv'
<1>1. TypeOK /\ TypeOK'
  BY DEF IInv
<1>2. CASE Reopen
  <2>1. /\ session \in Sessions /\ session + 1 \in Sessions /\ session' = session + 1
        /\ generation' = generation + 1 /\ ~closed /\ closed' = closed
        /\ view' = NoView /\ head' = head /\ queue' = queue /\ pin' = pin
    BY <1>1, <1>2, LedgerAssumption
       DEF Reopen, Superseding, Uses, Sessions, TypeOK
  <2> DEFINE carry == IF view = NoView THEN DefaultFilter ELSE view.filter
  <2>2. Thread("open", carry).pc = "open" /\ Thread("open", carry).gen = 0
    BY DEF Thread
  <2>3. \/ /\ phase' = "opening"
           /\ reader' = [reader EXCEPT ![session + 1] = Thread("open", carry)]
        \/ phase' = "failed" /\ reader' = reader
    BY <1>2 DEF Reopen
  <2> HIDE DEF carry
  <2>4. reader[session + 1].pc = "none"
    BY <1>1, <2>1 DEF IInv, ReadersPast, TypeOK
  <2>5. reader'[session'].pc \in {"none", "open"}
    BY <1>1, <2>1, <2>2, <2>3, <2>4 DEF TypeOK
  <2>6. WindowsContiguous'
    BY <2>1 DEF WindowsContiguous
  <2>7. TagsPast'
    <3>1. ASSUME NEW t \in Sessions
          PROVE  /\ reader'[t].gen <= generation'
                 /\ \A i \in 1..Len(queue[t]) : queue[t][i].gen <= generation'
      <4>1. generation \in Nat /\ reader[t].gen \in Nat /\ queue[t] \in Seq(Command)
        BY <1>1 DEF TypeOK, Reader
      <4>2. \A i \in 1..Len(queue[t]) : queue[t][i].gen \in Nat
        BY <4>1, CommandGen
      <4>3. reader'[t].gen \in {0, reader[t].gen}
        BY <1>1, <2>1, <2>2, <2>3 DEF TypeOK
      <4>4. /\ reader[t].gen <= generation
            /\ \A i \in 1..Len(queue[t]) : queue[t][i].gen <= generation
        BY DEF IInv, TagsPast
      <4> QED
        BY <2>1, <4>1, <4>2, <4>3, <4>4
    <3> QED
      BY <2>1, <3>1 DEF TagsPast
  <2>8. ReadersPast'
    <3> SUFFICES ASSUME NEW t \in Sessions, t > session + 1
                 PROVE  reader'[t].pc = "none"
      BY <2>1 DEF ReadersPast
    <3>1. t > session /\ t # session + 1
      BY <2>1 DEF Sessions
    <3> QED
      BY <1>1, <2>1, <2>3, <3>1 DEF IInv, ReadersPast, TypeOK
  <2>9. PinsReached'
    BY <2>1 DEF IInv, PinsReached
  <2>10. PhaseServed'
    BY <1>1, <2>1, <2>2, <2>3 DEF PhaseServed, TypeOK
  <2>11. PinServed(session)' /\ WindowPlanned(session)'
    BY <2>5 DEF PinServed, WindowPlanned, Serves
  <2> QED
    BY <2>6, <2>7, <2>8, <2>9, <2>10, <2>11 DEF IInv
<1>3. CASE Close
  <2>1. /\ session' = session + 1 /\ generation' = generation + 1 /\ closed' = TRUE
        /\ UNCHANGED <<head, phase, view, queue, reader, pin>>
    BY <1>3 DEF Close
  <2>2. WindowsContiguous' /\ PinsReached' /\ PhaseServed'
    BY <2>1 DEF IInv, WindowsContiguous, Contiguous, Adjacent, Covers, PinsReached,
                PhaseServed
  <2>3. TagsPast'
    <3>1. ASSUME NEW t \in Sessions
          PROVE  /\ reader[t].gen <= generation'
                 /\ \A i \in 1..Len(queue[t]) : queue[t][i].gen <= generation'
      <4>1. generation \in Nat /\ reader[t].gen \in Nat /\ queue[t] \in Seq(Command)
        BY <1>1 DEF TypeOK, Reader
      <4>2. \A i \in 1..Len(queue[t]) : queue[t][i].gen \in Nat
        BY <4>1, CommandGen
      <4>3. /\ reader[t].gen <= generation
            /\ \A i \in 1..Len(queue[t]) : queue[t][i].gen <= generation
        BY DEF IInv, TagsPast
      <4> QED
        BY <2>1, <4>1, <4>2, <4>3
    <3> QED
      BY <2>1, <3>1 DEF TagsPast
  <2>4. ReadersPast'
    <3> SUFFICES ASSUME NEW t \in Sessions, t > session + 1
                 PROVE  reader[t].pc = "none"
      BY <2>1 DEF ReadersPast
    <3>1. t > session
      BY <1>1 DEF Sessions, TypeOK
    <3> QED
      BY <3>1 DEF IInv, ReadersPast
  <2>5. ASSUME session' \in Sessions
        PROVE  PinServed(session)' /\ WindowPlanned(session)'
    <3>1. reader'[session'].pc = "none"
      BY <1>1, <2>1, <2>5 DEF IInv, ReadersPast, TypeOK
    <3> QED
      BY <3>1 DEF PinServed, WindowPlanned, Serves
  <2> QED
    BY <2>2, <2>3, <2>4, <2>5 DEF IInv
<1> QED
  BY <1>2, <1>3

-----------------------------------------------------------------------------
(* The reader's steps: what each one leaves of every other reader, and of  *)
(* the window when the session is another's.                               *)
ReaderFrame(s) ==
  /\ head' = head /\ session' = session /\ generation' = generation /\ closed' = closed
  /\ reader[s].pc # "none"
  /\ \A t \in Sessions \ {s} : reader'[t] = reader[t]
  /\ reader'[s].gen <= generation
  /\ \A t \in Sessions : pin'[t] = pin[t] \/ (t = s /\ pin'[t] <= head)
  /\ \/ queue' = queue
     \/ queue[s] # <<>> /\ queue' = [queue EXCEPT ![s] = Tail(@)]
  /\ s # session => view' = view /\ phase' = phase

\* What the session's own reader leaves of the invariant.
Kept(s) ==
  /\ WindowsContiguous' /\ PinServed(s)' /\ WindowPlanned(s)'
  /\ ~closed =>
       /\ phase' = "open" => Serves(s)'
       /\ phase' = "opening" => reader'[s].pc \in {"open", "publish"}

\* A request taken leaves only past generations queued.
LEMMA TailTags ==
  ASSUME NEW q \in Seq(Command), q # <<>>, NEW g \in Nat,
         \A i \in 1..Len(q) : q[i].gen <= g
  PROVE  \A i \in 1..Len(Tail(q)) : Tail(q)[i].gen <= g
<1>1. Len(Tail(q)) = Len(q) - 1 /\ Len(q) \in Nat
  OBVIOUS
<1>2. \A i \in 1..Len(Tail(q)) : Tail(q)[i] = q[i + 1]
  OBVIOUS
<1> QED
  BY <1>1, <1>2

\* A step that keeps to the reader's frame keeps the inductive invariant.
LEMMA ReaderFrameInv ==
  ASSUME IInv, TypeOK', NEW s \in Sessions, ReaderFrame(s), s = session => Kept(s)
  PROVE  IInv'
<1>1. TypeOK
  BY DEF IInv
<1>2. TagsPast'
  <2> SUFFICES ASSUME NEW t \in Sessions
               PROVE  /\ reader'[t].gen <= generation
                      /\ \A i \in 1..Len(queue'[t]) : queue'[t][i].gen <= generation
    BY DEF TagsPast, ReaderFrame
  <2>1. /\ reader[t].gen <= generation /\ queue[t] \in Seq(Command) /\ generation \in Nat
        /\ \A i \in 1..Len(queue[t]) : queue[t][i].gen <= generation
    BY <1>1 DEF IInv, TagsPast, TypeOK
  <2>2. reader'[t].gen <= generation
    BY <2>1 DEF ReaderFrame
  <2>3. queue'[t] = queue[t] \/ (queue[t] # <<>> /\ queue'[t] = Tail(queue[t]))
    BY <1>1 DEF ReaderFrame, TypeOK
  <2> QED
    BY <2>1, <2>2, <2>3, TailTags
<1>3. ReadersPast'
  <2> SUFFICES ASSUME NEW t \in Sessions, t > session
               PROVE  reader'[t].pc = "none"
    BY DEF ReadersPast, ReaderFrame
  <2>1. reader[t].pc = "none"
    BY DEF IInv, ReadersPast
  <2> QED
    BY <2>1 DEF ReaderFrame
<1>4. PinsReached'
  BY <1>1 DEF IInv, PinsReached, ReaderFrame, TypeOK
<1>5. CASE s = session
  <2>1. Kept(s) /\ session' = session /\ closed' = closed
    BY <1>5 DEF ReaderFrame
  <2>2. WindowsContiguous' /\ PinServed(session)' /\ WindowPlanned(session)'
    BY <1>5, <2>1 DEF Kept, PinServed, WindowPlanned, Serves, Current
  <2>3. PhaseServed'
    BY <1>5, <2>1 DEF Kept, PhaseServed, Serves
  <2> QED
    BY <1>2, <1>3, <1>4, <2>1, <2>2, <2>3 DEF IInv
<1>6. CASE s # session
  <2>1. view' = view /\ phase' = phase /\ session' = session /\ closed' = closed
        /\ generation' = generation
    BY <1>6 DEF ReaderFrame
  <2>2. WindowsContiguous'
    BY <2>1 DEF IInv, WindowsContiguous, Contiguous, Adjacent, Covers
  <2>3. ASSUME session \in Sessions
        PROVE  reader'[session] = reader[session] /\ pin'[session] = pin[session]
    BY <1>6, <2>3 DEF ReaderFrame
  <2>4. PhaseServed'
    BY <2>1, <2>3 DEF IInv, PhaseServed, Serves
  <2>5. ASSUME session \in Sessions PROVE PinServed(session)' /\ WindowPlanned(session)'
    BY <2>1, <2>3, <2>5 DEF IInv, PinServed, WindowPlanned, Serves, Current, Top, HasEarlier
  <2> QED
    BY <1>2, <1>3, <1>4, <2>1, <2>2, <2>4, <2>5 DEF IInv
<1> QED
  BY <1>5, <1>6

\* Most steps of the session's reader leave the windows as they are.
LEMMA QuietKept ==
  ASSUME IInv, NEW s \in Sessions, s = session, Serves(s), closed' = closed,
         view' # NoView, SameWindows(view, view'), view'.pin = pin'[s],
         reader'[s].pc \notin {"none", "open", "publish", "ended", "read", "tickread"},
         phase' \in {phase, "open"}
  PROVE  Kept(s)
<1>1. view # NoView
  BY DEF IInv, PinServed
<1>2. WindowsContiguous'
  BY <1>1, SameContiguous DEF IInv, WindowsContiguous
<1>3. PinServed(s)' /\ WindowPlanned(s)'
  <2>1. view'.pin <= pin'[s]
    <3>1. view \in View
      BY <1>1 DEF IInv, TypeOK
    <3>2. view.pin \in Nat
      BY <3>1 DEF View
    <3> QED
      BY <3>2 DEF SameWindows
  <2> QED
    BY <2>1 DEF PinServed, WindowPlanned
<1>4. Serves(s)'
  BY DEF Serves
<1>5. ~closed => phase' # "opening"
  BY DEF IInv, PhaseServed, Serves
<1> QED
  BY <1>2, <1>3, <1>4, <1>5 DEF Kept

\* A reader that goes, or whose session another one has, leaves nothing.
LEMMA EndedKept ==
  ASSUME IInv, NEW s \in Sessions, reader'[s].pc = "ended", view' = view,
         phase' \in {"failed", "unopened"}
  PROVE  Kept(s)
BY DEF IInv, Kept, WindowsContiguous, Contiguous, Adjacent, Covers, PinServed,
       WindowPlanned, Serves

\* The rest of the frame, for a step that moves the reader alone or with its
\* own request's view.
LEMMA RestsFrame ==
  ASSUME TypeOK, NEW s \in Sessions, reader[s].pc # "none",
         NEW pc \in PCs, NEW h \in Nat, Rests(s, pc, h)
  PROVE  /\ \A t \in Sessions \ {s} : reader'[t] = reader[t]
         /\ reader'[s].pc = pc /\ reader'[s].gen <= generation
<1>1. 0 <= generation
  BY DEF TypeOK
<1> QED
  BY <1>1, RestsType

\* A reader that only goes on changes its step and nothing else.
LEMMA GoesFrame ==
  ASSUME IInv, NEW s \in Sessions, NEW pc \in PCs, Goes(s, pc)
  PROVE  /\ \A t \in Sessions \ {s} : reader'[t] = reader[t]
         /\ reader'[s].pc = pc /\ reader'[s].gen <= generation
         /\ reader'[s].moved = reader[s].moved
<1>1. TypeOK /\ reader[s].gen <= generation
  BY DEF IInv, TagsPast
<1>2. reader[s] \in Reader /\ reader'[s] = [reader[s] EXCEPT !.pc = pc]
      /\ \A t \in Sessions \ {s} : reader'[t] = reader[t]
  BY <1>1, GoesType DEF TypeOK
<1> QED
  BY <1>1, <1>2 DEF Reader

\* A request over moves only its own reader.
LEMMA OverFrame ==
  ASSUME TypeOK, NEW s \in Sessions, Over(s)
  PROVE  /\ \A t \in Sessions \ {s} : reader'[t] = reader[t]
         /\ reader'[s].pc \in {"idle", "tickend"} /\ reader'[s].gen <= generation
<1>1. 0 <= generation
  BY DEF TypeOK
<1> QED
  BY <1>1, OverType

\* Opening a face keeps the inductive invariant.
LEMMA OpeningInv ==
  ASSUME IInv, TypeOK', NEW s \in Sessions, Opening(s)
  PROVE  IInv'
<1> USE DEF loopOnly, tagVars, loopVars
<1>0. TypeOK
  BY DEF IInv
<1>1. CASE OpenRefused(s)
  <2>1. reader[s].pc # "none" /\ Rests(s, "ended", 0)
    BY <1>1 DEF OpenRefused, At
  <2>2. /\ \A t \in Sessions \ {s} : reader'[t] = reader[t]
        /\ reader'[s].pc = "ended" /\ reader'[s].gen <= generation
    BY <1>0, <2>1, RestsFrame DEF PCs
  <2>3. ReaderFrame(s)
    BY <1>1, <2>1, <2>2 DEF OpenRefused, ReaderFrame, InSession
  <2>4. s = session => Kept(s)
    BY <1>1, <2>2, EndedKept DEF OpenRefused, InSession
  <2> QED
    BY <2>3, <2>4, ReaderFrameInv
<1>2. CASE Opened(s)
  <2>1. CASE InSession(s)
    <3>1. /\ \A t \in Sessions \ {s} : reader'[t] = reader[t]
          /\ reader'[s].pc = "publish" /\ reader'[s].gen <= generation
      BY <1>2, <2>1, GoesFrame DEF Opened, PCs
    <3>2. pin' = [pin EXCEPT ![s] = head] /\ head \in Nat
      BY <1>0, <1>2, <2>1 DEF Opened, TypeOK
    <3>3. ReaderFrame(s)
      BY <1>0, <1>2, <2>1, <3>1, <3>2 DEF Opened, At, ReaderFrame, InSession, TypeOK
    <3>4. Kept(s)
      <4>1. WindowsContiguous' /\ (~closed => phase # "open")
        BY <1>2, <2>1 DEF IInv, Opened, At, InSession, PhaseServed, Serves,
                          WindowsContiguous, Contiguous, Adjacent, Covers
      <4> QED
        BY <1>2, <3>1, <4>1 DEF Kept, Opened, PinServed, WindowPlanned, Serves
    <3> QED
      BY <3>3, <3>4, ReaderFrameInv
  <2>2. CASE ~InSession(s)
    <3>1. reader[s].pc # "none" /\ Rests(s, "ended", 0)
      BY <1>2, <2>2 DEF Opened, At
    <3>2. /\ \A t \in Sessions \ {s} : reader'[t] = reader[t]
          /\ reader'[s].pc = "ended" /\ reader'[s].gen <= generation
      BY <1>0, <3>1, RestsFrame DEF PCs
    <3>3. ReaderFrame(s)
      BY <1>2, <2>2, <3>1, <3>2 DEF Opened, ReaderFrame
    <3> QED
      BY <2>2, <3>3, ReaderFrameInv DEF InSession
  <2> QED
    BY <2>1, <2>2
<1>3. CASE Publish(s)
  <2>1. CASE InSession(s)
    <3>1. PICK span \in BOOLEAN : view' = NewView(pin[s], span, reader[s].carry)
      BY <1>3, <2>1, PublishedView
    <3>2. view' \in View /\ Contiguous(view') /\ view'.pin = pin[s] /\ view' # NoView
      <4>1. pin[s] \in Nat /\ reader[s].carry \in Filters
        BY <1>0 DEF TypeOK, Reader
      <4>2. view' \in View /\ Contiguous(view')
        BY <3>1, <4>1, NewViewType
      <4>3. view'.pin = pin[s]
        BY <3>1 DEF NewView
      <4> QED
        BY <4>2, <4>3, LedgerAssumption
    <3>3. reader' = [reader EXCEPT ![s] = [Thread("plan", DefaultFilter)
                                             EXCEPT !.gen = generation]]
      BY <1>3, <2>1 DEF Publish
    <3>4. /\ \A t \in Sessions \ {s} : reader'[t] = reader[t]
          /\ reader'[s].pc = "plan" /\ reader'[s].gen <= generation
      <4>1. LET r == [Thread("plan", DefaultFilter) EXCEPT !.gen = generation]
            IN r.pc = "plan" /\ r.gen = generation
        BY DEF Thread
      <4>2. generation \in Nat /\ reader'[s] = [Thread("plan", DefaultFilter)
                                                 EXCEPT !.gen = generation]
            /\ \A t \in Sessions \ {s} : reader'[t] = reader[t]
        BY <1>0, <3>3 DEF TypeOK
      <4> QED
        BY <4>1, <4>2
    <3>5. ReaderFrame(s)
      BY <1>3, <2>1, <3>4 DEF Publish, At, ReaderFrame, InSession
    <3>6. Kept(s)
      <4>1. pin' = pin /\ phase' = "open" /\ pin[s] \in Nat
        BY <1>0, <1>3, <2>1 DEF Publish, TypeOK
      <4> QED
        BY <3>2, <3>4, <4>1 DEF Kept, WindowsContiguous, PinServed, WindowPlanned, Serves
    <3> QED
      BY <3>5, <3>6, ReaderFrameInv
  <2>2. CASE ~InSession(s)
    <3>1. reader[s].pc # "none" /\ Rests(s, "ended", 0)
      BY <1>3, <2>2 DEF Publish, At
    <3>2. /\ \A t \in Sessions \ {s} : reader'[t] = reader[t]
          /\ reader'[s].pc = "ended" /\ reader'[s].gen <= generation
      BY <1>0, <3>1, RestsFrame DEF PCs
    <3>3. ReaderFrame(s)
      BY <1>3, <2>2, <3>1, <3>2 DEF Publish, ReaderFrame
    <3> QED
      BY <2>2, <3>3, ReaderFrameInv DEF InSession
  <2> QED
    BY <2>1, <2>2
<1> QED
  BY <1>1, <1>2, <1>3 DEF Opening

\* A session's reader that serves has its view, typed and contiguous.
LEMMA ServedView ==
  ASSUME IInv, NEW s \in Sessions, s = session, Serves(s)
  PROVE  /\ view # NoView /\ view \in View /\ Contiguous(view)
         /\ reader[s].pc \notin {"repinned", "polled"} => view.pin = pin[s]
         /\ reader[s].pc # "none"
         /\ WindowPlanned(s)
<1>1. view # NoView /\ (reader[s].pc \notin {"repinned", "polled"} => view.pin = pin[s])
  BY DEF IInv, PinServed
<1>2. view \in View /\ Contiguous(view)
  BY <1>1 DEF IInv, TypeOK, WindowsContiguous
<1> QED
  BY <1>1, <1>2 DEF IInv, Serves

\* The errors, the bound and the span are no part of the windows.
LEMMA FlagsSame ==
  ASSUME NEW v \in View, NEW b
  PROVE  /\ SameWindows(v, v)
         /\ SameWindows(v, [v EXCEPT !.queryError = b])
         /\ SameWindows(v, [v EXCEPT !.followError = b])
         /\ SameWindows(v, [v EXCEPT !.span = b])
         /\ SameWindows(v, [v EXCEPT !.bound = NoBound])
BY DEF View, SameWindows

\* So does the span a read leaves.
LEMMA SpanSame ==
  ASSUME NEW s \in Sessions, view \in View, pin[s] \in Nat, SpanSet(s)
  PROVE  view' \in View /\ SameWindows(view, view')
<1>1. view' = view \/ view' = [view EXCEPT !.span = (pin[s] > 0)]
  BY DEF SpanSet
<1> QED
  BY <1>1, SpanSetType, FlagsSame

\* A step of a request that ends or goes on, and leaves the windows and the
\* face's pin alone.
LEMMA QuietInv ==
  ASSUME IInv, TypeOK', NEW s \in Sessions, s = session, Serves(s),
         reader[s].pc \notin {"repinned", "polled"},
         UNCHANGED <<head, session, generation, closed, queue, pin, phase>>,
         \A t \in Sessions \ {s} : reader'[t] = reader[t],
         reader'[s].gen <= generation,
         reader'[s].pc \notin {"none", "open", "publish", "ended", "read", "tickread"},
         view' \in View, SameWindows(view, view')
  PROVE  IInv'
<1>1. view # NoView /\ view.pin = pin[s] /\ reader[s].pc # "none"
  BY ServedView
<1>2. view'.pin = pin'[s] /\ view' # NoView
  BY <1>1, LedgerAssumption DEF SameWindows
<1>3. Kept(s)
  BY <1>2, QuietKept
<1>4. ReaderFrame(s)
  BY <1>1 DEF ReaderFrame
<1> QED
  BY <1>3, <1>4, ReaderFrameInv

\* A reload's and a fill's steps keep the inductive invariant.
LEMMA ReloadingInv ==
  ASSUME IInv, TypeOK', NEW s \in Sessions, Reloading(s)
  PROVE  IInv'
<1> USE DEF loopOnly, tagVars, loopVars
<1>0. /\ s = session /\ Current(s) /\ Serves(s)
      /\ reader[s].pc \in {"plan", "begin", "next", "read"}
  BY DEF Reloading, Plan, BeginView, ProbeFails, NextDown, Filled, LandDown, ReadFails,
         At, Current, Serves
<1>1. /\ TypeOK /\ view # NoView /\ view \in View /\ Contiguous(view)
      /\ view.pin = pin[s] /\ WindowPlanned(s) /\ reader[s].pc # "none"
      /\ reader[s].gen <= generation /\ reader[s] \in Reader
      /\ reader \in [Sessions -> Reader] /\ pin[s] \in Nat
      /\ phase # "opening" \/ closed
  BY <1>0, ServedView DEF IInv, TagsPast, TypeOK, PhaseServed, Serves
<1>2. CASE Plan(s)
  <2>1. /\ \A t \in Sessions \ {s} : reader'[t] = reader[t]
        /\ reader'[s].pc = "begin" /\ reader'[s].gen <= generation
    BY <1>1, <1>2 DEF Plan, Reader
  <2>2. view' = view
    BY <1>2 DEF Plan
  <2> QED
    BY <1>0, <1>1, <1>2, <2>1, <2>2, FlagsSame, QuietInv DEF Plan
<1>3. CASE BeginView(s)
  <2>1. /\ \A t \in Sessions \ {s} : reader'[t] = reader[t]
        /\ reader'[s].pc = "next" /\ reader'[s].gen <= generation
    BY <1>1, <1>3 DEF BeginView, Reader
  <2>2. PICK upper \in 0..pin[s] : view' = Begin(view, upper)
    BY <1>3 DEF BeginView
  <2>3. view' \in View /\ Contiguous(view') /\ view'.pin = pin[s]
    <3>1. view \in View /\ view.pin = pin[s] /\ upper \in Nat /\ upper <= view.pin
      BY <1>1, <2>2
    <3>2. QED
      BY <2>2, <3>1, BeginType
  <2>4. UNCHANGED <<head, session, generation, closed, queue, pin, phase>>
    BY <1>3 DEF BeginView
  <2>5. ReaderFrame(s)
    BY <1>0, <1>1, <2>1, <2>4 DEF ReaderFrame
  <2>6. Kept(s)
    BY <1>1, <2>1, <2>3, <2>4, LedgerAssumption
       DEF Kept, WindowsContiguous, PinServed, WindowPlanned, Serves
  <2> QED
    BY <2>5, <2>6, ReaderFrameInv
<1>4. CASE ProbeFails(s)
  <2>1. /\ \A t \in Sessions \ {s} : reader'[t] = reader[t]
        /\ reader'[s].pc \in {"idle", "tickend"} /\ reader'[s].gen <= generation
    BY <1>1, <1>4, OverFrame DEF ProbeFails
  <2>2. view' = [Begin(view, 0) EXCEPT !.queryError = TRUE]
    BY <1>4 DEF ProbeFails
  <2>3. view' \in View /\ Contiguous(view') /\ view'.pin = pin[s]
    <3>1. Begin(view, 0) \in View /\ Contiguous(Begin(view, 0)) /\ Begin(view, 0).pin = pin[s]
      BY <1>1, BeginType
    <3> DEFINE b == Begin(view, 0)
    <3> HIDE DEF b
    <3>2. SameWindows(b, [b EXCEPT !.queryError = TRUE])
          /\ [b EXCEPT !.queryError = TRUE] \in View
      BY <3>1, FlagsSame, ErrorType DEF b
    <3> QED
      BY <2>2, <3>1, <3>2, SameContiguous DEF b, SameWindows
  <2>4. UNCHANGED <<head, session, generation, closed, queue, pin, phase>>
    BY <1>4 DEF ProbeFails
  <2>5. ReaderFrame(s)
    BY <1>0, <1>1, <2>1, <2>4 DEF ReaderFrame
  <2>6. Kept(s)
    BY <1>1, <2>1, <2>3, <2>4, LedgerAssumption
       DEF Kept, WindowsContiguous, PinServed, WindowPlanned, Serves
  <2> QED
    BY <2>5, <2>6, ReaderFrameInv
<1>5. CASE NextDown(s)
  <2>1. /\ \A t \in Sessions \ {s} : reader'[t] = reader[t]
        /\ reader'[s].pc = "read" /\ reader'[s].gen <= generation
        /\ reader'[s].window = NextWindow(view)
    BY <1>1, <1>5 DEF NextDown, Reader
  <2>2. view' \in View /\ SameWindows(view, view')
    BY <1>1, <1>5, FlagsSame, ErrorType DEF NextDown
  <2>3. UNCHANGED <<head, session, generation, closed, queue, pin, phase>>
    BY <1>5 DEF NextDown
  <2>4. ReaderFrame(s)
    BY <1>0, <1>1, <2>1, <2>3 DEF ReaderFrame
  <2>5. /\ HasEarlier(view) /\ NextWindow(view).to = Top(view)
        /\ NextWindow(view).from <= NextWindow(view).to
    BY <1>1, <1>5, NextWindowType DEF NextDown
  <2>6. WindowsContiguous' /\ PinServed(s)' /\ WindowPlanned(s)'
    <3>1. Contiguous(view') /\ Top(view') = Top(view) /\ HasEarlier(view')
          /\ view'.pin = pin[s] /\ view' # NoView
      BY <1>1, <2>2, <2>5, SameContiguous, LedgerAssumption DEF SameWindows
    <3>2. WindowsContiguous'
      BY <3>1 DEF WindowsContiguous
    <3>3. PinServed(s)'
      BY <1>1, <2>3, <3>1 DEF PinServed
    <3>4. WindowPlanned(s)'
      BY <2>1, <2>5, <3>1 DEF WindowPlanned
    <3> QED
      BY <3>2, <3>3, <3>4
  <2>7. Kept(s)
    BY <1>1, <2>1, <2>3, <2>6 DEF Kept, Serves
  <2> QED
    BY <2>4, <2>7, ReaderFrameInv
<1>6. CASE Filled(s)
  <2>1. /\ \A t \in Sessions \ {s} : reader'[t] = reader[t]
        /\ reader'[s].pc \in {"idle", "tickend"} /\ reader'[s].gen <= generation
    BY <1>1, <1>6, OverFrame DEF Filled
  <2>2. view' \in View /\ SameWindows(view, view')
    BY <1>1, <1>6, FlagsSame, ErrorType DEF Filled
  <2> QED
    BY <1>0, <1>6, <2>1, <2>2, QuietInv DEF Filled
<1>7. CASE LandDown(s)
  <2>1. /\ \A t \in Sessions \ {s} : reader'[t] = reader[t]
        /\ reader'[s].pc = "next" /\ reader'[s].gen <= generation
    BY <1>1, <1>7 DEF LandDown, Reader
  <2>2. PICK density \in Densities : view' = ApplyWindow(view, reader[s].window, density)
    BY <1>7 DEF LandDown
  <2>3. /\ reader[s].window \in Window /\ HasEarlier(view)
        /\ reader[s].window.to = Top(view)
        /\ reader[s].window.from <= reader[s].window.to
    BY <1>0, <1>1, <1>7 DEF LandDown, At, WindowPlanned, Reader
  <2>4. view' \in View /\ Contiguous(view') /\ view'.pin = pin[s]
    BY <1>1, <2>2, <2>3, ApplyWindowType, ApplyWindowContiguous
  <2>5. UNCHANGED <<head, session, generation, closed, queue, pin, phase>>
    BY <1>7 DEF LandDown
  <2>6. ReaderFrame(s)
    BY <1>0, <1>1, <2>1, <2>5 DEF ReaderFrame
  <2>7. Kept(s)
    BY <1>1, <2>1, <2>4, <2>5, LedgerAssumption
       DEF Kept, WindowsContiguous, PinServed, WindowPlanned, Serves
  <2> QED
    BY <2>6, <2>7, ReaderFrameInv
<1>8. CASE ReadFails(s)
  <2>1. /\ \A t \in Sessions \ {s} : reader'[t] = reader[t]
        /\ reader'[s].pc \in {"idle", "tickend"} /\ reader'[s].gen <= generation
    BY <1>1, <1>8, OverFrame DEF ReadFails
  <2>2. view' \in View /\ SameWindows(view, view')
    BY <1>1, <1>8, FlagsSame, ErrorType DEF ReadFails
  <2> QED
    BY <1>0, <1>8, <2>1, <2>2, QuietInv DEF ReadFails
<1> QED
  BY <1>2, <1>3, <1>4, <1>5, <1>6, <1>7, <1>8 DEF Reloading

\* The steps of a new pin keep it.
LEMMA RepinningInv ==
  ASSUME IInv, TypeOK', NEW s \in Sessions, Repinning(s)
  PROVE  IInv'
<1> USE DEF loopOnly, tagVars, loopVars
<1>0. /\ reader[s].pc \in {"repin", "repinned", "polled", "atpin", "span"} /\ Serves(s)
      /\ TypeOK /\ reader[s].pc # "none" /\ reader[s] \in Reader /\ 0 <= generation
      /\ reader \in [Sessions -> Reader] /\ pin[s] \in Nat /\ reader[s].gen \in Nat
      /\ pin \in [Sessions -> Nat] /\ head \in Nat /\ pin[s] <= head
      /\ reader[s].halted \in Nat /\ reader[s].gen <= generation
  <2>1. reader[s].pc \in {"repin", "repinned", "polled", "atpin", "span"}
    BY DEF Repinning, Repin, RepinFails, Repinned, StartAtPin, SpanRead, At
  <2>2. /\ TypeOK /\ reader[s] \in Reader /\ 0 <= generation
        /\ reader \in [Sessions -> Reader] /\ pin[s] \in Nat
        /\ pin \in [Sessions -> Nat] /\ head \in Nat
    BY DEF IInv, TypeOK
  <2>3. pin[s] <= head /\ reader[s].gen <= generation
    BY DEF IInv, PinsReached, TagsPast
  <2>4. reader[s].gen \in Nat /\ reader[s].halted \in Nat
    BY <2>2 DEF Reader
  <2> QED
    BY <2>1, <2>2, <2>3, <2>4 DEF Serves
<1>1. s = session => /\ view # NoView /\ view \in View /\ Contiguous(view)
                     /\ reader[s].pc \notin {"repinned", "polled"} => view.pin = pin[s]
  BY <1>0, ServedView
<1>2. CASE Repin(s)
  <2>1. /\ \A t \in Sessions \ {s} : reader'[t] = reader[t]
        /\ reader'[s].pc = "repinned" /\ reader'[s].gen <= generation
    BY <1>2, GoesFrame DEF Repin, PCs
  <2>2. /\ s = session /\ view' = view /\ pin' = [pin EXCEPT ![s] = head]
        /\ UNCHANGED <<head, session, generation, closed, queue, phase>>
        /\ reader[s].pc = "repin"
    BY <1>2 DEF Repin, Current, At
  <2>3. pin'[s] = head /\ \A t \in Sessions \ {s} : pin'[t] = pin[t]
    BY <1>0, <2>2
  <2>4. ReaderFrame(s)
    BY <1>0, <2>1, <2>2, <2>3 DEF ReaderFrame
  <2>5. PinServed(s)'
    <3>1. view.pin = pin[s]
      BY <1>1, <2>2
    <3> QED
      BY <1>0, <1>1, <2>1, <2>2, <2>3, <3>1 DEF PinServed
  <2>6. Kept(s)
    <3>1. WindowsContiguous' /\ WindowPlanned(s)' /\ Serves(s)'
      BY <1>1, <2>1, <2>2 DEF WindowsContiguous, WindowPlanned, Serves
    <3>2. ~closed => phase' # "opening"
      BY <1>0, <2>2 DEF IInv, PhaseServed
    <3> QED
      BY <2>5, <3>1, <3>2 DEF Kept
  <2> QED
    BY <2>4, <2>6, ReaderFrameInv
<1>3. CASE RepinFails(s)
  <2>1. /\ \A t \in Sessions \ {s} : reader'[t] = reader[t]
        /\ reader'[s].pc = "idle" /\ reader'[s].gen <= generation
    BY <1>0, <1>3, RestsFrame DEF RepinFails, PCs
  <2>2. s = session /\ reader[s].pc = "repin"
    BY <1>3 DEF RepinFails, Current, At
  <2>3. view' \in View /\ SameWindows(view, view')
    BY <1>1, <1>3, <2>2, FlagsSame, ErrorType DEF RepinFails
  <2> QED
    BY <1>0, <1>3, <2>1, <2>2, <2>3, QuietInv DEF RepinFails
<1>4. CASE Repinned(s)
  <2>1. CASE InSession(s)
    <3>1. PICK pc \in {"atpin", "tickplan"} : Goes(s, pc)
      BY <1>4, <2>1 DEF Repinned
    <3>2. /\ \A t \in Sessions \ {s} : reader'[t] = reader[t]
          /\ reader'[s].pc \in {"atpin", "tickplan"} /\ reader'[s].gen <= generation
      BY <3>1, GoesFrame DEF PCs
    <3>3. /\ s = session /\ phase' = "open"
          /\ UNCHANGED <<head, session, generation, closed, queue, pin>>
          /\ reader[s].pc \in {"repinned", "polled"}
          /\ view' = (IF At(s, "repinned") \/ reader[s].moved
                        THEN SetPin(view, pin[s]) ELSE view)
      BY <1>4, <2>1 DEF Repinned, InSession
    <3>4. view \in View /\ view # NoView /\ Contiguous(view) /\ view.pin <= pin[s]
          /\ (~At(s, "repinned") /\ ~reader[s].moved => view.pin = pin[s])
      BY <1>0, <1>1, <3>3 DEF IInv, PinServed, At
    <3>5. view' \in View /\ Contiguous(view') /\ view'.pin = pin[s]
      <4>1. SetPin(view, pin[s]) \in View /\ SetPin(view, pin[s]).pin = pin[s]
        BY <1>0, <3>4 DEF SetPin, View
      <4>2. Contiguous(SetPin(view, pin[s]))
        <5>1. view.upper \in Nat /\ view.pin \in Nat
          BY <3>4 DEF View
        <5> QED
          BY <1>0, <3>4, <5>1 DEF SetPin, View, Contiguous, Adjacent, Covers
      <4> QED
        BY <3>3, <3>4, <4>1, <4>2
    <3>6. ReaderFrame(s)
      BY <1>0, <3>2, <3>3 DEF ReaderFrame
    <3>7. Kept(s)
      BY <1>0, <3>2, <3>3, <3>5, LedgerAssumption
         DEF Kept, WindowsContiguous, PinServed, WindowPlanned, Serves
    <3> QED
      BY <3>6, <3>7, ReaderFrameInv
  <2>2. CASE ~InSession(s)
    <3>1. Over(s) /\ view' = view /\ phase' = phase
          /\ UNCHANGED <<head, session, generation, closed, queue, pin>>
      BY <1>4, <2>2 DEF Repinned
    <3>2. ReaderFrame(s)
      BY <1>0, <3>1, OverFrame DEF ReaderFrame
    <3> QED
      BY <2>2, <3>2, ReaderFrameInv DEF InSession
  <2> QED
    BY <2>1, <2>2
<1>5. CASE StartAtPin(s)
  <2>1. /\ \A t \in Sessions \ {s} : reader'[t] = reader[t]
        /\ reader'[s].pc = "span" /\ reader'[s].gen <= generation
    BY <1>5, GoesFrame DEF StartAtPin, PCs
  <2>2. s = session /\ reader[s].pc = "atpin"
    BY <1>5 DEF StartAtPin, Current, At
  <2>3. view' \in View /\ SameWindows(view, view')
    BY <1>1, <1>5, <2>2, FlagsSame, ErrorType DEF StartAtPin
  <2> QED
    BY <1>0, <1>5, <2>1, <2>2, <2>3, QuietInv DEF StartAtPin
<1>6. CASE SpanRead(s)
  <2>1. /\ \A t \in Sessions \ {s} : reader'[t] = reader[t]
        /\ reader'[s].pc = "plan" /\ reader'[s].gen <= generation
    BY <1>6, GoesFrame DEF SpanRead, PCs
  <2>2. s = session /\ reader[s].pc = "span"
    BY <1>6 DEF SpanRead, Current, At
  <2>3. view' \in View /\ SameWindows(view, view')
    BY <1>0, <1>1, <1>6, <2>2, SpanSame DEF SpanRead
  <2> QED
    BY <1>0, <1>6, <2>1, <2>2, <2>3, QuietInv DEF SpanRead
<1> QED
  BY <1>2, <1>3, <1>4, <1>5, <1>6 DEF Repinning

\* A step that leaves the view alone, whoever's session it is.
LEMMA IdleInv ==
  ASSUME IInv, TypeOK', NEW s \in Sessions, Serves(s),
         reader[s].pc \notin {"repinned", "polled"},
         UNCHANGED <<head, session, generation, closed, pin, phase, view>>,
         queue' = queue \/ (queue[s] # <<>> /\ queue' = [queue EXCEPT ![s] = Tail(@)]),
         \A t \in Sessions \ {s} : reader'[t] = reader[t],
         reader'[s].gen <= generation,
         s = session => reader'[s].pc \notin {"none", "open", "publish", "ended", "read",
                                             "tickread"}
  PROVE  IInv'
<1>1. ReaderFrame(s)
  BY DEF ReaderFrame, Serves
<1>2. ASSUME s = session PROVE Kept(s)
  <2>1. view # NoView /\ view \in View /\ view.pin = pin[s] /\ SameWindows(view, view)
    BY <1>2, ServedView, FlagsSame
  <2> QED
    BY <1>2, <2>1, QuietKept
<1> QED
  BY <1>1, <1>2, ReaderFrameInv

\* A follow tick's steps keep it.
LEMMA TickingInv ==
  ASSUME IInv, TypeOK', NEW s \in Sessions, Ticking(s)
  PROVE  IInv'
<1> USE DEF loopOnly, tagVars, loopVars
<1>0. /\ reader[s].pc \in {"poll", "tickplan", "ticknext", "tickread", "tickspan", "tickend"}
      /\ Serves(s)
      /\ reader[s].pc \notin {"repinned", "polled"}
      /\ TypeOK /\ reader[s].pc # "none" /\ reader[s] \in Reader /\ 0 <= generation
      /\ reader \in [Sessions -> Reader] /\ pin[s] \in Nat /\ reader[s].gen \in Nat
      /\ pin \in [Sessions -> Nat] /\ head \in Nat /\ pin[s] <= head
      /\ reader[s].gen <= generation
  <2>1. reader[s].pc \in {"poll", "tickplan", "ticknext", "tickread", "tickspan", "tickend"}
    BY DEF Ticking, TickHalted, Poll, PollFails, TickPlan, TickNext, TickFilled, LandNewer,
           TickReadFails, TickSpan, TickEnd, At
  <2>2. /\ TypeOK /\ reader[s] \in Reader /\ 0 <= generation
        /\ reader \in [Sessions -> Reader] /\ pin[s] \in Nat
        /\ pin \in [Sessions -> Nat] /\ head \in Nat
    BY DEF IInv, TypeOK
  <2>3. pin[s] <= head /\ reader[s].gen <= generation
    BY DEF IInv, PinsReached, TagsPast
  <2>4. reader[s].gen \in Nat
    BY <2>2 DEF Reader
  <2> QED
    BY <2>1, <2>2, <2>3, <2>4 DEF Serves
<1>1. s = session => /\ view # NoView /\ view \in View /\ Contiguous(view)
                     /\ view.pin = pin[s] /\ WindowPlanned(s)
                     /\ (~closed => phase # "opening")
  BY <1>0, ServedView DEF IInv, PhaseServed
<1>2. CASE TickHalted(s)
  <2>1. /\ \A t \in Sessions \ {s} : reader'[t] = reader[t]
        /\ reader'[s].pc \in {"idle", "tickend"} /\ reader'[s].gen <= generation
    BY <1>0, <1>2, OverFrame DEF TickHalted
  <2> QED
    BY <1>0, <1>2, <2>1, IdleInv DEF TickHalted
<1>3. CASE Poll(s)
  <2>1. /\ \A t \in Sessions \ {s} : reader'[t] = reader[t]
        /\ reader'[s].pc = "polled" /\ reader'[s].gen <= generation
        /\ reader'[s].moved = (head > pin[s])
    <3> DEFINE m == head > pin[s]
               r == [reader[s] EXCEPT !.pc = "polled", !.moved = m]
    <3>1. reader' = [reader EXCEPT ![s] = r]
      BY <1>3 DEF Poll
    <3> HIDE DEF m
    <3>2. r.pc = "polled" /\ r.gen = reader[s].gen /\ r.moved = m
      BY <1>0 DEF Reader
    <3> HIDE DEF r
    <3>3. reader'[s] = r /\ \A t \in Sessions \ {s} : reader'[t] = reader[t]
      BY <1>0, <3>1
    <3> QED
      BY <1>0, <3>2, <3>3 DEF m
  <2>2. /\ s = session /\ view' = view
        /\ UNCHANGED <<head, session, generation, closed, queue, phase>>
        /\ pin' = [pin EXCEPT ![s] = IF head > @ THEN head ELSE @]
    BY <1>3 DEF Poll, Current
  <2>3. /\ pin'[s] = (IF head > pin[s] THEN head ELSE pin[s])
        /\ \A t \in Sessions \ {s} : pin'[t] = pin[t]
    BY <1>0, <2>2
  <2>4. ReaderFrame(s)
    BY <1>0, <2>1, <2>2, <2>3 DEF ReaderFrame
  <2>5. PinServed(s)'
    <3>1. view.pin = pin[s] /\ view # NoView
      BY <1>1, <2>2
    <3>2. CASE head > pin[s]
      BY <1>0, <2>1, <2>2, <2>3, <3>1, <3>2 DEF PinServed
    <3>3. CASE ~(head > pin[s])
      BY <1>0, <2>1, <2>2, <2>3, <3>1, <3>3 DEF PinServed
    <3> QED
      BY <3>2, <3>3
  <2>6. WindowsContiguous' /\ WindowPlanned(s)' /\ Serves(s)'
    BY <1>1, <2>1, <2>2 DEF WindowsContiguous, WindowPlanned, Serves
  <2>7. Kept(s)
    BY <1>1, <2>2, <2>5, <2>6 DEF Kept
  <2> QED
    BY <2>4, <2>7, ReaderFrameInv
<1>4. CASE PollFails(s)
  <2>1. /\ \A t \in Sessions \ {s} : reader'[t] = reader[t]
        /\ reader'[s].pc \in {"idle", "tickend"} /\ reader'[s].gen <= generation
    BY <1>0, <1>4, OverFrame DEF PollFails
  <2>2. s = session
    BY <1>4 DEF PollFails, Current
  <2>3. view' \in View /\ SameWindows(view, view')
    BY <1>1, <1>4, <2>2, FlagsSame, ErrorType DEF PollFails
  <2> QED
    BY <1>0, <1>4, <2>1, <2>2, <2>3, QuietInv DEF PollFails
<1>5. CASE TickPlan(s)
  <2>1. /\ \A t \in Sessions \ {s} : reader'[t] = reader[t]
        /\ reader'[s].pc \in {"ticknext", "idle", "tickend"} /\ reader'[s].gen <= generation
    BY <1>0, <1>5, OverFrame, GoesFrame DEF TickPlan, PCs
  <2>2. s = session
    BY <1>5 DEF TickPlan, Current
  <2>3. view' \in View /\ SameWindows(view, view')
    BY <1>1, <1>5, <2>2, FlagsSame, ErrorType DEF TickPlan
  <2> QED
    BY <1>0, <1>5, <2>1, <2>2, <2>3, QuietInv DEF TickPlan
<1>6. CASE TickNext(s)
  <2>1. /\ \A t \in Sessions \ {s} : reader'[t] = reader[t]
        /\ reader'[s].pc = "tickread" /\ reader'[s].gen <= generation
        /\ reader'[s].window = NextNewerWindow(view)
    BY <1>0, <1>6 DEF TickNext, Reader
  <2>2. /\ s = session /\ HasNewer(view)
        /\ UNCHANGED <<head, session, generation, closed, queue, pin, phase, view>>
    BY <1>6 DEF TickNext, Current
  <2>3. /\ NextNewerWindow(view).from = view.upper + 1
        /\ NextNewerWindow(view).from <= NextNewerWindow(view).to
        /\ NextNewerWindow(view).to <= view.pin /\ view.bound = NoBound
    BY <1>1, <2>2, NextNewerWindowType DEF HasNewer
  <2>4. ReaderFrame(s)
    BY <1>0, <2>1, <2>2 DEF ReaderFrame
  <2>5. WindowsContiguous' /\ PinServed(s)'
    BY <1>0, <1>1, <2>1, <2>2 DEF IInv, WindowsContiguous, PinServed
  <2>6. WindowPlanned(s)' /\ Serves(s)'
    BY <2>1, <2>2, <2>3 DEF WindowPlanned, Serves
  <2>7. Kept(s)
    BY <1>1, <2>2, <2>5, <2>6 DEF Kept
  <2> QED
    BY <2>4, <2>7, ReaderFrameInv
<1>7. CASE TickFilled(s)
  <2>1. /\ \A t \in Sessions \ {s} : reader'[t] = reader[t]
        /\ reader'[s].pc \in {"tickspan", "idle", "tickend"} /\ reader'[s].gen <= generation
    BY <1>0, <1>7, OverFrame, GoesFrame DEF TickFilled, PCs
  <2> QED
    BY <1>0, <1>7, <2>1, IdleInv DEF TickFilled
<1>8. CASE LandNewer(s)
  <2>1. /\ \A t \in Sessions \ {s} : reader'[t] = reader[t]
        /\ reader'[s].pc = "ticknext" /\ reader'[s].gen <= generation
    BY <1>0, <1>8 DEF LandNewer, Reader
  <2>2. /\ s = session /\ view' = ApplyNewerWindow(view, reader[s].window)
        /\ UNCHANGED <<head, session, generation, closed, queue, pin, phase>>
    BY <1>8 DEF LandNewer, Current
  <2>3. /\ reader[s].window \in Window
        /\ reader[s].window.from = view.upper + 1
        /\ reader[s].window.from <= reader[s].window.to
        /\ reader[s].window.to <= view.pin
    BY <1>0, <1>1, <1>8, <2>2 DEF LandNewer, At, WindowPlanned, Reader
  <2>4. view' \in View /\ Contiguous(view') /\ view'.pin = pin[s]
    BY <1>1, <2>2, <2>3, ApplyNewerWindowType, ApplyNewerWindowContiguous
  <2>5. ReaderFrame(s)
    BY <1>0, <2>1, <2>2 DEF ReaderFrame
  <2>6. Kept(s)
    BY <1>0, <1>1, <2>1, <2>2, <2>4, LedgerAssumption
       DEF Kept, WindowsContiguous, PinServed, WindowPlanned, Serves
  <2> QED
    BY <2>5, <2>6, ReaderFrameInv
<1>9. CASE TickReadFails(s)
  <2>1. /\ \A t \in Sessions \ {s} : reader'[t] = reader[t]
        /\ reader'[s].pc = "tickend" /\ reader'[s].gen <= generation
    BY <1>0, <1>9, RestsFrame DEF TickReadFails, PCs
  <2>2. s = session
    BY <1>9 DEF TickReadFails, Current
  <2>3. view' \in View /\ SameWindows(view, view')
    BY <1>1, <1>9, <2>2, FlagsSame, ErrorType DEF TickReadFails
  <2> QED
    BY <1>0, <1>9, <2>1, <2>2, <2>3, QuietInv DEF TickReadFails
<1>10. CASE TickEnd(s)
  <2>1. /\ \A t \in Sessions \ {s} : reader'[t] = reader[t]
        /\ reader'[s].pc = "idle" /\ reader'[s].gen <= generation
    BY <1>10, GoesFrame DEF TickEnd, PCs
  <2> QED
    BY <1>0, <1>10, <2>1, IdleInv DEF TickEnd
<1>11. CASE TickSpan(s)
  <2>1. /\ \A t \in Sessions \ {s} : reader'[t] = reader[t]
        /\ reader'[s].pc \in {"idle", "tickend"} /\ reader'[s].gen <= generation
    BY <1>0, <1>11, OverFrame DEF TickSpan
  <2>2. s = session
    BY <1>11 DEF TickSpan, Current
  <2>3. view' \in View /\ SameWindows(view, view')
    BY <1>0, <1>1, <1>11, <2>2, SpanSame DEF TickSpan
  <2> QED
    BY <1>0, <1>11, <2>1, <2>2, <2>3, QuietInv DEF TickSpan
<1> QED
  BY <1>2, <1>3, <1>4, <1>5, <1>6, <1>7, <1>8, <1>9, <1>10, <1>11 DEF Ticking

\* So does every step of a reader thread.
LEMMA ReaderInv ==
  ASSUME IInv, TypeOK', NEW s \in Sessions, Reads(s) \/ Panic(s)
  PROVE  IInv'
<1> USE DEF loopOnly, tagVars, loopVars
<1>0. /\ TypeOK /\ reader[s] \in Reader /\ reader \in [Sessions -> Reader]
      /\ queue[s] \in Seq(Command) /\ 0 <= generation
  BY DEF IInv, TypeOK
<1>1. CASE Opening(s)
  BY <1>1, OpeningInv
<1>2. CASE Take(s)
  <2>1. queue[s] # <<>> /\ Head(queue[s]) \in Command /\ Head(queue[s]) = queue[s][1]
        /\ 1 \in 1..Len(queue[s])
    BY <1>0, <1>2 DEF Take
  <2>2. Head(queue[s]).gen <= generation
    BY <2>1 DEF IInv, TagsPast
  <2>3. Start(Head(queue[s]).op) \in {"plan", "next", "poll", "repin"}
    BY DEF Start
  <2>4. /\ \A t \in Sessions \ {s} : reader'[t] = reader[t]
        /\ reader'[s].pc \in {"plan", "next", "poll", "repin"}
        /\ reader'[s].gen <= generation
    <3> DEFINE c == Head(queue[s])
               r == [reader[s] EXCEPT !.pc = Start(c.op), !.op = c.op, !.gen = c.gen,
                                      !.read = 0]
    <3>1. reader' = [reader EXCEPT ![s] = r]
      BY <1>2 DEF Take
    <3>2. r.pc = Start(c.op) /\ r.gen = c.gen
      BY <1>0 DEF Reader
    <3> HIDE DEF r
    <3>3. reader'[s] = r /\ \A t \in Sessions \ {s} : reader'[t] = reader[t]
      BY <1>0, <3>1
    <3> QED
      BY <2>2, <2>3, <3>2, <3>3
  <2>5. Serves(s) /\ reader[s].pc = "idle"
    BY <1>2 DEF Take, At, Serves
  <2> QED
    BY <1>2, <2>1, <2>4, <2>5, IdleInv DEF Take
<1>3. CASE LetGo(s)
  <2>1. /\ \A t \in Sessions \ {s} : reader'[t] = reader[t]
        /\ reader'[s].pc = "ended" /\ reader'[s].gen <= generation
    BY <1>0, <1>3, RestsFrame DEF LetGo, At, PCs
  <2>2. s # session /\ Serves(s) /\ reader[s].pc = "idle"
    BY <1>0, <1>3 DEF LetGo, At, Serves, Sessions, TypeOK
  <2> QED
    BY <1>3, <2>1, <2>2, IdleInv DEF LetGo
<1>4. CASE Superseded(s)
  <2>1. /\ \A t \in Sessions \ {s} : reader'[t] = reader[t]
        /\ reader'[s].pc \in {"idle", "tickend"} /\ reader'[s].gen <= generation
    BY <1>0, <1>4, OverFrame DEF Superseded
  <2>2. Serves(s) /\ reader[s].pc \notin {"repinned", "polled"}
    BY <1>4 DEF Superseded, Serves
  <2> QED
    BY <1>4, <2>1, <2>2, IdleInv DEF Superseded
<1>5. CASE Reloading(s)
  BY <1>5, ReloadingInv
<1>6. CASE Repinning(s)
  BY <1>6, RepinningInv
<1>7. CASE Ticking(s)
  BY <1>7, TickingInv
<1>8. CASE Panic(s)
  <2>1. reader[s].pc # "none" /\ Rests(s, "ended", 0)
    BY <1>8 DEF Panic
  <2>2. /\ \A t \in Sessions \ {s} : reader'[t] = reader[t]
        /\ reader'[s].pc = "ended" /\ reader'[s].gen <= generation
    BY <1>0, <2>1, RestsFrame DEF PCs
  <2>3. ReaderFrame(s)
    BY <1>8, <2>1, <2>2 DEF Panic, ReaderFrame, InSession
  <2>4. s = session => Kept(s)
    BY <1>8, <2>2, EndedKept DEF Panic, InSession
  <2> QED
    BY <2>3, <2>4, ReaderFrameInv
<1> QED
  BY <1>1, <1>2, <1>3, <1>4, <1>5, <1>6, <1>7, <1>8 DEF Reads

-----------------------------------------------------------------------------
(* The theorems.                                                           *)

\* The inductive invariant holds as the window opens.
LEMMA InitInv == Init => IInv
<1> SUFFICES ASSUME Init PROVE IInv
  OBVIOUS
<1>1. 1 \in Sessions
  BY LedgerAssumption DEF Sessions
<1>2. \A s \in Sessions : /\ reader[s].pc = (IF s = 1 THEN "open" ELSE "none")
                         /\ reader[s].gen = 0 /\ reader[s] \in Reader
  <2> SUFFICES ASSUME NEW s \in Sessions
               PROVE  /\ reader[s].pc = (IF s = 1 THEN "open" ELSE "none")
                      /\ reader[s].gen = 0 /\ reader[s] \in Reader
    OBVIOUS
  <2> DEFINE pc == IF s = 1 THEN "open" ELSE "none"
  <2>1. reader[s] = Thread(pc, DefaultFilter)
    BY DEF Init
  <2>2. pc \in PCs
    BY DEF PCs
  <2> HIDE DEF pc
  <2>3. DefaultFilter \in Filters
    BY LedgerAssumption
  <2>4. /\ Thread(pc, DefaultFilter) \in Reader
        /\ Thread(pc, DefaultFilter).pc = pc /\ Thread(pc, DefaultFilter).gen = 0
    BY <2>2, <2>3, ThreadType
  <2> QED
    BY <2>1, <2>4 DEF pc
<1>3. TypeOK
  <2>1. reader \in [Sessions -> Reader]
    BY <1>2 DEF Init
  <2>2. queue \in [Sessions -> Seq(Command)] /\ pin \in [Sessions -> Nat] /\ head \in Nat
    BY LedgerAssumption DEF Init
  <2> QED
    <3>1. /\ session = 1 /\ generation = 1 /\ closed = FALSE /\ phase = "opening"
          /\ follows = FALSE /\ view = NoView /\ busy = FALSE /\ effects = {}
          /\ following = FALSE /\ resting = FALSE /\ handle = NoBound
          /\ repaint = FALSE /\ tickInFlight = FALSE
      BY DEF Init
    <3>2. handle \in TimeBounds /\ phase \in Phases /\ effects \subseteq EffectNames
      BY <3>1 DEF TimeBounds, Phases
    <3>3. session \in Nat \ {0} /\ generation \in Nat \ {0}
      BY <3>1
    <3>4. /\ closed \in BOOLEAN /\ follows \in BOOLEAN /\ busy \in BOOLEAN
          /\ following \in BOOLEAN /\ resting \in BOOLEAN /\ repaint \in BOOLEAN
          /\ tickInFlight \in BOOLEAN /\ view = NoView
      BY <3>1
    <3> QED
      BY <2>1, <2>2, <3>2, <3>3, <3>4 DEF TypeOK
<1>4. WindowsContiguous
  BY DEF Init, WindowsContiguous
<1>5. TagsPast /\ ReadersPast /\ PinsReached
  <2>1. \A s \in Sessions : queue[s] = <<>> /\ pin[s] = 0
    BY DEF Init
  <2>2. session = 1 /\ generation = 1 /\ Sessions \subseteq Nat
    BY DEF Init, Sessions
  <2>3. Len(<<>>) = 0
    OBVIOUS
  <2>4. TagsPast
    <3> SUFFICES ASSUME NEW s \in Sessions
                 PROVE  /\ reader[s].gen <= generation
                        /\ \A i \in 1..Len(queue[s]) : queue[s][i].gen <= generation
      BY DEF TagsPast
    <3>1. 1..Len(queue[s]) = {}
      BY <2>1, <2>3
    <3> QED
      BY <1>2, <2>2, <3>1
  <2>5. ReadersPast
    BY <1>2, <2>2 DEF ReadersPast
  <2>6. PinsReached
    BY <1>3, <2>1 DEF PinsReached, TypeOK
  <2> QED
    BY <2>4, <2>5, <2>6
<1>6. PhaseServed /\ PinServed(session) /\ WindowPlanned(session)
  BY <1>1, <1>2 DEF Init, PhaseServed, PinServed, WindowPlanned, Serves
<1> QED
  BY <1>3, <1>4, <1>5, <1>6 DEF IInv

\* No step of the window or of a reader breaks it.
LEMMA StepInv == IInv /\ [Next]_vars => IInv'
<1> SUFFICES ASSUME IInv, [Next]_vars PROVE IInv'
  OBVIOUS
<1>1. CASE UNCHANGED vars
  BY <1>1 DEF vars, IInv, TypeOK, WindowsContiguous, Contiguous, Adjacent, Covers, TagsPast,
              ReadersPast, PinsReached, PhaseServed, PinServed, WindowPlanned, Serves,
              Current, HasEarlier, Top
<1>2. CASE Pressed \/ Timers \/ PostedRepaint \/ Append1
  <2>1. TypeOK /\ (~closed => session \in Sessions)
    BY DEF IInv, PhaseServed
  <2>2. TypeOK'
    BY <1>2, <2>1, PressedType
  <2>3. LoopFrame \/ Reopen \/ Close
    BY <1>2, <2>1, LoopStep
  <2> QED
    BY <2>2, <2>3, LoopFrameInv, EndsInv
<1>3. ASSUME NEW s \in Sessions, Reads(s) \/ Panic(s) PROVE IInv'
  <2>1. TypeOK /\ (s = session /\ Serves(s) => view \in View)
    BY ServedView DEF IInv
  <2>2. TypeOK'
    BY <1>3, <2>1, ReaderType
  <2> QED
    BY <1>3, <2>2, ReaderInv
<1> QED
  BY <1>1, <1>2, <1>3 DEF Next

\* The inductive invariant holds in every state of every window.
THEOREM Inductive == Spec => []IInv
BY InitInv, StepInv, PTL DEF Spec

\* Every variable keeps its type (the state of ledger/state.rs).
THEOREM TypeCorrect == Spec => []TypeOK
<1>1. IInv => TypeOK
  BY DEF IInv
<1> QED
  BY <1>1, Inductive, PTL

\* The windows loaded in the view leave no gap and hold no position twice.
THEOREM Contiguity == Spec => []WindowsContiguous
<1>1. IInv => WindowsContiguous
  BY DEF IInv
<1> QED
  BY <1>1, Inductive, PTL

\* The view's pin and its read face's are one, but between a read that moves
\* the face's and `repinned`.
THEOREM PinStaysInStep == Spec => []PinInStep
<1>1. IInv => PinInStep
  BY DEF IInv, PinInStep, PhaseServed, PinServed, Serves
<1> QED
  BY <1>1, Inductive, PTL

\* The send that finds no reader is never reached from an open window.
THEOREM ReaderIsThere == Spec => []OpenWindowHasReader
<1>1. IInv => OpenWindowHasReader
  BY DEF IInv, OpenWindowHasReader, PhaseServed, Serves
<1> QED
  BY <1>1, Inductive, PTL

-----------------------------------------------------------------------------
(* What a reader's step may never do.                                      *)

\* A reader's step changes no other session's reader.
LEMMA OthersStay ==
  ASSUME TypeOK, NEW t \in Sessions, Reads(t) \/ Panic(t)
  PROVE  \A s \in Sessions \ {t} : reader'[s] = reader[s]
<1> SUFFICES ASSUME NEW s \in Sessions \ {t} PROVE reader'[s] = reader[s]
  OBVIOUS
<1> USE DEF loopOnly, tagVars, loopVars
<1>0. reader \in [Sessions -> Reader]
  BY DEF TypeOK
<1>1. CASE Opening(t)
  BY <1>0, <1>1 DEF Opening, OpenRefused, Opened, Publish, Rests, Goes
<1>2. CASE Take(t) \/ LetGo(t) \/ Superseded(t)
  BY <1>0, <1>2 DEF Take, LetGo, Superseded, Over, Rests
<1>3. CASE Reloading(t)
  BY <1>0, <1>3 DEF Reloading, Plan, BeginView, ProbeFails, NextDown, Filled, LandDown,
                    ReadFails, Over, Rests
<1>4. CASE Repinning(t)
  BY <1>0, <1>4 DEF Repinning, Repin, RepinFails, Repinned, StartAtPin, SpanRead, Over,
                    Rests, Goes
<1>5. CASE Ticking(t)
  BY <1>0, <1>5 DEF Ticking, TickHalted, Poll, PollFails, TickPlan, TickNext, TickFilled,
                    LandNewer, TickReadFails, TickSpan, TickEnd, Over, Rests, Goes
<1>6. CASE Panic(t)
  BY <1>0, <1>6 DEF Panic, Rests
<1> QED
  BY <1>1, <1>2, <1>3, <1>4, <1>5, <1>6 DEF Reads

\* A step of a reader whose session was let go leaves the window alone.
LEMMA ForeignStep ==
  ASSUME TypeOK, NEW s \in Sessions, s # session, Reads(s) \/ Panic(s)
  PROVE  UNCHANGED <<phase, view, busy, effects, follows, handle>>
<1> USE DEF loopOnly, tagVars, loopVars, InSession, Current
<1>1. Over(s) => busy' = busy
  <2>1. Over(s) => busy' = (busy /\ TRUE)
    BY DEF Over
  <2>2. busy \in BOOLEAN
    BY DEF TypeOK
  <2> QED
    BY <2>1, <2>2
<1>2. CASE Opening(s)
  BY <1>2 DEF Opening, OpenRefused, Opened, Publish
<1>3. CASE Take(s) \/ LetGo(s) \/ Superseded(s)
  BY <1>1, <1>3 DEF Take, LetGo, Superseded
<1>4. CASE Reloading(s)
  BY <1>4 DEF Reloading, Plan, BeginView, ProbeFails, NextDown, Filled, LandDown, ReadFails
<1>5. CASE Repinning(s)
  BY <1>1, <1>5 DEF Repinning, Repin, RepinFails, Repinned, StartAtPin, SpanRead
<1>6. CASE TickHalted(s)
  BY <1>1, <1>6 DEF TickHalted
<1>7. CASE TickEnd(s)
  <2>1. busy' = (busy /\ TRUE) /\ busy \in BOOLEAN
    BY <1>7 DEF TickEnd, TypeOK
  <2>2. busy' = busy
    BY <2>1
  <2> QED
    BY <1>7, <2>2 DEF TickEnd
<1>8. CASE Ticking(s) /\ ~TickHalted(s) /\ ~TickEnd(s)
  BY <1>8 DEF Ticking, Poll, PollFails, TickPlan, TickNext, TickFilled, LandNewer,
              TickReadFails, TickSpan
<1>9. CASE Panic(s)
  BY <1>9 DEF Panic
<1> QED
  BY <1>2, <1>3, <1>4, <1>5, <1>6, <1>7, <1>8, <1>9 DEF Reads

\* A step of the event loop that keeps the session leaves every reader alone.
LEMMA LoopReaders ==
  ASSUME IInv, Pressed \/ Timers \/ PostedRepaint \/ Append1, session' = session
  PROVE  reader' = reader
<1>1. TypeOK /\ (~closed => session \in Sessions)
  BY DEF IInv, PhaseServed
<1>2. CASE LoopFrame
  BY <1>2 DEF LoopFrame
<1>3. CASE Reopen
  BY <1>1, <1>3 DEF Reopen, TypeOK
<1>4. CASE Close
  BY <1>4 DEF Close
<1> QED
  BY <1>1, <1>2, <1>3, <1>4, LoopStep

\* A reader whose session the window let go leaves nothing in the window.
THEOREM OldReaderIsSilent == Spec => OldReaderLeavesNothing
<1>1. ASSUME IInv, Next, NEW s \in Sessions, reader'[s] # reader[s], s # session,
             session' = session
      PROVE  UNCHANGED <<phase, view, busy, effects, follows, handle>>
  <2>1. PICK t \in Sessions : Reads(t) \/ Panic(t)
    BY <1>1, LoopReaders DEF Next
  <2>2. t = s
    BY <1>1, <2>1, OthersStay DEF IInv
  <2> QED
    BY <1>1, <2>1, <2>2, ForeignStep DEF IInv
<1>2. IInv /\ [Next]_vars
        => [\A s \in Sessions :
              (reader'[s] # reader[s] /\ s # session /\ session' = session)
                => UNCHANGED <<phase, view, busy, effects, follows, handle>>]_vars
  BY <1>1
<1> QED
  BY <1>2, Inductive, PTL DEF Spec, OldReaderLeavesNothing

\* Only a tick's window that lands takes its reader on from `tickread`.
LEMMA TickreadStep ==
  ASSUME IInv, NEW s \in Sessions, Reads(s) \/ Panic(s), reader[s].pc = "tickread",
         reader'[s].pc = "ticknext"
  PROVE  LandNewer(s)
<1> USE DEF At
<1>1. TypeOK
  BY DEF IInv
<1>2. ~Panic(s)
  <2>1. Panic(s) => reader'[s].pc = "ended"
    BY <1>1, RestsFrame DEF Panic, PCs
  <2> QED
    BY <2>1
<1>3. ~Superseded(s)
  BY <1>1, OverType DEF Superseded
<1>4. ~TickReadFails(s)
  <2>1. TickReadFails(s) => reader'[s].pc = "tickend"
    BY <1>1, RestsFrame DEF TickReadFails, PCs, TypeOK, Reader
  <2> QED
    BY <2>1
<1> QED
  BY <1>2, <1>3, <1>4
     DEF Reads, Opening, OpenRefused, Opened, Publish, Take, LetGo, Reloading, Plan,
         BeginView, ProbeFails, NextDown, Filled, LandDown, ReadFails, Repinning, Repin,
         RepinFails, Repinned, StartAtPin, SpanRead, Ticking, TickHalted, Poll, PollFails,
         TickPlan, TickNext, TickFilled, TickSpan, TickEnd

\* No newer window lands on a view under a time bound.
THEOREM BoundKeepsNewerOut == Spec => NoNewerUnderBound
<1>1. ASSUME IInv, Next, NEW s \in Sessions, At(s, "tickread"),
             reader'[s].pc = "ticknext"
      PROVE  view.bound = NoBound
  <2>1. CASE \E t \in Sessions : Reads(t) \/ Panic(t)
    <3>1. PICK t \in Sessions : Reads(t) \/ Panic(t)
      BY <2>1
    <3>2. t = s
      BY <1>1, <3>1, OthersStay DEF IInv, At
    <3>3. LandNewer(s)
      BY <1>1, <3>1, <3>2, TickreadStep DEF At
    <3>4. Current(s) /\ s = session
      BY <3>3 DEF LandNewer, Current
    <3> QED
      BY <1>1, <3>4 DEF IInv, WindowPlanned, At
  <2>2. CASE Pressed \/ Timers \/ PostedRepaint \/ Append1
    <3>1. TypeOK /\ (~closed => session \in Sessions)
      BY <1>1 DEF IInv, PhaseServed
    <3>2. LoopFrame \/ Reopen \/ Close
      BY <2>2, <3>1, LoopStep
    <3>3. reader' # reader
      BY <1>1 DEF At
    <3>4. Reopen
      BY <3>2, <3>3 DEF LoopFrame, Close
    <3>5. /\ s = session + 1
          /\ \E f : reader'[s] = Thread("open", f)
      BY <1>1, <3>1, <3>4 DEF Reopen, At, TypeOK
    <3> QED
      BY <1>1, <3>5 DEF Thread
  <2> QED
    BY <1>1, <2>1, <2>2 DEF Next
<1>2. IInv /\ [Next]_vars
        => [\A s \in Sessions :
              (At(s, "tickread") /\ reader'[s].pc = "ticknext") => view.bound = NoBound]_vars
  BY <1>1
<1> QED
  BY <1>2, Inductive, PTL DEF Spec, NoNewerUnderBound
=============================================================================
