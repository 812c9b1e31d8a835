--------------------------- MODULE Preview_proofs ---------------------------
(***************************************************************************)
(* The picture the workbench shows is a frame of the account picked, with   *)
(* what was recognized on it, for any accounts and any bounds.              *)
(*                                                                         *)
(* Whatever is under way - an order, the line followed, a frame being read, *)
(* a finding - carries the generation it was ordered under.  What is of the *)
(* generation that counts is of the account and the owner epoch the event   *)
(* loop had ordered last, which are those it shows.                         *)
(***************************************************************************)
EXTENDS Preview, SequenceTheorems, FiniteSetTheorems, WellFoundedInduction, TLAPS

(* The inductive invariant. *)

AllMarks == {p \in 1 .. Len(ledger) : ledger[p].kind = "mark"}
Frames(a) == {0} \cup FramesOf(a, Len(ledger))

Current(x) == x.generation = win.generation
\* Of the account and the owner epoch ordered last.
Ours(x) == x.account = win.sent.account /\ x.epoch = win.sent.epoch /\ x.epoch # 0

\* What the thread is to follow is what the event loop shows.
SentRight == win.sent = Target(win)

\* What was ordered was ordered under a generation.
SentOnce == win.sent # NoTarget => win.generation # 0

KnownRight == \A a \in Accounts : win.known[a].newest \in Frames(a)
AsksRight == \A ask \in asks : ask.frame \in Frames(ask.account)

OrderFits(o) ==
    /\ o.generation <= win.generation
    /\ o.what # "stop" => o.generation # 0
    /\ o.what \in {"lookup", "known"} =>
          o.epoch # 0 /\ (Current(o) => Ours(o) /\ {o.frame, o.shown} \subseteq Frames(o.account))
    /\ o.what = "offer" /\ Current(o) => o.frame \in Frames(win.sent.account)
OrdersRight == \A i \in 1 .. Len(orders) : OrderFits(orders[i])

LineFits(l) ==
    l # NoLine =>
      /\ l.generation \in 1 .. win.generation /\ l.marks \subseteq AllMarks
      /\ Current(l) => Ours(l) /\ {l.newest, l.shown, l.waiting, l.owed} \subseteq Frames(l.account)
LineRight == LineFits(line)

\* The frame the thread is about is one of the line's.
ThreadFits(t, l) ==
    t.at # "rest" =>
      /\ l # NoLine
      /\ Current(l) /\ t.at \in {"found", "foundCut", "reading"} => t.frame \in Frames(l.account)
      /\ t.at = "reading" => t.frame # 0
ThreadRight == ThreadFits(thread, line)

SeenFits(x) ==
    /\ x.generation \in 1 .. win.generation /\ x.what # "none"
    /\ Current(x) =>
         /\ Ours(x) /\ x.frame \in Frames(x.account)
         /\ x.what \in {"frame", "marks"} =>
               x.frame # 0 /\ x.marks \subseteq MarksOf(x.frame, Len(ledger))
PostsRight == \A i \in 1 .. Len(posts) : SeenFits(posts[i])

\* One post says that a frame is in the slot, as long as one is.
SlotRight ==
    /\ slot # NoFrame => slot.what = "frame" /\ SeenFits(slot)
    /\ \A i \in 1 .. Len(posts) : posts[i].what = "slot" => slot # NoFrame
    /\ \A i, j \in 1 .. Len(posts) : posts[i].what = "slot" /\ posts[j].what = "slot" => i = j

IInv == /\ TypeOK /\ SentRight /\ SentOnce /\ KnownRight /\ AsksRight /\ OrdersRight
        /\ LineRight /\ ThreadRight /\ PostsRight /\ SlotRight /\ PictureIsItsOwn

----------------------------------------------------------------------------
(* Positions. *)

\* A set of positions has a greatest.
LEMMA MaxIn ==
  ASSUME NEW n \in Nat, NEW S \in SUBSET (0 .. n), S # {}
  PROVE  Max(S) \in S
<1> DEFINE T == {n - x : x \in S}
<1>1. T \subseteq Nat /\ T # {}
  <2>1. \A x \in S : x \in 0 .. n /\ n - x \in Nat
    OBVIOUS
  <2>2. PICK x \in S : TRUE
    OBVIOUS
  <2>3. n - x \in T
    OBVIOUS
  <2> QED  BY <2>1, <2>3
<1>2. PICK m \in T : \A y \in T : <<y, m>> \notin OpToRel(<, Nat)
  <2> HIDE DEF T
  <2> QED  BY <1>1, NatLessThanWellFounded, WFMin
<1>3. \A y \in T : y >= m
  <2> SUFFICES ASSUME NEW y \in T PROVE y >= m
    OBVIOUS
  <2>1. y \in Nat /\ m \in Nat /\ <<y, m>> \notin OpToRel(<, Nat)
    BY <1>1, <1>2
  <2> QED  BY <2>1 DEF OpToRel
<1>4. PICK x \in S : m = n - x
  OBVIOUS
<1>5. \A y \in S : x >= y
  <2> SUFFICES ASSUME NEW y \in S PROVE x >= y
    OBVIOUS
  <2>1. n - y >= m
    BY <1>3
  <2> QED  BY <2>1, <1>4
<1> QED  BY <1>5 DEF Max

LEMMA LargerOf ==
  ASSUME NEW a \in Nat, NEW b \in Nat
  PROVE  Max({a, b}) \in {a, b}
<1>1. \E x \in {a, b} : \A y \in {a, b} : x >= y
  BY a >= b \/ b >= a
<1> QED  BY <1>1 DEF Max

\* The newest frame of an account up to a position of the ledger is one of its frames, or 0.
LEMMA NewestIn ==
  ASSUME TypeOK, NEW a, NEW n \in 0 .. Len(ledger)
  PROVE  Newest(a, n) \in Frames(a) /\ Newest(a, n) \in 0 .. Len(ledger)
<1>1. Len(ledger) \in Nat
  BY DEF TypeOK
<1>2. FramesOf(a, n) \subseteq FramesOf(a, Len(ledger)) /\ FramesOf(a, Len(ledger)) \subseteq 1 .. Len(ledger)
  BY <1>1 DEF FramesOf
<1>3. {0} \cup FramesOf(a, n) \in SUBSET (0 .. Len(ledger))
  BY <1>1, <1>2
<1>4. Newest(a, n) \in {0} \cup FramesOf(a, n)
  BY <1>1, <1>3, MaxIn DEF Newest
<1> QED  BY <1>2, <1>3, <1>4 DEF Frames

\* The newest of a ledger's new frames of an account.
LEMMA NewsIn ==
  ASSUME TypeOK, NEW a, NEW n \in 0 .. Len(ledger)
  PROVE  LET f == Max({0} \cup (FramesOf(a, Len(ledger)) \ 1 .. n))
         IN f \in Frames(a) /\ f \in 0 .. Len(ledger)
<1>1. Len(ledger) \in Nat
  BY DEF TypeOK
<1>2. FramesOf(a, Len(ledger)) \subseteq 1 .. Len(ledger)
  BY <1>1 DEF FramesOf
<1>3. {0} \cup (FramesOf(a, Len(ledger)) \ 1 .. n) \in SUBSET (0 .. Len(ledger))
  BY <1>1, <1>2
<1>4. Max({0} \cup (FramesOf(a, Len(ledger)) \ 1 .. n)) \in {0} \cup (FramesOf(a, Len(ledger)) \ 1 .. n)
  BY <1>1, <1>3, MaxIn
<1> QED  BY <1>2, <1>3, <1>4 DEF Frames

----------------------------------------------------------------------------
(* A line, and what it finds. *)

\* k is l further on.
Same(l, k) ==
    /\ k \in Lines(Len(ledger)) /\ LineFits(k)
    /\ k.generation = l.generation /\ k.account = l.account /\ k.epoch = l.epoch
    /\ k # NoLine

LEMMA Followed ==
  ASSUME IInv, line # NoLine
  PROVE  Same(line, line) /\ line.account \in Names /\ line.generation # 0
BY DEF IInv, TypeOK, LineRight, LineFits, Same, Lines

LEMMA NotNoLine ==
  ASSUME NEW l, l.generation # 0
  PROVE  l # NoLine
BY DEF NoLine

\* What changes of a line leaves it fit, as long as the frames it names are the account's.
LEMMA SameAs ==
  ASSUME IInv, NEW b, NEW l, Same(b, l), NEW k \in Lines(Len(ledger)),
         k.generation = l.generation, k.account = l.account, k.epoch = l.epoch,
         k.marks \subseteq AllMarks,
         Current(b) => {k.newest, k.shown, k.waiting, k.owed} \subseteq Frames(b.account)
  PROVE  Same(b, k)
<1>1. l.generation # 0 /\ l # NoLine /\ LineFits(l) /\ l.generation = b.generation
      /\ l.account = b.account /\ l.epoch = b.epoch /\ l.generation \in 1 .. win.generation
  BY DEF Same, LineFits, IInv, TypeOK, Windows
<1>2. k # NoLine
  BY <1>1, NotNoLine
<1>3. LineFits(k)
  BY <1>1 DEF LineFits, Current, Ours
<1> QED  BY <1>1, <1>2, <1>3 DEF Same

LEMMA OfferedSame ==
  ASSUME IInv, NEW b, NEW l, Same(b, l), NEW f \in 0 .. Len(ledger),
         Current(b) => f \in Frames(b.account)
  PROVE  Same(b, Offered(l, f))
<1> DEFINE newest == Max({l.newest, f})
           waiting == IF f > l.shown /\ f > l.waiting THEN f ELSE l.waiting
<1>1. l \in Lines(Len(ledger)) /\ Len(ledger) \in Nat /\ l.marks \subseteq AllMarks
      /\ l.newest \in 0 .. Len(ledger) /\ l.waiting \in 0 .. Len(ledger)
  <2>1. l \in Lines(Len(ledger)) /\ l.marks \subseteq AllMarks
    BY DEF Same, LineFits
  <2>2. Len(ledger) \in Nat
    BY DEF IInv, TypeOK
  <2> QED  BY <2>1, <2>2 DEF Lines
<1>2. newest \in {l.newest, f} /\ waiting \in {l.waiting, f}
  BY <1>1, LargerOf
<1> HIDE DEF newest, waiting
<1>3. newest \in 0 .. Len(ledger) /\ waiting \in 0 .. Len(ledger)
  BY <1>1, <1>2
<1>4. Offered(l, f) = [l EXCEPT !.newest = newest, !.waiting = waiting]
  BY DEF Offered, newest, waiting
<1>5. Offered(l, f) \in Lines(Len(ledger))
  BY <1>1, <1>3, <1>4 DEF Lines
<1>6. /\ Offered(l, f).generation = l.generation /\ Offered(l, f).account = l.account
      /\ Offered(l, f).epoch = l.epoch /\ Offered(l, f).marks = l.marks
      /\ Offered(l, f).newest = newest /\ Offered(l, f).waiting = waiting
      /\ Offered(l, f).shown = l.shown /\ Offered(l, f).owed = l.owed
  BY <1>1, <1>4 DEF Lines
<1>7. Current(b) => {l.newest, l.shown, l.waiting, l.owed} \subseteq Frames(b.account)
  BY DEF Same, LineFits, Current
<1> QED  BY <1>1, <1>2, <1>5, <1>6, <1>7, SameAs

LEMMA OverlayOf ==
  ASSUME TypeOK, NEW l, l.marks \subseteq AllMarks, NEW f
  PROVE  /\ Overlay(l, f) \subseteq MarksOf(f, Len(ledger))
         /\ Overlay(l, f) \subseteq 1 .. Len(ledger)
BY DEF Overlay, AllMarks, MarksOf, TypeOK

LEMMA ToldSame ==
  ASSUME IInv, NEW l, Same(line, l)
  PROVE  Same(line, Told(l)) /\ Told(l).shown = l.shown
<1> DEFINE told == IF l.shown = 0 THEN l.told ELSE Overlay(l, l.shown)
           marks == {p \in l.marks : ledger[p].of \in {l.shown, l.waiting}}
<1>1. l \in Lines(Len(ledger)) /\ l.marks \subseteq AllMarks /\ TypeOK
  BY DEF IInv, Same, LineFits
<1>2. told \in SUBSET (1 .. Len(ledger)) /\ marks \in SUBSET (1 .. Len(ledger)) /\ marks \subseteq AllMarks
  BY <1>1, OverlayOf DEF Lines
<1>3. Told(l) = [l EXCEPT !.told = told, !.marks = marks]
  BY <1>1 DEF Told, Kept, Lines
<1> HIDE DEF told, marks
<1>4. Told(l) \in Lines(Len(ledger))
  BY <1>1, <1>2, <1>3 DEF Lines
<1>5. /\ Told(l).generation = l.generation /\ Told(l).account = l.account
      /\ Told(l).epoch = l.epoch /\ Told(l).marks = marks
      /\ Told(l).newest = l.newest /\ Told(l).waiting = l.waiting
      /\ Told(l).shown = l.shown /\ Told(l).owed = l.owed
  BY <1>1, <1>3 DEF Lines
<1>6. Current(line) => {l.newest, l.shown, l.waiting, l.owed} \subseteq Frames(line.account)
  BY DEF Same, LineFits, Current
<1> QED  BY <1>2, <1>4, <1>5, <1>6, SameAs

\* What is posted of the line followed.
LEMMA SeenIsFit ==
  ASSUME IInv, line # NoLine,
         NEW what \in OfAccount \cup {"slot", "interrupted", "panicked"},
         NEW f \in 0 .. Len(ledger), NEW after \in 0 .. Len(ledger), NEW marks \in SUBSET (1 .. Len(ledger)),
         Current(line) => f \in Frames(line.account),
         what \in {"frame", "marks"} => f # 0 /\ marks \subseteq MarksOf(f, Len(ledger))
  PROVE  /\ Seen(what, f, after, marks) \in Seens(Len(ledger)) /\ SeenFits(Seen(what, f, after, marks))
         /\ Seen(what, f, after, marks).what = what
<1>1. line \in Lines(Len(ledger)) /\ LineFits(line)
  BY DEF IInv, TypeOK, LineRight
<1>2. Seen(what, f, after, marks) \in Seens(Len(ledger))
  BY <1>1 DEF Seen, Seens, Lines
<1>3. what # "none"
  BY DEF OfAccount
<1> QED  BY <1>1, <1>2, <1>3 DEF Seen, SeenFits, LineFits, Current, Ours

\* What may be posted now: findings of the line followed, and none of the slot.
Finds(seen) ==
    /\ seen \in Seq(Seens(Len(ledger)))
    /\ \A i \in 1 .. Len(seen) : SeenFits(seen[i]) /\ seen[i].what # "slot"

LEMMA FindsNothing == Finds(<<>>)
BY DEF Finds

LEMMA FindsOne ==
  ASSUME NEW x \in Seens(Len(ledger)), SeenFits(x), x.what # "slot"
  PROVE  Finds(<<x>>)
BY DEF Finds

LEMMA FindsBoth ==
  ASSUME NEW s, NEW r, Finds(s), Finds(r)
  PROVE  Finds(s \o r)
<1>1. /\ s \o r \in Seq(Seens(Len(ledger))) /\ Len(s \o r) = Len(s) + Len(r)
      /\ \A i \in 1 .. Len(s) + Len(r) : (s \o r)[i] = IF i <= Len(s) THEN s[i] ELSE r[i - Len(s)]
  BY ConcatProperties DEF Finds
<1> QED  BY <1>1 DEF Finds

LEMMA TellingFinds ==
  ASSUME IInv, NEW l, Same(line, l), line # NoLine
  PROVE  Finds(Telling(l))
<1>1. /\ l.marks \subseteq AllMarks /\ TypeOK /\ l.shown \in 0 .. Len(ledger)
      /\ Current(line) => l.shown \in Frames(line.account)
  BY DEF IInv, Same, LineFits, Lines, Current
<1>2. CASE l.shown # 0 /\ Overlay(l, l.shown) # l.told
  <2> DEFINE x == Seen("marks", l.shown, 0, Overlay(l, l.shown))
  <2>1. x \in Seens(Len(ledger)) /\ SeenFits(x) /\ x.what = "marks"
    <3>1. "marks" \in OfAccount \cup {"slot", "interrupted", "panicked"} /\ 0 \in 0 .. Len(ledger)
      BY <1>1 DEF OfAccount, TypeOK
    <3> QED  BY <1>1, <1>2, <3>1, OverlayOf, SeenIsFit
  <2> QED  BY <1>2, <2>1, FindsOne DEF Telling
<1>3. CASE ~(l.shown # 0 /\ Overlay(l, l.shown) # l.told)
  BY <1>3, FindsNothing DEF Telling
<1> QED  BY <1>2, <1>3

----------------------------------------------------------------------------
(* A step of the thread. *)

\* Where the thread may be, with line l before it.
GoesTo(t, l) == t \in Threads(Len(ledger)) /\ ThreadFits(t, l)

LEMMA RestingFits ==
  ASSUME IInv, NEW lane \in Nat, NEW l
  PROVE  GoesTo(Resting(lane), l) /\ Resting(lane).at = "rest" /\ Resting(lane) \in Threads(Len(ledger))
<1>1. thread \in Threads(Len(ledger)) /\ 0 \in 0 .. Len(ledger)
  BY DEF IInv, TypeOK
<1>2. Resting(lane) \in Threads(Len(ledger)) /\ Resting(lane).at = "rest"
  BY <1>1 DEF Resting, Threads
<1> QED  BY <1>2 DEF GoesTo, ThreadFits

\* The line goes on, the thread to where it may be, and findings are posted.
LEMMA ThreadKeeps ==
  ASSUME IInv, OfThread, mishaps' \in 0 .. desk.mishaps, UNCHANGED slot,
         line' \in Lines(Len(ledger)), LineFits(line'), GoesTo(thread', line'),
         NEW seen, Finds(seen), Posted(seen)
  PROVE  IInv'
<1>1. /\ UNCHANGED <<desk, epoch, ledger, orders, win, asks, slot>> /\ TypeOK
      /\ posts \in Seq(Seens(Len(ledger))) /\ seen \in Seq(Seens(Len(ledger)))
      /\ posts' = posts \o seen /\ MaxPosts \in Nat
  BY PreviewAssumption DEF OfThread, IInv, TypeOK, Finds, Posted
<1>2. /\ posts' \in Seq(Seens(Len(ledger))) /\ Len(posts') = Len(posts) + Len(seen)
      /\ \A i \in 1 .. Len(posts') : posts'[i] = IF i <= Len(posts) THEN posts[i] ELSE seen[i - Len(posts)]
  BY <1>1, ConcatProperties
<1>3. Len(posts) \in Nat /\ Len(seen) \in Nat
  BY <1>1
<1>4. TypeOK'
  BY <1>1, <1>2 DEF TypeOK, Posted, GoesTo
<1>5. \A i \in 1 .. Len(posts') :
         /\ SeenFits(posts'[i])
         /\ posts'[i].what = "slot" => i \in 1 .. Len(posts) /\ posts[i].what = "slot"
  <2> SUFFICES ASSUME NEW i \in 1 .. Len(posts')
               PROVE  /\ SeenFits(posts'[i])
                      /\ posts'[i].what = "slot" => i \in 1 .. Len(posts) /\ posts[i].what = "slot"
    OBVIOUS
  <2>1. CASE i <= Len(posts)
    <3>1. i \in 1 .. Len(posts) /\ posts'[i] = posts[i]
      BY <1>2, <1>3, <2>1
    <3> QED  BY <3>1 DEF IInv, PostsRight
  <2>2. CASE ~(i <= Len(posts))
    <3>1. i - Len(posts) \in 1 .. Len(seen) /\ posts'[i] = seen[i - Len(posts)]
      BY <1>2, <1>3, <2>2
    <3> QED  BY <3>1 DEF Finds
  <2> QED  BY <2>1, <2>2
<1>6. \A i \in 1 .. Len(posts') : posts'[i].what = "slot" => i \in 1 .. Len(posts) /\ posts[i].what = "slot"
  BY <1>5
<1>7. SentRight' /\ SentOnce' /\ KnownRight' /\ AsksRight' /\ PictureIsItsOwn'
  BY <1>1 DEF IInv, SentRight, SentOnce, KnownRight, AsksRight, PictureIsItsOwn, Target, Frames, FramesOf, MarksOf
<1>8. OrdersRight'
  BY <1>1 DEF IInv, OrdersRight, OrderFits, Current, Ours, Frames, FramesOf
<1>9. LineRight' /\ ThreadRight'
  BY <1>1 DEF LineRight, ThreadRight, ThreadFits, LineFits, GoesTo, Current, Ours, Frames, FramesOf, AllMarks
<1>10. PostsRight'
  BY <1>1, <1>5 DEF PostsRight, SeenFits, Current, Ours, Frames, FramesOf, MarksOf
<1>11. SlotRight'
  <2>1. SlotRight
    BY DEF IInv
  <2>2. slot # NoFrame => slot.what = "frame" /\ SeenFits(slot)'
    BY <1>1, <2>1 DEF SlotRight, SeenFits, Current, Ours, Frames, FramesOf, MarksOf
  <2> QED  BY <1>1, <1>6, <2>1, <2>2 DEF SlotRight
<1> QED  BY <1>4, <1>7, <1>8, <1>9, <1>10, <1>11 DEF IInv

\* As above, with the line further on and the thread at rest.
LEMMA RoundKeeps ==
  ASSUME IInv, OfThread, mishaps' \in 0 .. desk.mishaps, UNCHANGED slot, Same(line, line'),
         NEW lane \in Nat, thread' = Resting(lane), NEW seen, Finds(seen), Posted(seen)
  PROVE  IInv'
<1>1. line' \in Lines(Len(ledger)) /\ LineFits(line') /\ GoesTo(thread', line')
  BY RestingFits DEF Same
<1> QED  BY <1>1, ThreadKeeps

LEMMA MishapsRight ==
  ASSUME IInv, Mishap \/ UNCHANGED mishaps
  PROVE  mishaps' \in 0 .. desk.mishaps
<1>1. desk.mishaps \in Nat
  BY PreviewAssumption DEF IInv, TypeOK
<1> QED  BY <1>1 DEF IInv, TypeOK, Mishap

LEMMA FailingSame ==
  ASSUME IInv, NEW l, Same(line, l), NEW failing \in BOOLEAN
  PROVE  Same(line, [l EXCEPT !.failing = failing])
<1> DEFINE k == [l EXCEPT !.failing = failing]
<1>1. l \in Lines(Len(ledger)) /\ l.marks \subseteq AllMarks
      /\ (Current(line) => {l.newest, l.shown, l.waiting, l.owed} \subseteq Frames(line.account))
  BY DEF Same, LineFits, Current
<1>2. /\ k \in Lines(Len(ledger))
      /\ k.generation = l.generation /\ k.account = l.account /\ k.epoch = l.epoch
      /\ k.marks = l.marks /\ k.newest = l.newest /\ k.waiting = l.waiting
      /\ k.shown = l.shown /\ k.owed = l.owed
  BY <1>1 DEF Lines
<1> HIDE DEF k
<1>3. Same(line, k)
  BY <1>1, <1>2, SameAs
<1> QED  BY <1>3 DEF k

\* A round that stops short.
LEMMA HaltsKeeps ==
  ASSUME IInv, OfThread, mishaps' \in 0 .. desk.mishaps, line # NoLine,
         NEW lanes \in SUBSET Nat, NEW seen, Finds(seen), Halts(lanes, seen)
  PROVE  IInv'
<1>1. Same(line, line')
  BY Followed, FailingSame DEF Halts
<1>2. PICK lane \in lanes : thread' = Resting(lane)
  BY DEF Halts
<1>3. UNCHANGED slot /\ Posted(seen)
  BY DEF Halts
<1> QED  BY <1>1, <1>2, <1>3, RoundKeeps

LEMMA FoundNothing ==
  ASSUME IInv, line # NoLine, NEW what \in {"interrupted", "panicked"}
  PROVE  Finds(<<Seen(what, 0, 0, {})>>)
<1>1. 0 \in 0 .. Len(ledger) /\ {} \in SUBSET (1 .. Len(ledger)) /\ 0 \in Frames(line.account)
  BY DEF IInv, TypeOK, Frames
<1>2. what \in OfAccount \cup {"slot", "interrupted", "panicked"} /\ what \notin {"frame", "marks", "slot"}
  OBVIOUS
<1> QED  BY <1>1, <1>2, SeenIsFit, FindsOne

\* How an exchange with the Runtime fails.
Fails ==
    \/ Halts({0}, <<>>) /\ UNCHANGED mishaps
    \/ Mishap /\ Halts({0, thread.lane}, <<Seen("interrupted", 0, 0, {})>>)
    \/ Mishap /\ Halts({0}, <<Seen("panicked", 0, 0, {})>>)

LEMMA FailsKeeps ==
  ASSUME IInv, OfThread, line # NoLine, Fails
  PROVE  IInv'
<1>1. {0} \in SUBSET Nat /\ {0, thread.lane} \in SUBSET Nat
  BY DEF IInv, TypeOK, Threads
<1>2. mishaps' \in 0 .. desk.mishaps
  BY MishapsRight DEF Fails
<1>3. CASE Halts({0}, <<>>)
  BY <1>1, <1>2, <1>3, FindsNothing, HaltsKeeps
<1>4. CASE Halts({0, thread.lane}, <<Seen("interrupted", 0, 0, {})>>)
  BY <1>1, <1>2, <1>4, FoundNothing, HaltsKeeps
<1>5. CASE Halts({0}, <<Seen("panicked", 0, 0, {})>>)
  BY <1>1, <1>2, <1>5, FoundNothing, HaltsKeeps
<1> QED  BY <1>3, <1>4, <1>5 DEF Fails

\* Changes of what a line was told and where it read to.
LEMMA ReadToSame ==
  ASSUME IInv, line # NoLine, NEW looked \in BOOLEAN, NEW after \in 0 .. Len(ledger),
         NEW marks, marks \subseteq AllMarks, NEW failing \in BOOLEAN
  PROVE  Same(line, [line EXCEPT !.looked = looked, !.after = after, !.marks = @ \cup marks,
                                 !.failing = failing])
<1> DEFINE all == line.marks \cup marks
           k == [line EXCEPT !.looked = looked, !.after = after, !.marks = all, !.failing = failing]
<1>1. line \in Lines(Len(ledger)) /\ line.marks \subseteq AllMarks /\ Same(line, line)
      /\ (Current(line) => {line.newest, line.shown, line.waiting, line.owed} \subseteq Frames(line.account))
  BY Followed DEF Same, LineFits, Current
<1>2. all \in SUBSET (1 .. Len(ledger)) /\ all \subseteq AllMarks
  BY <1>1 DEF AllMarks
<1> HIDE DEF all
<1>3. /\ k \in Lines(Len(ledger))
      /\ k.generation = line.generation /\ k.account = line.account /\ k.epoch = line.epoch
      /\ k.marks = all /\ k.newest = line.newest /\ k.waiting = line.waiting
      /\ k.shown = line.shown /\ k.owed = line.owed
  BY <1>1, <1>2 DEF Lines
<1> HIDE DEF k
<1>4. Same(line, k)
  BY <1>1, <1>2, <1>3, SameAs
<1> QED  BY <1>4 DEF k, all

LEMMA EpochIsNat == ASSUME TypeOK PROVE epoch \in Nat
BY PreviewAssumption DEF TypeOK

LEMMA LookedUpKeeps ==
  ASSUME IInv, OfThread, UNCHANGED mishaps, line # NoLine,
         NEW f \in 0 .. Len(ledger), Current(line) => f \in Frames(line.account), NEW head \in 0 .. Len(ledger),
         NEW marks, marks \subseteq AllMarks, LookedUp(f, head, marks)
  PROVE  IInv'
<1> DEFINE k == [line EXCEPT !.looked = TRUE, !.after = head, !.marks = @ \cup marks, !.failing = FALSE]
           l == Offered(k, f)
<1>1. Same(line, k)
  BY ReadToSame
<1> HIDE DEF k
<1>2. Same(line, l)
  BY <1>1, OfferedSame
<1>3. /\ line' = Told(l) /\ thread' = Resting(epoch) /\ UNCHANGED slot
      /\ Posted(<<Seen("looked", f, head, {})>> \o Telling(l))
  BY DEF LookedUp, k
<1> HIDE DEF l
<1>4. Finds(<<Seen("looked", f, head, {})>>)
  <2>1. "looked" \in OfAccount \cup {"slot", "interrupted", "panicked"} /\ "looked" \notin {"frame", "marks", "slot"}
        /\ {} \in SUBSET (1 .. Len(ledger))
    BY DEF OfAccount
  <2> QED  BY <2>1, SeenIsFit, FindsOne
<1>5. Finds(<<Seen("looked", f, head, {})>> \o Telling(l))
  BY <1>2, <1>4, TellingFinds, FindsBoth
<1>6. Same(line, line') /\ epoch \in Nat /\ mishaps' \in 0 .. desk.mishaps
  BY <1>2, <1>3, ToldSame, EpochIsNat, MishapsRight DEF IInv
<1> QED  BY <1>3, <1>5, <1>6, RoundKeeps

LEMMA PolledKeeps ==
  ASSUME IInv, OfThread, UNCHANGED mishaps, line # NoLine,
         NEW f \in 0 .. Len(ledger), Current(line) => f \in Frames(line.account), NEW head \in 0 .. Len(ledger),
         NEW marks, marks \subseteq AllMarks, Polled(f, head, marks)
  PROVE  IInv'
<1> DEFINE fresh == IF f > line.newest THEN f ELSE 0
           o == Offered([line EXCEPT !.after = head], fresh)
           l == [o EXCEPT !.marks = @ \cup marks, !.failing = FALSE]
           news == IF fresh # 0 \/ line.failing THEN <<Seen("polled", fresh, head, {})>> ELSE <<>>
<1>1. /\ line' = Told(l) /\ thread' = Resting(epoch) /\ UNCHANGED slot
      /\ Posted(Telling(l) \o news)
  BY DEF Polled
<1>2. fresh \in 0 .. Len(ledger) /\ (Current(line) => fresh \in Frames(line.account))
  BY DEF Frames, IInv, TypeOK
<1>3. Same(line, l)
  <2>0. line \in Lines(Len(ledger))
    BY DEF IInv, TypeOK
  <2>1. Same(line, [line EXCEPT !.looked = line.looked, !.after = head, !.marks = @ \cup {},
                                !.failing = line.failing])
    <3>1. line.looked \in BOOLEAN /\ line.failing \in BOOLEAN /\ {} \subseteq AllMarks
      BY <2>0 DEF Lines
    <3> QED  BY <3>1, ReadToSame
  <2>2. [line EXCEPT !.looked = line.looked, !.after = head, !.marks = @ \cup {},
                     !.failing = line.failing] = [line EXCEPT !.after = head]
    BY <2>0 DEF Lines
  <2>3. Same(line, [line EXCEPT !.after = head])
    BY <2>1, <2>2
  <2>4. Same(line, o)
    BY <1>2, <2>3, OfferedSame
  <2> HIDE DEF o, fresh
  <2>5. o \in Lines(Len(ledger)) /\ o.marks \cup marks \subseteq AllMarks
        /\ (Current(line) => {o.newest, o.shown, o.waiting, o.owed} \subseteq Frames(line.account))
    BY <2>4 DEF Same, LineFits, Current
  <2>6. o.marks \cup marks \in SUBSET (1 .. Len(ledger))
    BY <2>5 DEF AllMarks
  <2> DEFINE all == o.marks \cup marks
  <2>7. l = [o EXCEPT !.marks = all, !.failing = FALSE]
    OBVIOUS
  <2> HIDE DEF all
  <2>8. /\ l \in Lines(Len(ledger))
        /\ l.generation = o.generation /\ l.account = o.account /\ l.epoch = o.epoch
        /\ l.marks = all /\ l.newest = o.newest /\ l.waiting = o.waiting
        /\ l.shown = o.shown /\ l.owed = o.owed
    <3>1. all \in SUBSET (1 .. Len(ledger))
      BY <2>6 DEF all
    <3> HIDE DEF l
    <3> QED  BY <2>5, <2>7, <3>1 DEF Lines
  <2>9. all \subseteq AllMarks
    BY <2>5 DEF all
  <2> HIDE DEF l
  <2> QED  BY <2>4, <2>5, <2>8, <2>9, SameAs
<1> HIDE DEF l, o, fresh
<1>4. Finds(news)
  <2>1. "polled" \in OfAccount \cup {"slot", "interrupted", "panicked"} /\ "polled" \notin {"frame", "marks", "slot"}
        /\ {} \in SUBSET (1 .. Len(ledger))
    BY DEF OfAccount
  <2>2. Finds(<<Seen("polled", fresh, head, {})>>)
    BY <1>2, <2>1, SeenIsFit, FindsOne
  <2> QED  BY <2>2, FindsNothing
<1>5. Finds(Telling(l) \o news)
  <2> HIDE DEF news
  <2> QED  BY <1>3, <1>4, TellingFinds, FindsBoth
<1>6. Same(line, line') /\ epoch \in Nat /\ mishaps' \in 0 .. desk.mishaps
  BY <1>1, <1>3, ToldSame, EpochIsNat, MishapsRight DEF IInv
<1> HIDE DEF news
<1> QED  BY <1>1, <1>5, <1>6, RoundKeeps

LEMMA PostedNothing ==
  ASSUME IInv, UNCHANGED posts
  PROVE  Posted(<<>>)
BY DEF IInv, TypeOK, Posted

\* The thread goes on to another page.
LEMMA GoesKeeps ==
  ASSUME IInv, OfThread, mishaps' \in 0 .. desk.mishaps, line # NoLine,
         NEW at \in {"found", "cut", "foundCut"}, NEW f \in 0 .. Len(ledger),
         Current(line) => f \in Frames(line.account), NEW upTo \in 0 .. Len(ledger), Goes(at, f, upTo)
  PROVE  IInv'
<1>1. /\ UNCHANGED <<line, posts, slot>> /\ thread \in Threads(Len(ledger)) /\ epoch \in Nat
      /\ thread' = [thread EXCEPT !.at = at, !.frame = f, !.upTo = upTo, !.lane = epoch]
  BY EpochIsNat DEF Goes, IInv, TypeOK
<1>2. line' \in Lines(Len(ledger)) /\ LineFits(line')
  BY <1>1 DEF IInv, TypeOK, LineRight
<1>3. thread' \in Threads(Len(ledger)) /\ thread'.at = at /\ thread'.frame = f
  BY <1>1 DEF Threads
<1>4. GoesTo(thread', line')
  BY <1>1, <1>3 DEF GoesTo, ThreadFits, Current
<1>5. Posted(<<>>)
  BY <1>1, PostedNothing
<1> QED  BY <1>1, <1>2, <1>4, <1>5, FindsNothing, ThreadKeeps

LEMMA LookUpNothingKeeps == IInv /\ LookUpNothing => IInv'
<1> SUFFICES ASSUME IInv, LookUpNothing PROVE IInv'
  OBVIOUS
<1>1. /\ line # NoLine /\ OfThread /\ thread.at = "rest" /\ thread \in Threads(Len(ledger))
      /\ line' = [line EXCEPT !.failing = FALSE] /\ UNCHANGED <<mishaps, thread, posts, slot>>
  BY DEF LookUpNothing, Ready, IInv, TypeOK
<1>2. Same(line, line')
  BY <1>1, Followed, FailingSame
<1>3. /\ line' \in Lines(Len(ledger)) /\ LineFits(line') /\ GoesTo(thread', line')
  BY <1>1, <1>2 DEF GoesTo, ThreadFits, Same
<1>4. Posted(<<>>) /\ mishaps' \in 0 .. desk.mishaps
  BY <1>1, PostedNothing, MishapsRight
<1> QED  BY <1>1, <1>2, <1>3, <1>4, FindsNothing, ThreadKeeps

LEMMA LookUpKeeps == IInv /\ LookUp => IInv'
<1> SUFFICES ASSUME IInv, LookUp PROVE IInv'
  OBVIOUS
<1> DEFINE f == Newest(line.account, line.after)
<1>1. line # NoLine /\ OfThread /\ line.after \in 0 .. Len(ledger) /\ TypeOK
  BY DEF LookUp, Ready, IInv, TypeOK, Lines
<1>2. f \in Frames(line.account) /\ f \in 0 .. Len(ledger)
  BY <1>1, NewestIn
<1>3. \/ UNCHANGED mishaps /\ Goes("found", f, line.after)
      \/ UNCHANGED mishaps /\ LookedUp(f, line.after, {})
      \/ Fails
  BY DEF LookUp, Exchange, Fails
<1> HIDE DEF f
<1>4. UNCHANGED mishaps => mishaps' \in 0 .. desk.mishaps
  BY MishapsRight
<1>5. {} \subseteq AllMarks
  OBVIOUS
<1> QED  BY <1>1, <1>2, <1>3, <1>4, <1>5, GoesKeeps, LookedUpKeeps, FailsKeeps

\* Where a page was found, the line is still the one it was asked for.
LEMMA FoundRight ==
  ASSUME IInv, thread.at \in {"found", "foundCut", "cut", "poll", "reading"}
  PROVE  /\ line # NoLine /\ thread.frame \in 0 .. Len(ledger) /\ thread.upTo \in 0 .. Len(ledger)
         /\ thread.at \in {"found", "foundCut", "reading"} /\ Current(line)
               => thread.frame \in Frames(line.account)
BY DEF IInv, TypeOK, ThreadRight, ThreadFits, Threads

LEMMA MarksAre ==
  ASSUME TypeOK, NEW f, NEW n \in 0 .. Len(ledger)
  PROVE  MarksOf(f, n) \subseteq AllMarks
<1>1. Len(ledger) \in Nat
  BY DEF TypeOK
<1> QED  BY <1>1 DEF MarksOf, AllMarks

LEMMA MarkPageKeeps == IInv /\ MarkPage => IInv'
<1> SUFFICES ASSUME IInv, MarkPage PROVE IInv'
  OBVIOUS
<1> DEFINE marks == MarksOf(thread.frame, thread.upTo)
<1>1. thread.at = "found" /\ OfThread /\ TypeOK
  BY DEF MarkPage, IInv
<1>2. /\ line # NoLine /\ thread.frame \in 0 .. Len(ledger) /\ thread.upTo \in 0 .. Len(ledger)
      /\ Current(line) => thread.frame \in Frames(line.account)
  BY <1>1, FoundRight
<1>3. marks \subseteq AllMarks
  BY <1>1, <1>2, MarksAre
<1>4. \/ UNCHANGED mishaps /\ LookedUp(thread.frame, thread.upTo, marks)
      \/ Fails
  BY DEF MarkPage, Exchange, Fails
<1> HIDE DEF marks
<1> QED  BY <1>1, <1>2, <1>3, <1>4, LookedUpKeeps, FailsKeeps

LEMMA MarkPageAgainKeeps == IInv /\ MarkPageAgain => IInv'
<1> SUFFICES ASSUME IInv, MarkPageAgain PROVE IInv'
  OBVIOUS
<1> DEFINE marks == MarksOf(thread.frame, thread.upTo)
<1>1. thread.at = "foundCut" /\ OfThread /\ TypeOK
  BY DEF MarkPageAgain, IInv
<1>2. /\ line # NoLine /\ thread.frame \in 0 .. Len(ledger) /\ thread.upTo \in 0 .. Len(ledger)
      /\ Current(line) => thread.frame \in Frames(line.account)
  BY <1>1, FoundRight
<1>3. marks \subseteq AllMarks
  BY <1>1, <1>2, MarksAre
<1>4. \/ UNCHANGED mishaps /\ Polled(thread.frame, thread.upTo, marks)
      \/ Fails
  BY DEF MarkPageAgain, Exchange, Fails
<1> HIDE DEF marks
<1> QED  BY <1>1, <1>2, <1>3, <1>4, PolledKeeps, FailsKeeps

LEMMA PollAgainKeeps == IInv /\ PollAgain => IInv'
<1> SUFFICES ASSUME IInv, PollAgain PROVE IInv'
  OBVIOUS
<1> DEFINE f == Newest(line.account, thread.upTo)
<1>1. thread.at = "cut" /\ OfThread /\ TypeOK
  BY DEF PollAgain, IInv
<1>2. line # NoLine /\ thread.upTo \in 0 .. Len(ledger)
  BY <1>1, FoundRight
<1>3. f \in Frames(line.account) /\ f \in 0 .. Len(ledger)
  BY <1>1, <1>2, NewestIn
<1>4. \/ UNCHANGED mishaps /\ Goes("foundCut", f, thread.upTo)
      \/ UNCHANGED mishaps /\ Polled(f, thread.upTo, {})
      \/ Fails
  BY DEF PollAgain, Exchange, Fails
<1> HIDE DEF f
<1>5. UNCHANGED mishaps => mishaps' \in 0 .. desk.mishaps
  BY MishapsRight
<1>6. {} \subseteq AllMarks
  OBVIOUS
<1> QED  BY <1>1, <1>2, <1>3, <1>4, <1>5, <1>6, GoesKeeps, PolledKeeps, FailsKeeps

LEMMA PollKeeps == IInv /\ Poll => IInv'
<1> SUFFICES ASSUME IInv, Poll PROVE IInv'
  OBVIOUS
<1> DEFINE all == UNION {MarksOf(f, Len(ledger)) : f \in FramesOf(line.account, Len(ledger))}
           marks == all \ 1 .. line.after
           news == FramesOf(line.account, Len(ledger)) \ 1 .. line.after
           newest == Max({0} \cup news)
<1>1. OfThread /\ TypeOK /\ Len(ledger) \in 0 .. Len(ledger) /\ 0 \in 0 .. Len(ledger)
  BY DEF Poll, IInv, TypeOK
<1>2. line # NoLine
  BY FoundRight DEF Poll, Ready
<1>3. newest \in Frames(line.account) /\ newest \in 0 .. Len(ledger)
  <2>1. line.after \in 0 .. Len(ledger)
    BY <1>1 DEF TypeOK, Lines
  <2> QED  BY <1>1, <2>1, NewsIn
<1>4. marks \subseteq AllMarks
  BY <1>1, MarksAre
<1>5. \/ UNCHANGED mishaps /\ Polled(newest, Len(ledger), marks)
      \/ Fails
      \/ Mishap /\ Goes("cut", 0, Len(ledger))
  BY DEF Poll, Exchange, Fails
<1>6. Mishap => mishaps' \in 0 .. desk.mishaps
  BY MishapsRight
<1>7. 0 \in Frames(line.account)
  BY DEF Frames
<1> HIDE DEF marks, newest
<1> QED  BY <1>1, <1>2, <1>3, <1>4, <1>5, <1>6, <1>7, GoesKeeps, PolledKeeps, FailsKeeps

LEMMA OwedPageKeeps == IInv /\ OwedPage => IInv'
<1> SUFFICES ASSUME IInv, OwedPage PROVE IInv'
  OBVIOUS
<1> DEFINE marks == MarksOf(line.owed, line.after)
           all == line.marks \cup marks
           l == [line EXCEPT !.marks = all, !.owed = 0]
<1>1. /\ line # NoLine /\ OfThread /\ TypeOK /\ line \in Lines(Len(ledger)) /\ line.after \in 0 .. Len(ledger)
      /\ line.marks \subseteq AllMarks /\ Same(line, line)
      /\ Current(line) => {line.newest, line.shown, line.waiting, line.owed} \subseteq Frames(line.account)
  BY Followed DEF OwedPage, Ready, IInv, TypeOK, LineRight, LineFits, Lines
<1>2. marks \subseteq AllMarks
  BY <1>1, MarksAre
<1>3. \/ /\ UNCHANGED mishaps /\ line' = Told(l) /\ Posted(Telling(l)) /\ UNCHANGED slot
         /\ thread' = [thread EXCEPT !.at = "poll", !.lane = epoch]
      \/ Fails
  BY DEF OwedPage, Exchange, Fails
<1>4. all \in SUBSET (1 .. Len(ledger)) /\ all \subseteq AllMarks
  BY <1>1, <1>2 DEF AllMarks
<1>5. 0 \in Frames(line.account) /\ 0 \in 0 .. Len(ledger)
  BY <1>1 DEF Frames, TypeOK
<1> HIDE DEF all
<1>6. /\ l \in Lines(Len(ledger))
      /\ l.generation = line.generation /\ l.account = line.account /\ l.epoch = line.epoch
      /\ l.marks = all /\ l.newest = line.newest /\ l.waiting = line.waiting
      /\ l.shown = line.shown /\ l.owed = 0
  BY <1>1, <1>4, <1>5 DEF Lines
<1> HIDE DEF l, marks
<1>7. Same(line, l)
  BY <1>1, <1>4, <1>5, <1>6, SameAs
<1>8. CASE /\ UNCHANGED mishaps /\ line' = Told(l) /\ Posted(Telling(l)) /\ UNCHANGED slot
           /\ thread' = [thread EXCEPT !.at = "poll", !.lane = epoch]
  <2>1. Same(line, line') /\ Finds(Telling(l)) /\ mishaps' \in 0 .. desk.mishaps
    BY <1>1, <1>7, <1>8, ToldSame, TellingFinds, MishapsRight
  <2>2. thread' \in Threads(Len(ledger)) /\ thread'.at = "poll"
    BY <1>1, <1>8, EpochIsNat DEF TypeOK, Threads
  <2>3. line' \in Lines(Len(ledger)) /\ LineFits(line') /\ GoesTo(thread', line')
    BY <2>1, <2>2 DEF Same, GoesTo, ThreadFits
  <2> QED  BY <1>1, <1>8, <2>1, <2>3, ThreadKeeps
<1> QED  BY <1>1, <1>3, <1>8, FailsKeeps

\* The frame that waited waits no more, or another does.
LEMMA WaitingSame ==
  ASSUME IInv, line # NoLine, NEW f \in 0 .. Len(ledger), Current(line) => f \in Frames(line.account)
  PROVE  Same(line, [line EXCEPT !.waiting = f])
<1> DEFINE k == [line EXCEPT !.waiting = f]
<1>1. line \in Lines(Len(ledger)) /\ line.marks \subseteq AllMarks /\ Same(line, line)
      /\ (Current(line) => {line.newest, line.shown, line.waiting, line.owed} \subseteq Frames(line.account))
  BY Followed DEF Same, LineFits, Current
<1>2. /\ k \in Lines(Len(ledger))
      /\ k.generation = line.generation /\ k.account = line.account /\ k.epoch = line.epoch
      /\ k.marks = line.marks /\ k.newest = line.newest /\ k.waiting = f
      /\ k.shown = line.shown /\ k.owed = line.owed
  BY <1>1 DEF Lines
<1> HIDE DEF k
<1>3. Same(line, k)
  BY <1>1, <1>2, SameAs
<1> QED  BY <1>3 DEF k

LEMMA NoneWaits ==
  ASSUME IInv
  PROVE  0 \in 0 .. Len(ledger) /\ 0 \in Frames(line.account)
BY DEF IInv, TypeOK, Frames

LEMMA BeginReadKeeps == IInv /\ BeginRead => IInv'
<1> SUFFICES ASSUME IInv, BeginRead PROVE IInv'
  OBVIOUS
<1>1. /\ line # NoLine /\ OfThread /\ line \in Lines(Len(ledger)) /\ line.waiting # 0
      /\ thread.at = "rest" /\ thread \in Threads(Len(ledger)) /\ epoch \in Nat
      /\ Current(line) => line.waiting \in Frames(line.account)
  BY EpochIsNat DEF BeginRead, Ready, IInv, TypeOK, LineRight, LineFits
<1>2. Same(line, [line EXCEPT !.waiting = 0])
  BY <1>1, NoneWaits, WaitingSame
<1>3. CASE line' = [line EXCEPT !.waiting = 0] /\ UNCHANGED <<mishaps, thread, posts, slot>>
  <2>1. line' \in Lines(Len(ledger)) /\ LineFits(line')
    BY <1>2, <1>3 DEF Same
  <2>2. GoesTo(thread', line')
    BY <1>1, <1>3 DEF GoesTo, ThreadFits
  <2>3. Posted(<<>>) /\ mishaps' \in 0 .. desk.mishaps
    BY <1>3, PostedNothing, MishapsRight
  <2> QED  BY <1>1, <1>3, <2>1, <2>2, <2>3, FindsNothing, ThreadKeeps
<1>4. CASE /\ thread' = [Resting(IF thread.lane = 0 THEN epoch ELSE thread.lane)
                           EXCEPT !.at = "reading", !.frame = line.waiting]
           /\ line' = [line EXCEPT !.waiting = 0] /\ UNCHANGED <<mishaps, posts, slot>>
  <2> DEFINE lane == IF thread.lane = 0 THEN epoch ELSE thread.lane
  <2>1. line' \in Lines(Len(ledger)) /\ LineFits(line') /\ line' # NoLine
        /\ line'.generation = line.generation /\ line'.account = line.account
    BY <1>2, <1>4 DEF Same
  <2>2. lane \in Nat /\ line.waiting \in 0 .. Len(ledger)
    BY <1>1 DEF Threads, Lines
  <2> HIDE DEF lane
  <2>3. Resting(lane) \in Threads(Len(ledger))
    BY <2>2, RestingFits
  <2>4. thread' = [Resting(lane) EXCEPT !.at = "reading", !.frame = line.waiting]
    BY <1>4 DEF lane
  <2>5. thread' \in Threads(Len(ledger)) /\ thread'.frame = line.waiting
    BY <2>2, <2>3, <2>4 DEF Threads
  <2>6. GoesTo(thread', line')
    BY <1>1, <2>1, <2>5 DEF GoesTo, ThreadFits, Current
  <2>7. Posted(<<>>) /\ mishaps' \in 0 .. desk.mishaps
    BY <1>4, PostedNothing, MishapsRight
  <2> QED  BY <1>1, <1>4, <2>1, <2>6, <2>7, FindsNothing, ThreadKeeps
<1>5. CASE Mishap /\ Halts({0}, <<Seen("interrupted", 0, 0, {})>>)
  <2>1. mishaps' \in 0 .. desk.mishaps /\ Finds(<<Seen("interrupted", 0, 0, {})>>) /\ {0} \in SUBSET Nat
    BY <1>1, <1>5, MishapsRight, FoundNothing
  <2> QED  BY <1>1, <1>5, <2>1, HaltsKeeps
<1> QED  BY <1>3, <1>4, <1>5 DEF BeginRead

\* A read that brings nothing to show leaves the thread at rest, on the line it was on or
\* with the frame waiting again, and may tell of it.
LEMMA ReadEnds ==
  ASSUME IInv, OfThread, mishaps' \in 0 .. desk.mishaps, UNCHANGED slot, Same(line, line'),
         thread' \in Threads(Len(ledger)), thread'.at = "rest", NEW seen, Finds(seen), Posted(seen)
  PROVE  IInv'
<1>1. line' \in Lines(Len(ledger)) /\ LineFits(line') /\ GoesTo(thread', line')
  BY DEF Same, GoesTo, ThreadFits
<1> QED  BY <1>1, ThreadKeeps

LEMMA UnreadableKeeps ==
  ASSUME IInv, OfThread, mishaps' \in 0 .. desk.mishaps, line # NoLine,
         NEW f \in 0 .. Len(ledger), Current(line) => f \in Frames(line.account),
         NEW lanes \in SUBSET Nat, Unreadable(f, lanes)
  PROVE  IInv'
<1>1. PICK lane \in lanes : thread' = [Resting(lane) EXCEPT !.failed = @ \cup {f}]
  BY DEF Unreadable
<1>2. Resting(lane) \in Threads(Len(ledger)) /\ Resting(lane).at = "rest"
  BY RestingFits
<1>3. thread' \in Threads(Len(ledger)) /\ thread'.at = "rest"
  BY <1>1, <1>2 DEF Threads
<1>4. Same(line, line') /\ UNCHANGED slot /\ Posted(<<Seen("unreadable", f, 0, {})>>)
  BY Followed DEF Unreadable
<1>5. Finds(<<Seen("unreadable", f, 0, {})>>)
  <2>1. "unreadable" \in OfAccount \cup {"slot", "interrupted", "panicked"}
        /\ "unreadable" \notin {"frame", "marks", "slot"}
        /\ {} \in SUBSET (1 .. Len(ledger)) /\ 0 \in 0 .. Len(ledger)
    BY NoneWaits DEF OfAccount
  <2> QED  BY <2>1, SeenIsFit, FindsOne
<1> QED  BY <1>3, <1>4, <1>5, ReadEnds

\* A frame is handed over with what was recognized on it; a post says so unless one does.
LEMMA ShowsKeeps ==
  ASSUME IInv, OfThread, UNCHANGED mishaps, line # NoLine, thread.at = "reading", Shows(thread.frame)
  PROVE  IInv'
<1> DEFINE f == thread.frame
           over == Overlay(line, f)
           shown == [line EXCEPT !.shown = f, !.told = over]
           marks == {p \in line.marks : ledger[p].of \in {f, line.waiting}}
<1>1. /\ line \in Lines(Len(ledger)) /\ TypeOK /\ Len(ledger) \in Nat /\ Same(line, line)
      /\ line.marks \subseteq AllMarks /\ f \in 0 .. Len(ledger) /\ f # 0
      /\ Current(line) => {line.newest, line.shown, line.waiting, line.owed, f} \subseteq Frames(line.account)
  BY Followed DEF IInv, TypeOK, LineRight, LineFits, ThreadRight, ThreadFits, Threads
<1>2. over \subseteq MarksOf(f, Len(ledger)) /\ over \in SUBSET (1 .. Len(ledger))
  BY <1>1, OverlayOf
<1>3. marks \in SUBSET (1 .. Len(ledger)) /\ marks \subseteq AllMarks
  BY <1>1 DEF Lines
<1>4. /\ line' = [line EXCEPT !.shown = f, !.told = over, !.marks = marks]
      /\ slot' = Seen("frame", f, 0, over)
      /\ Posted(IF slot = NoFrame THEN <<Seen("slot", 0, 0, {})>> ELSE <<>>)
      /\ thread' = Resting(thread.lane)
  BY <1>1 DEF Shows, HandedOver, Kept, Lines
<1> HIDE DEF over, marks, f
<1>5. /\ line' \in Lines(Len(ledger))
      /\ line'.generation = line.generation /\ line'.account = line.account /\ line'.epoch = line.epoch
      /\ line'.marks = marks /\ line'.newest = line.newest /\ line'.waiting = line.waiting
      /\ line'.shown = f /\ line'.owed = line.owed
  BY <1>1, <1>2, <1>3, <1>4 DEF Lines
<1>6. Same(line, line')
  BY <1>1, <1>3, <1>5, SameAs
<1>7. slot' \in Seens(Len(ledger)) /\ SeenFits(slot') /\ slot'.what = "frame" /\ slot' # NoFrame
  <2>1. "frame" \in OfAccount \cup {"slot", "interrupted", "panicked"} /\ 0 \in 0 .. Len(ledger)
    BY <1>1 DEF OfAccount
  <2>2. Seen("frame", f, 0, over) \in Seens(Len(ledger)) /\ SeenFits(Seen("frame", f, 0, over))
        /\ Seen("frame", f, 0, over).what = "frame"
    BY <1>1, <1>2, <2>1, SeenIsFit
  <2> QED  BY <1>4, <2>2 DEF NoFrame
<1>8. /\ posts' \in Seq(Seens(Len(ledger))) /\ Len(posts') <= MaxPosts
      /\ \A i \in 1 .. Len(posts') : SeenFits(posts'[i])
      /\ \A i, j \in 1 .. Len(posts') : posts'[i].what = "slot" /\ posts'[j].what = "slot" => i = j
  <2> DEFINE x == Seen("slot", 0, 0, {})
  <2>1. /\ posts \in Seq(Seens(Len(ledger))) /\ Len(posts) <= MaxPosts /\ PostsRight /\ SlotRight
        /\ Len(posts) \in Nat
    BY DEF IInv, TypeOK
  <2>2. x \in Seens(Len(ledger)) /\ SeenFits(x)
    <3>1. "slot" \in OfAccount \cup {"slot", "interrupted", "panicked"} /\ "slot" \notin {"frame", "marks"}
          /\ {} \in SUBSET (1 .. Len(ledger)) /\ 0 \in 0 .. Len(ledger) /\ 0 \in Frames(line.account)
      BY NoneWaits
    <3> QED  BY <3>1, SeenIsFit
  <2> HIDE DEF x
  <2>3. CASE slot = NoFrame
    <3>1. posts' = Append(posts, x) /\ Len(posts) + 1 <= MaxPosts
      BY <1>4, <2>1, <2>2, <2>3, AppendIsConcat DEF Posted, x
    <3>2. /\ posts' \in Seq(Seens(Len(ledger))) /\ Len(posts') = Len(posts) + 1
          /\ \A i \in 1 .. Len(posts') : posts'[i] = IF i <= Len(posts) THEN posts[i] ELSE x
      BY <2>1, <2>2, <3>1
    <3>3. \A i \in 1 .. Len(posts) : posts[i].what # "slot"
      BY <2>1, <2>3 DEF SlotRight
    <3>4. \A i \in 1 .. Len(posts') : SeenFits(posts'[i])
      BY <2>1, <2>2, <3>2 DEF PostsRight
    <3>5. \A i \in 1 .. Len(posts') : posts'[i].what = "slot" => i = Len(posts) + 1
      BY <2>1, <3>2, <3>3
    <3> QED  BY <2>1, <3>1, <3>2, <3>4, <3>5
  <2>4. CASE slot # NoFrame
    <3>1. posts' = posts
      BY <1>4, <2>1, <2>4 DEF Posted
    <3> QED  BY <2>1, <3>1 DEF PostsRight, SlotRight
  <2> QED  BY <2>3, <2>4
<1>9. /\ UNCHANGED <<desk, epoch, ledger, orders, win, asks, mishaps>>
      /\ thread' \in Threads(Len(ledger)) /\ thread'.at = "rest"
  <2>1. thread.lane \in Nat
    BY <1>1 DEF TypeOK, Threads
  <2> QED  BY <1>4, <2>1, RestingFits DEF OfThread
<1>10. TypeOK'
  BY <1>1, <1>5, <1>7, <1>8, <1>9 DEF TypeOK
<1>11. SentRight' /\ SentOnce' /\ KnownRight' /\ AsksRight' /\ PictureIsItsOwn'
  BY <1>9 DEF IInv, SentRight, SentOnce, KnownRight, AsksRight, PictureIsItsOwn, Target, Frames, FramesOf, MarksOf
<1>12. OrdersRight'
  BY <1>9 DEF IInv, OrdersRight, OrderFits, Current, Ours, Frames, FramesOf
<1>13. LineRight' /\ ThreadRight'
  <2>1. LineFits(line')
    BY <1>6 DEF Same
  <2> QED  BY <1>9, <2>1 DEF LineRight, ThreadRight, ThreadFits, LineFits, Current, Ours, Frames, FramesOf, AllMarks
<1>14. PostsRight'
  BY <1>8, <1>9 DEF PostsRight, SeenFits, Current, Ours, Frames, FramesOf, MarksOf
<1>15. SlotRight'
  <2>1. SeenFits(slot)'
    BY <1>7, <1>9 DEF SeenFits, Current, Ours, Frames, FramesOf, MarksOf
  <2> QED  BY <1>7, <1>8, <2>1 DEF SlotRight
<1> QED  BY <1>10, <1>11, <1>12, <1>13, <1>14, <1>15 DEF IInv

LEMMA EndReadKeeps == IInv /\ EndRead => IInv'
<1> SUFFICES ASSUME IInv, EndRead PROVE IInv'
  OBVIOUS
<1>1. thread.at = "reading" /\ OfThread /\ thread \in Threads(Len(ledger)) /\ thread.lane \in Nat
  BY DEF EndRead, IInv, TypeOK, Threads
<1>2. /\ line # NoLine /\ thread.frame \in 0 .. Len(ledger)
      /\ Current(line) => thread.frame \in Frames(line.account)
  BY <1>1, FoundRight
<1>3. mishaps' \in 0 .. desk.mishaps
  BY MishapsRight DEF EndRead
<1>4. Resting(0) \in Threads(Len(ledger)) /\ Resting(0).at = "rest"
      /\ Resting(thread.lane) \in Threads(Len(ledger)) /\ Resting(thread.lane).at = "rest"
  BY <1>1, RestingFits
<1>5. CASE ReadElsewhere
  <2>1. Same(line, [line EXCEPT !.waiting = thread.frame])
    BY <1>2, WaitingSame
  <2>2. Same(line, [[line EXCEPT !.waiting = thread.frame] EXCEPT !.failing = TRUE])
    BY <2>1, FailingSame
  <2>3. line' = [[line EXCEPT !.waiting = thread.frame] EXCEPT !.failing = TRUE]
    BY <1>5 DEF ReadElsewhere
  <2>4. Same(line, line') /\ UNCHANGED slot /\ Posted(<<>>) /\ thread' = Resting(0)
    BY <1>5, <2>2, <2>3, PostedNothing DEF ReadElsewhere
  <2> QED  BY <1>1, <1>3, <1>4, <2>4, FindsNothing, ReadEnds
<1>6. CASE UNCHANGED mishaps /\ Shows(thread.frame)
  BY <1>1, <1>2, <1>6, ShowsKeeps
<1>7. CASE Unreadable(thread.frame, {0}) \/ Unreadable(thread.frame, {0, thread.lane})
  <2>1. {0} \in SUBSET Nat /\ {0, thread.lane} \in SUBSET Nat
    BY <1>1
  <2> QED  BY <1>1, <1>2, <1>3, <1>7, <2>1, UnreadableKeeps
<1>8. CASE Superseded
  <2>1. Same(line, line') /\ UNCHANGED slot /\ Posted(<<>>) /\ thread' = Resting(thread.lane)
    BY <1>2, <1>8, PostedNothing, Followed DEF Superseded
  <2> QED  BY <1>1, <1>3, <1>4, <2>1, FindsNothing, ReadEnds
<1>9. CASE ReadPanics
  <2>1. Same(line, line') /\ UNCHANGED slot /\ Posted(<<Seen("panicked", 0, 0, {})>>)
    BY <1>2, <1>9, Followed, FailingSame DEF ReadPanics
  <2>2. thread' \in Threads(Len(ledger)) /\ thread'.at = "rest"
    BY <1>2, <1>4, <1>9 DEF ReadPanics, Threads
  <2> QED  BY <1>1, <1>2, <1>3, <2>1, <2>2, FoundNothing, ReadEnds
<1> QED  BY <1>5, <1>6, <1>7, <1>8, <1>9 DEF EndRead

----------------------------------------------------------------------------
(* The thread takes an order. *)

LEMMA NoLineFits ==
  ASSUME TypeOK
  PROVE  NoLine \in Lines(Len(ledger)) /\ LineFits(NoLine)
BY DEF TypeOK, NoLine, Lines, LineFits, Names

LEMMA LineOfFits ==
  ASSUME IInv, NEW o \in Orders(Len(ledger)), OrderFits(o), o.what \in {"lookup", "known"}
  PROVE  LineOf(o) \in Lines(Len(ledger)) /\ LineFits(LineOf(o))
<1> DEFINE fresh == [NoLine EXCEPT
                       !.generation = o.generation, !.account = o.account,
                       !.epoch = o.epoch, !.stated = o.stated,
                       !.looked = o.what = "known", !.after = o.after,
                       !.newest = o.shown, !.shown = o.shown]
           offered == Offered(fresh, o.frame)
           owed == IF offered.owed = 0 /\ offered.waiting # 0 /\ IsTask(o.frame) THEN o.frame
                   ELSE 0
           made == [offered EXCEPT !.owed = owed]
<1>0. LineOf(o) = made
  BY DEF LineOf
<1> HIDE DEF made
<1>1. /\ TypeOK /\ o.frame \in 0 .. Len(ledger) /\ o.generation \in 1 .. win.generation
      /\ o.what # "stop" /\ 0 \in Frames(o.account) /\ 0 \in 0 .. Len(ledger)
      /\ Current(o) => Ours(o) /\ {o.frame, o.shown} \subseteq Frames(o.account)
  <2>1. TypeOK /\ Len(ledger) \in Nat /\ win.generation \in Nat
    <3>1. TypeOK
      BY DEF IInv
    <3>2. win \in Windows(Len(ledger)) /\ ledger \in Seq(Records)
      BY <3>1 DEF TypeOK
    <3> QED  BY <3>1, <3>2 DEF Windows
  <2>2. o.frame \in 0 .. Len(ledger) /\ o.generation \in Nat
    BY DEF Orders
  <2> QED  BY <2>1, <2>2 DEF OrderFits, Frames
<1>2. /\ fresh \in Lines(Len(ledger))
      /\ fresh.generation = o.generation /\ fresh.account = o.account /\ fresh.epoch = o.epoch
      /\ fresh.marks = {} /\ fresh.newest = o.shown /\ fresh.shown = o.shown
      /\ fresh.waiting = 0 /\ fresh.owed = 0
  <2>1. NoLine \in Lines(Len(ledger)) /\ NoLine.marks = {} /\ NoLine.waiting = 0 /\ NoLine.owed = 0
    BY <1>1, NoLineFits DEF NoLine
  <2>2. \A wanted \in BOOLEAN :
          LET made0 == [NoLine EXCEPT
                       !.generation = o.generation, !.account = o.account,
                       !.epoch = o.epoch, !.stated = o.stated, !.looked = wanted, !.after = o.after,
                       !.newest = o.shown, !.shown = o.shown]
          IN /\ made0 \in Lines(Len(ledger))
             /\ made0.generation = o.generation /\ made0.account = o.account /\ made0.epoch = o.epoch
             /\ made0.marks = {} /\ made0.newest = o.shown /\ made0.shown = o.shown
             /\ made0.waiting = 0 /\ made0.owed = 0
    BY <2>1 DEF Orders, Lines
  <2>3. (o.what = "known") \in BOOLEAN
    OBVIOUS
  <2> QED  BY <2>2, <2>3
<1> HIDE DEF fresh
<1>3. fresh # NoLine
  BY <1>1, <1>2, NotNoLine
<1>4. Same(fresh, fresh)
  BY <1>1, <1>2, <1>3 DEF Same, LineFits, Current, Ours
<1>5. Same(fresh, offered)
  BY <1>1, <1>2, <1>4, OfferedSame DEF Current
<1> HIDE DEF offered
<1>6. /\ offered \in Lines(Len(ledger)) /\ offered.marks \subseteq AllMarks
      /\ Current(fresh) => {offered.newest, offered.shown, offered.waiting, offered.owed} \subseteq Frames(fresh.account)
  BY <1>5 DEF Same, LineFits, Current
<1>7. owed \in 0 .. Len(ledger) /\ (Current(fresh) => owed \in Frames(fresh.account))
  BY <1>1, <1>2, <1>6 DEF Lines, Current
<1> HIDE DEF owed
<1>8. /\ made \in Lines(Len(ledger))
      /\ made.generation = offered.generation /\ made.account = offered.account
      /\ made.epoch = offered.epoch /\ made.marks = offered.marks
      /\ made.newest = offered.newest /\ made.waiting = offered.waiting
      /\ made.shown = offered.shown /\ made.owed = owed
  BY <1>6, <1>7 DEF Lines, made
<1>10. Same(fresh, made)
  BY <1>5, <1>6, <1>7, <1>8, SameAs
<1> QED  BY <1>0, <1>10 DEF Same

LEMMA TakeOrderKeeps == IInv /\ TakeOrder => IInv'
<1> SUFFICES ASSUME IInv, TakeOrder PROVE IInv'
  OBVIOUS
<1> DEFINE o == Head(orders)
<1>1. /\ thread.at = "rest" /\ orders # <<>> /\ line' = Taken(o) /\ orders' = Tail(orders)
      /\ UNCHANGED <<desk, mishaps, epoch, ledger, thread, posts, slot, win, asks>>
      /\ TypeOK /\ orders \in Seq(Orders(Len(ledger)))
  BY DEF TakeOrder, IInv, TypeOK
<1>2. /\ o = orders[1] /\ 1 \in 1 .. Len(orders) /\ o \in Orders(Len(ledger))
      /\ Tail(orders) \in Seq(Orders(Len(ledger))) /\ Len(Tail(orders)) = Len(orders) - 1
      /\ \A i \in 1 .. Len(Tail(orders)) : Tail(orders)[i] = orders[i + 1] /\ i + 1 \in 1 .. Len(orders)
  BY <1>1
<1>3. OrderFits(o)
  BY <1>2 DEF IInv, OrdersRight
<1> HIDE DEF o
<1>4. line' \in Lines(Len(ledger)) /\ LineFits(line')
  <2>1. CASE o.what \in {"lookup", "known"}
    BY <1>1, <1>2, <1>3, <2>1, LineOfFits DEF Taken
  <2>2. CASE o.what = "stop"
    BY <1>1, <2>2, NoLineFits DEF Taken
  <2>3. CASE o.what = "offer" /\ line.generation = o.generation
    <3>1. line # NoLine /\ o.frame \in 0 .. Len(ledger)
      BY <1>2, <1>3, <2>3 DEF OrderFits, NoLine, Orders
    <3>2. Current(line) => line.account = win.sent.account
      BY <3>1 DEF IInv, LineRight, LineFits, Ours
    <3>3. Current(line) => o.frame \in Frames(line.account)
      BY <1>3, <2>3, <3>2 DEF OrderFits, Current
    <3>4. Same(line, Offered(line, o.frame))
      BY <3>1, <3>3, Followed, OfferedSame
    <3>5. line' = Offered(line, o.frame)
      BY <1>1, <2>3 DEF Taken
    <3> QED  BY <3>4, <3>5 DEF Same
  <2>4. CASE o.what = "offer" /\ line.generation # o.generation
    BY <1>1, <2>4 DEF Taken, IInv, TypeOK, LineRight
  <2> QED  BY <1>2, <2>1, <2>2, <2>3, <2>4 DEF Orders
<1>5. TypeOK'
  BY <1>1, <1>2, <1>4 DEF TypeOK
<1>6. SentRight' /\ SentOnce' /\ KnownRight' /\ AsksRight' /\ PictureIsItsOwn'
  BY <1>1 DEF IInv, SentRight, SentOnce, KnownRight, AsksRight, PictureIsItsOwn, Target, Frames, FramesOf, MarksOf
<1>7. OrdersRight'
  <2>1. \A i \in 1 .. Len(orders') : OrderFits(orders'[i])
    BY <1>1, <1>2 DEF IInv, OrdersRight
  <2> QED  BY <1>1, <2>1 DEF OrdersRight, OrderFits, Current, Ours, Frames, FramesOf
<1>8. LineRight' /\ ThreadRight'
  BY <1>1, <1>4 DEF LineRight, ThreadRight, ThreadFits, LineFits, Current, Ours, Frames, FramesOf, AllMarks
<1>9. PostsRight' /\ SlotRight'
  BY <1>1 DEF IInv, PostsRight, SlotRight, SeenFits, Current, Ours, Frames, FramesOf, MarksOf
<1> QED  BY <1>5, <1>6, <1>7, <1>8, <1>9 DEF IInv

----------------------------------------------------------------------------
(* The ledger grows. *)

\* What there was is there, and as it was.
Grown ==
    /\ Len(ledger') \in Nat /\ Len(ledger) \in Nat /\ Len(ledger) <= Len(ledger')
    /\ \A p \in 1 .. Len(ledger) : ledger'[p] = ledger[p]

LEMMA RecordedGrows ==
  ASSUME TypeOK, NEW a \in Accounts, NEW kind \in Kinds, NEW of \in Nat, Recorded(a, kind, of)
  PROVE  /\ Grown /\ ledger' \in Seq(Records) /\ Len(ledger') <= desk.records
         /\ Len(ledger') = Len(ledger) + 1
         /\ ledger'[Len(ledger) + 1] = [account |-> a, kind |-> kind, of |-> of]
<1> DEFINE e == [account |-> a, kind |-> kind, of |-> of]
<1>1. /\ ledger \in Seq(Records) /\ e \in Records /\ ledger' = Append(ledger, e)
      /\ Len(ledger) < desk.records /\ desk.records \in Nat
  BY PreviewAssumption DEF TypeOK, Recorded, Records
<1> QED  BY <1>1 DEF Grown

\* What fits goes on fitting.
LEMMA GrownFrames ==
  ASSUME Grown
  PROVE  /\ \A a : Frames(a) \subseteq Frames(a)'
         /\ \A f : MarksOf(f, Len(ledger)) \subseteq MarksOf(f, Len(ledger))'
         /\ AllMarks \subseteq AllMarks'
BY DEF Grown, Frames, FramesOf, MarksOf, AllMarks

LEMMA GrownTypes ==
  ASSUME NEW n \in Nat, NEW m \in Nat, n <= m
  PROVE  /\ Orders(n) \subseteq Orders(m) /\ Lines(n) \subseteq Lines(m)
         /\ Threads(n) \subseteq Threads(m) /\ Seens(n) \subseteq Seens(m)
         /\ Windows(n) \subseteq Windows(m) /\ Asks(n) \subseteq Asks(m)
<1>1. 0 .. n \subseteq 0 .. m /\ 1 .. n \subseteq 1 .. m
  OBVIOUS
<1>2. Orders(n) \subseteq Orders(m)
  BY <1>1 DEF Orders
<1>3. Lines(n) \subseteq Lines(m)
  BY <1>1 DEF Lines
<1>4. Threads(n) \subseteq Threads(m)
  BY <1>1 DEF Threads
<1>5. Seens(n) \subseteq Seens(m)
  BY <1>1 DEF Seens
<1>6. Knowns(n) \subseteq Knowns(m)
  BY <1>1 DEF Knowns
<1>7. [account : Names, epoch : Nat, frame : 0 .. n, marks : SUBSET (1 .. n)]
        \subseteq [account : Names, epoch : Nat, frame : 0 .. m, marks : SUBSET (1 .. m)]
  BY <1>1
<1>8. [Accounts -> Knowns(n)] \subseteq [Accounts -> Knowns(m)]
  BY <1>6
<1>9. Windows(n) \subseteq Windows(m)
  BY <1>7, <1>8 DEF Windows
<1>10. Asks(n) \subseteq Asks(m)
  BY <1>1 DEF Asks
<1> QED  BY <1>2, <1>3, <1>4, <1>5, <1>9, <1>10

LEMMA GrowthKeeps ==
  ASSUME IInv, Grown, ledger' \in Seq(Records), Len(ledger') <= desk.records,
         UNCHANGED <<desk, mishaps, epoch, orders, line, thread, posts, slot, win>>,
         asks' \subseteq Asks(Len(ledger')), AsksRight'
  PROVE  IInv'
<1> DEFINE n == Len(ledger)
           m == Len(ledger')
<1>1. /\ n \in Nat /\ m \in Nat /\ n <= m
      /\ orders \in Seq(Orders(n)) /\ posts \in Seq(Seens(n)) /\ line \in Lines(n)
      /\ thread \in Threads(n) /\ slot \in Seens(n) /\ win \in Windows(n)
  BY DEF Grown, IInv, TypeOK
<1>2. /\ orders \in Seq(Orders(m)) /\ posts \in Seq(Seens(m)) /\ line \in Lines(m)
      /\ thread \in Threads(m) /\ slot \in Seens(m) /\ win \in Windows(m)
  <2> HIDE DEF n, m
  <2> QED  BY <1>1, GrownTypes
<1>3. TypeOK'
  BY <1>2 DEF IInv, TypeOK
<1>4. SentRight' /\ SentOnce' /\ KnownRight'
  BY GrownFrames DEF IInv, SentRight, SentOnce, KnownRight, Target
<1>5. OrdersRight'
  BY GrownFrames DEF IInv, OrdersRight, OrderFits, Current, Ours
<1>6. LineRight' /\ ThreadRight'
  BY GrownFrames DEF IInv, LineRight, ThreadRight, ThreadFits, LineFits, Current, Ours
<1>7. \A x : SeenFits(x) => SeenFits(x)'
  BY GrownFrames DEF SeenFits, Current, Ours
<1>8. PostsRight' /\ SlotRight'
  BY <1>7 DEF IInv, PostsRight, SlotRight
<1>9. PictureIsItsOwn'
  BY <1>1, GrownFrames DEF IInv, PictureIsItsOwn, FramesOf, Grown
<1> QED  BY <1>3, <1>4, <1>5, <1>6, <1>8, <1>9 DEF IInv

LEMMA RecordKeeps == IInv /\ Record => IInv'
<1> SUFFICES ASSUME IInv, Record PROVE IInv'
  OBVIOUS
<1>1. /\ desk.accounts \subseteq Accounts /\ desk.kinds \subseteq Kinds /\ TypeOK
      /\ UNCHANGED <<desk, mishaps, epoch, orders, line, thread, posts, slot, win, asks>>
  BY PreviewAssumption DEF IInv, TypeOK, Record
<1>2. PICK a \in Accounts, kind \in Kinds, of \in Nat : Recorded(a, kind, of)
  <2>1. PICK a \in desk.accounts :
          \/ \E kind \in desk.kinds \ {"mark"} : Recorded(a, kind, 0)
          \/ "mark" \in desk.kinds /\ \E f \in FramesOf(a, Len(ledger)) : IsTask(f) /\ Recorded(a, "mark", f)
    BY DEF Record
  <2>2. \A f \in FramesOf(a, Len(ledger)) : f \in Nat
    BY <1>1 DEF FramesOf, TypeOK
  <2> QED  BY <1>1, <2>1, <2>2
<1>3. Grown /\ ledger' \in Seq(Records) /\ Len(ledger') <= desk.records
  BY <1>1, <1>2, RecordedGrows
<1>4. asks' \subseteq Asks(Len(ledger'))
  BY <1>1, <1>3, GrownTypes DEF TypeOK, Grown
<1>5. AsksRight'
  BY <1>1, <1>3, GrownFrames DEF IInv, AsksRight
<1> QED  BY <1>1, <1>3, <1>4, <1>5, GrowthKeeps

LEMMA ObserveKeeps == IInv /\ Observe => IInv'
<1> SUFFICES ASSUME IInv, Observe PROVE IInv'
  OBVIOUS
<1>1. TypeOK /\ UNCHANGED <<desk, mishaps, epoch, orders, line, thread, posts, slot, win>>
      /\ asks \subseteq Asks(Len(ledger))
  BY DEF IInv, TypeOK, Observe
<1>2. PICK ask \in asks, f \in {0, Len(ledger) + 1} :
        /\ asks' = (asks \ {ask}) \cup {[ask EXCEPT !.done = TRUE, !.frame = f]}
        /\ \/ Recorded(ask.account, "seen", 0)
           \/ f = 0 /\ UNCHANGED ledger
  BY DEF Observe
<1>3. ask \in Asks(Len(ledger)) /\ ask.account \in Accounts
  BY <1>1, <1>2 DEF Asks
<1>4. /\ Grown /\ ledger' \in Seq(Records) /\ Len(ledger') <= desk.records
      /\ f \in 0 .. Len(ledger') /\ f \in Frames(ask.account)'
  <2>1. CASE Recorded(ask.account, "seen", 0)
    <3>1. "seen" \in Kinds /\ 0 \in Nat
      BY DEF Kinds
    <3>2. /\ Grown /\ ledger' \in Seq(Records) /\ Len(ledger') <= desk.records
          /\ Len(ledger') = Len(ledger) + 1
          /\ ledger'[Len(ledger) + 1] = [account |-> ask.account, kind |-> "seen", of |-> 0]
      BY <1>1, <1>3, <2>1, <3>1, RecordedGrows
    <3> QED  BY <1>2, <3>2 DEF Frames, FramesOf, Grown
  <2>2. CASE f = 0 /\ UNCHANGED ledger
    BY <1>1, <2>2 DEF TypeOK, Grown, Frames
  <2> QED  BY <1>2, <2>1, <2>2
<1> DEFINE answered == [ask EXCEPT !.done = TRUE, !.frame = f]
<1>5. /\ Asks(Len(ledger)) \subseteq Asks(Len(ledger'))
      /\ \A a : Frames(a) \subseteq Frames(a)'
  BY <1>4, GrownTypes, GrownFrames DEF Grown
<1>6. answered \in Asks(Len(ledger')) /\ answered.frame = f /\ answered.account = ask.account
  <2>1. ask \in Asks(Len(ledger'))
    BY <1>3, <1>5
  <2> QED  BY <1>4, <2>1 DEF Asks
<1> HIDE DEF answered
<1>7. asks' = (asks \ {ask}) \cup {answered}
  BY <1>2 DEF answered
<1>8. asks' \subseteq Asks(Len(ledger'))
  BY <1>1, <1>5, <1>6, <1>7
<1>9. AsksRight'
  <2>1. \A x \in asks' : x.frame \in Frames(x.account)'
    BY <1>4, <1>5, <1>6, <1>7 DEF IInv, AsksRight
  <2> QED  BY <2>1 DEF AsksRight
<1> QED  BY <1>1, <1>4, <1>8, <1>9, GrowthKeeps

LEMMA RestartKeeps == IInv /\ Restart => IInv'
<1> SUFFICES ASSUME IInv, Restart PROVE IInv'
  OBVIOUS
<1>1. /\ UNCHANGED <<desk, mishaps, ledger, orders, line, thread, posts, slot, win, asks>>
      /\ epoch' \in 1 .. desk.epochs
  BY PreviewAssumption DEF Restart, IInv, TypeOK
<1>2. TypeOK'
  BY <1>1 DEF IInv, TypeOK
<1>3. SentRight' /\ SentOnce' /\ KnownRight' /\ AsksRight' /\ PictureIsItsOwn'
  BY <1>1 DEF IInv, SentRight, SentOnce, KnownRight, AsksRight, PictureIsItsOwn, Target, Frames, FramesOf, MarksOf
<1>4. OrdersRight' /\ LineRight' /\ ThreadRight'
  BY <1>1 DEF IInv, OrdersRight, OrderFits, LineRight, ThreadRight, ThreadFits, LineFits,
              Current, Ours, Frames, FramesOf, AllMarks
<1>5. PostsRight' /\ SlotRight'
  BY <1>1 DEF IInv, PostsRight, SlotRight, SeenFits, Current, Ours, Frames, FramesOf, MarksOf
<1> QED  BY <1>2, <1>3, <1>4, <1>5 DEF IInv

----------------------------------------------------------------------------
(* A step of the event loop. *)

\* What a window shows is a frame of the account it picked, with its marks.
ShowsItsOwn(w) ==
    w.picture # NoPicture =>
      /\ w.picture.account = w.selected /\ w.picture.frame \in FramesOf(w.selected, Len(ledger))
      /\ w.picture.marks \subseteq MarksOf(w.picture.frame, Len(ledger))
KnowsItsOwn(w) == \A a \in Accounts : w.known[a].newest \in Frames(a)
WindowFits(w) ==
    w \in Windows(Len(ledger)) /\ ShowsItsOwn(w) /\ KnowsItsOwn(w) /\ w.sent = Target(w)

LEMMA WindowRight ==
  ASSUME UNCHANGED ledger, WindowFits(win')
  PROVE  SentRight' /\ KnownRight' /\ PictureIsItsOwn'
BY DEF WindowFits, ShowsItsOwn, KnowsItsOwn, SentRight, KnownRight, PictureIsItsOwn, Target, Frames, FramesOf,
       MarksOf

\* The event loop orders nothing, or offers a frame.
LEMMA LoopKeeps ==
  ASSUME IInv, OfLoop, mishaps' \in 0 .. desk.mishaps, WindowFits(win'),
         win'.generation = win.generation, win'.sent = win.sent,
         orders' \in Seq(Orders(Len(ledger))), \A i \in 1 .. Len(orders') : OrderFits(orders'[i]),
         posts' \in Seq(Seens(Len(ledger))), Len(posts') <= MaxPosts, slot' \in Seens(Len(ledger)),
         \A i \in 1 .. Len(posts') : SeenFits(posts'[i]),
         slot' # NoFrame => slot'.what = "frame" /\ SeenFits(slot'),
         \A i \in 1 .. Len(posts') : posts'[i].what = "slot" => slot' # NoFrame,
         \A i, j \in 1 .. Len(posts') : posts'[i].what = "slot" /\ posts'[j].what = "slot" => i = j,
         asks' \subseteq Asks(Len(ledger)), \A ask \in asks' : ask.frame \in Frames(ask.account)
  PROVE  IInv'
<1>1. UNCHANGED <<desk, epoch, ledger, line, thread>>
  BY DEF OfLoop
<1>2. TypeOK'
  BY <1>1 DEF IInv, TypeOK, WindowFits
<1>3. SentRight' /\ SentOnce' /\ KnownRight' /\ PictureIsItsOwn'
  BY <1>1, WindowRight DEF IInv, SentOnce
<1>4. AsksRight'
  BY <1>1 DEF AsksRight, Frames, FramesOf
<1>5. OrdersRight'
  BY <1>1 DEF OrdersRight, OrderFits, Current, Ours, Frames, FramesOf
<1>6. LineRight' /\ ThreadRight'
  BY <1>1 DEF IInv, LineRight, ThreadRight, ThreadFits, LineFits, Current, Ours, Frames, FramesOf, AllMarks
<1>7. PostsRight'
  BY <1>1 DEF PostsRight, SeenFits, Current, Ours, Frames, FramesOf, MarksOf
<1>8. SlotRight'
  <2>1. slot' # NoFrame => slot'.what = "frame" /\ SeenFits(slot)'
    BY <1>1 DEF SeenFits, Current, Ours, Frames, FramesOf, MarksOf
  <2> QED  BY <2>1 DEF SlotRight
<1> QED  BY <1>2, <1>3, <1>4, <1>5, <1>6, <1>7, <1>8 DEF IInv

\* As above where nothing is posted, taken, asked or ordered.
LEMMA WindowKeeps ==
  ASSUME IInv, OfLoop, mishaps' \in 0 .. desk.mishaps, WindowFits(win'),
         win'.generation = win.generation, win'.sent = win.sent, UNCHANGED <<orders, posts, slot, asks>>
  PROVE  IInv'
<1>1. /\ orders' \in Seq(Orders(Len(ledger))) /\ \A i \in 1 .. Len(orders') : OrderFits(orders'[i])
      /\ posts' \in Seq(Seens(Len(ledger))) /\ Len(posts') <= MaxPosts /\ slot' \in Seens(Len(ledger))
      /\ \A i \in 1 .. Len(posts') : SeenFits(posts'[i])
      /\ slot' # NoFrame => slot'.what = "frame" /\ SeenFits(slot')
      /\ \A i \in 1 .. Len(posts') : posts'[i].what = "slot" => slot' # NoFrame
      /\ \A i, j \in 1 .. Len(posts') : posts'[i].what = "slot" /\ posts'[j].what = "slot" => i = j
  BY DEF IInv, TypeOK, OrdersRight, PostsRight, SlotRight
<1>2. asks' \subseteq Asks(Len(ledger)) /\ \A ask \in asks' : ask.frame \in Frames(ask.account)
  BY DEF IInv, TypeOK, AsksRight
<1> QED  BY <1>1, <1>2, LoopKeeps

\* A generation on: what is under way counts no more, but the order that begins it.
LEMMA BumpKeeps ==
  ASSUME IInv, OfLoop, mishaps' \in 0 .. desk.mishaps, WindowFits(win'), UNCHANGED <<posts, slot, asks>>,
         win'.generation = win.generation + 1, NEW o \in Orders(Len(ledger)), orders' = orders \o <<o>>,
         o.generation = win'.generation, o.what \in {"stop", "lookup", "known"},
         o.what # "stop" => /\ o.account = win'.sent.account /\ o.epoch = win'.sent.epoch /\ o.epoch # 0
                            /\ {o.frame, o.shown} \subseteq Frames(o.account)
  PROVE  IInv'
<1>1. /\ UNCHANGED <<desk, epoch, ledger, line, thread, posts, slot, asks>>
      /\ orders \in Seq(Orders(Len(ledger))) /\ win.generation \in Nat
      /\ line \in Lines(Len(ledger)) /\ TypeOK
  BY DEF OfLoop, IInv, TypeOK, Windows
<1>2. /\ orders' \in Seq(Orders(Len(ledger))) /\ Len(orders') = Len(orders) + 1 /\ Len(orders) \in Nat
      /\ \A i \in 1 .. Len(orders') : orders'[i] = IF i <= Len(orders) THEN orders[i] ELSE o
  BY <1>1, ConcatProperties
<1>3. TypeOK'
  BY <1>1, <1>2 DEF TypeOK, WindowFits
<1>4. SentRight' /\ SentOnce' /\ KnownRight' /\ PictureIsItsOwn'
  BY <1>1, WindowRight DEF SentOnce
<1>5. AsksRight'
  BY <1>1 DEF IInv, AsksRight, Frames, FramesOf
<1>6. \A i \in 1 .. Len(orders) : OrderFits(orders[i]) /\ orders[i].generation \in Nat
  <2>1. \A x \in Orders(Len(ledger)) : x.generation \in Nat
    BY DEF Orders
  <2>2. \A i \in 1 .. Len(orders) : orders[i] \in Orders(Len(ledger))
    BY <1>1
  <2> QED  BY <2>1, <2>2 DEF IInv, OrdersRight
<1>7. OrdersRight'
  <2> SUFFICES ASSUME NEW i \in 1 .. Len(orders') PROVE OrderFits(orders[i])'
    BY DEF OrdersRight
  <2>1. CASE i <= Len(orders)
    <3>1. i \in 1 .. Len(orders) /\ orders'[i] = orders[i]
      BY <1>2, <2>1
    <3>2. OrderFits(orders[i]) /\ orders[i].generation \in Nat /\ orders[i].generation <= win.generation
      BY <1>6, <3>1 DEF OrderFits
    <3>3. ~(orders'[i].generation = win'.generation) /\ orders'[i].generation <= win'.generation
      BY <1>1, <3>1, <3>2
    <3> QED  BY <3>1, <3>2, <3>3 DEF OrderFits, Current
  <2>2. CASE ~(i <= Len(orders))
    <3>1. orders'[i] = o
      BY <1>2, <2>2
    <3>2. o.generation # 0 /\ o.what # "offer" /\ o.generation <= win'.generation
      BY <1>1
    <3>3. o.what # "stop" => Ours(o)' /\ {o.frame, o.shown} \subseteq Frames(o.account)'
      BY <1>1 DEF Ours, Frames, FramesOf
    <3> QED  BY <3>1, <3>2, <3>3 DEF OrderFits
  <2> QED  BY <2>1, <2>2
<1>8. LineRight' /\ ThreadRight'
  <2>1. line # NoLine => line.generation \in 1 .. win.generation /\ line.marks \subseteq AllMarks
    BY DEF IInv, LineRight, LineFits
  <2>2. line # NoLine => line.generation \in 1 .. win'.generation /\ line.generation # win'.generation
    BY <1>1, <2>1
  <2> QED  BY <1>1, <2>1, <2>2 DEF IInv, LineRight, ThreadRight, ThreadFits, LineFits, Current, AllMarks
<1>9. \A x : SeenFits(x) => SeenFits(x)'
  <2> SUFFICES ASSUME NEW x, SeenFits(x) PROVE SeenFits(x)'
    OBVIOUS
  <2>1. x.generation \in 1 .. win.generation /\ x.what # "none"
    BY DEF SeenFits
  <2>2. x.generation \in 1 .. win'.generation /\ x.generation # win'.generation
    BY <1>1, <2>1
  <2> QED  BY <2>1, <2>2 DEF SeenFits, Current
<1>10. PostsRight' /\ SlotRight'
  BY <1>1, <1>9 DEF IInv, PostsRight, SlotRight
<1> QED  BY <1>3, <1>4, <1>5, <1>7, <1>8, <1>10 DEF IInv

\* What the event loop shows changed, and the thread is ordered after it.
LEMMA SyncsKeeps ==
  ASSUME IInv, OfLoop, mishaps' \in 0 .. desk.mishaps, UNCHANGED <<posts, slot, asks>>,
         NEW w \in Windows(Len(ledger)), KnowsItsOwn(w), w.sent = win.sent,
         w.generation = win.generation, w.picture = win.picture, Syncs(w)
  PROVE  IInv'
<1> DEFINE kept == LetGo(w)
           target == Target(w)
           known == OfEpoch(w.known[w.selected], w.online)
           next == [kept EXCEPT !.generation = @ + 1, !.sent = target]
           all == [w.known EXCEPT ![w.selected] = known]
           picture == IF w.picture.account = w.selected THEN w.picture ELSE NoPicture
<1>1. /\ TypeOK /\ win \in Windows(Len(ledger)) /\ w.selected \in Accounts /\ w.generation \in Nat
      /\ w.known \in [Accounts -> Knowns(Len(ledger))] /\ w.online \in Nat /\ w.picture.account \in Names
      /\ w.picture \in [account : Names, epoch : Nat, frame : 0 .. Len(ledger), marks : SUBSET (1 .. Len(ledger))]
      /\ Len(ledger) \in Nat /\ PictureIsItsOwn
  <2>1. TypeOK /\ win \in Windows(Len(ledger)) /\ Len(ledger) \in Nat /\ PictureIsItsOwn
    BY DEF IInv, TypeOK
  <2>2. /\ w.selected \in Accounts /\ w.generation \in Nat /\ w.online \in Nat
        /\ w.known \in [Accounts -> Knowns(Len(ledger))]
        /\ w.picture \in [account : Names, epoch : Nat, frame : 0 .. Len(ledger), marks : SUBSET (1 .. Len(ledger))]
    BY DEF Windows
  <2> QED  BY <2>1, <2>2
<1>2. /\ picture \in [account : Names, epoch : Nat, frame : 0 .. Len(ledger), marks : SUBSET (1 .. Len(ledger))]
      /\ picture # NoPicture =>
           /\ picture.account = w.selected /\ picture.frame \in FramesOf(w.selected, Len(ledger))
           /\ picture.marks \subseteq MarksOf(picture.frame, Len(ledger))
      /\ picture.frame \in Frames(w.selected)
  <2>1. NoPicture \in [account : Names, epoch : Nat, frame : 0 .. Len(ledger), marks : SUBSET (1 .. Len(ledger))]
        /\ NoPicture.frame = 0
    BY <1>1 DEF NoPicture, Names
  <2>2. picture # NoPicture =>
           /\ picture = win.picture /\ picture.account = w.selected /\ win.picture.account = win.selected
    BY <1>1 DEF PictureIsItsOwn
  <2> QED  BY <1>1, <2>1, <2>2 DEF PictureIsItsOwn, Frames
<1>3. kept = [w EXCEPT !.picture = picture]
  BY <1>1 DEF LetGo, Windows
<1>4. known \in Knowns(Len(ledger)) /\ known.newest = w.known[w.selected].newest
  <2>1. w.known[w.selected] \in Knowns(Len(ledger)) /\ 0 \in 0 .. Len(ledger)
    BY <1>1
  <2> QED  BY <1>1, <2>1 DEF OfEpoch, Knowns
<1>5. target \in [account : Names, epoch : Nat] /\ (target # NoTarget => w.online # 0 /\ target = [account |-> w.selected, epoch |-> w.online])
  BY <1>1 DEF Target, NoTarget, Names
<1>6. all \in [Accounts -> Knowns(Len(ledger))] /\ \A a \in Accounts : all[a].newest \in Frames(a)
  BY <1>1, <1>4 DEF KnowsItsOwn
<1>7. PICK synced \in Synced(w) : win' = synced[1] /\ orders' = orders \o synced[2]
  BY DEF Syncs
<1>8. orders \in Seq(Orders(Len(ledger)))
  BY <1>1 DEF TypeOK
<1> HIDE DEF picture, known
<1>9. CASE w.sent = target
  <2>1. win' = [w EXCEPT !.picture = picture] /\ orders' = orders
    BY <1>3, <1>7, <1>8, <1>9 DEF Synced
  <2>2. WindowFits(win') /\ win'.generation = win.generation /\ win'.sent = win.sent
    BY <1>2, <1>9, <2>1 DEF WindowFits, ShowsItsOwn, KnowsItsOwn, Target, Windows
  <2> QED  BY <2>1, <2>2, WindowKeeps
<1>10. CASE w.sent # target /\ target = NoTarget
  <2> DEFINE o == Order("stop", next.generation)
  <2>1. win' = [next EXCEPT !.follow = "idle"] /\ orders' = orders \o <<o>>
    <3>1. Synced(w) = {<<[next EXCEPT !.follow = "idle"], <<o>>>>}
      BY <1>10 DEF Synced
    <3> HIDE DEF next, o
    <3>2. synced = <<[next EXCEPT !.follow = "idle"], <<o>>>>
      BY <1>7, <3>1
    <3> QED  BY <1>7, <3>2
  <2>2. win' = [w EXCEPT !.picture = picture, !.generation = w.generation + 1, !.sent = target, !.follow = "idle"]
    BY <1>3, <2>1 DEF Windows
  <2>3. WindowFits(win') /\ win'.generation = win.generation + 1
    <3> DEFINE g == w.generation + 1
    <3>1. g \in Nat
      BY <1>1
    <3> HIDE DEF g
    <3>2. win' = [w EXCEPT !.picture = picture, !.generation = g, !.sent = target, !.follow = "idle"]
      BY <2>2 DEF g
    <3>3. win' \in Windows(Len(ledger)) /\ win'.generation = g
      BY <1>2, <1>5, <3>1, <3>2 DEF Windows
    <3>4. WindowFits(win')
      BY <1>2, <3>2, <3>3 DEF WindowFits, ShowsItsOwn, KnowsItsOwn, Target, Windows
    <3> QED  BY <3>3, <3>4 DEF g
  <2>4. next.generation = win'.generation
    BY <1>3, <2>2 DEF Windows
  <2>5. o \in Orders(Len(ledger)) /\ o.generation = win'.generation /\ o.what = "stop"
    <3> HIDE DEF next
    <3>1. next.generation \in Nat /\ 0 \in 0 .. Len(ledger)
      <4>1. win.generation \in Nat
        BY <1>1 DEF Windows
      <4> QED  BY <1>1, <2>3, <2>4, <4>1
    <3> QED  BY <2>4, <3>1 DEF Order, Orders, Names
  <2> HIDE DEF o
  <2> QED  BY <2>1, <2>3, <2>5, BumpKeeps
<1>11. CASE w.sent # target /\ target # NoTarget
  <2>1. PICK o \in FollowOrders(next, known) :
          /\ win' = [next EXCEPT !.known[w.selected] = known,
                                 !.follow = IF o.what = "known" THEN "following" ELSE "looking"]
          /\ orders' = orders \o <<o>>
    <3> DEFINE following(what) == [next EXCEPT !.known[w.selected] = known,
                                               !.follow = IF what = "known" THEN "following" ELSE "looking"]
    <3>1. Synced(w) = {<<following(o.what), <<o>>>> : o \in FollowOrders(next, known)}
      BY <1>11 DEF Synced, known
    <3> HIDE DEF next
    <3>2. PICK o \in FollowOrders(next, known) : synced = <<following(o.what), <<o>>>>
      BY <1>7, <3>1
    <3> QED  BY <1>7, <3>2
  <2> DEFINE g == w.generation + 1
             follow == IF o.what = "known" THEN "following" ELSE "looking"
  <2>2. g \in Nat /\ follow \in {"looking", "following"}
    BY <1>1
  <2>3. /\ next = [w EXCEPT !.picture = picture, !.generation = g, !.sent = target]
        /\ next.generation = g /\ next.selected = w.selected /\ next.online = w.online
        /\ next.picture = picture
    BY <1>3 DEF Windows
  <2> HIDE DEF g, follow
  <2>4. win' = [w EXCEPT !.picture = picture, !.generation = g, !.sent = target, !.known = all,
                         !.follow = follow]
    BY <2>1, <2>3 DEF Windows, follow
  <2>5. win' \in Windows(Len(ledger)) /\ win'.generation = g /\ win'.sent = target /\ win'.known = all
        /\ win'.picture = picture /\ win'.selected = w.selected
        /\ win'.visible = w.visible /\ win'.online = w.online
    BY <1>2, <1>5, <1>6, <2>2, <2>4 DEF Windows
  <2>6. WindowFits(win')
    BY <1>2, <1>6, <2>5 DEF WindowFits, ShowsItsOwn, KnowsItsOwn, Target
  <2>7. /\ o \in Orders(Len(ledger)) /\ o.generation = g /\ o.what \in {"lookup", "known"}
        /\ o.account = w.selected /\ o.epoch = w.online
        /\ o.shown = picture.frame /\ o.frame \in {0, known.newest}
    <3> DEFINE heads == IF next.stated THEN 0 .. Len(ledger) ELSE {0}
               order(what) == [Order(what, next.generation) EXCEPT
                                  !.account = next.selected, !.epoch = next.online, !.stated = next.stated,
                                  !.shown = next.picture.frame]
               lookups == {[order("lookup") EXCEPT !.after = head] : head \in heads}
               polls == {[order("known") EXCEPT !.after = known.after, !.frame = known.newest]}
    <3>8. o \in lookups \cup polls
      BY <2>1 DEF FollowOrders
    <3>5. heads \subseteq (0 .. Len(ledger)) \cup {0}
      OBVIOUS
    <3>6. next.stated = w.stated /\ w.stated \in BOOLEAN
      BY <1>3 DEF Windows
    <3> HIDE DEF heads, next
    <3>1. /\ o.generation = next.generation /\ o.account = next.selected /\ o.epoch = next.online
          /\ o.shown = next.picture.frame /\ o.frame \in {0, known.newest} /\ o.stated = w.stated
          /\ o.what \in {"lookup", "known"} /\ o.after \in (0 .. Len(ledger)) \cup {0, known.after}
          /\ o = [what |-> o.what, generation |-> o.generation, account |-> o.account, epoch |-> o.epoch,
                  stated |-> o.stated, after |-> o.after, frame |-> o.frame, shown |-> o.shown]
      <4>1. CASE o \in lookups
        BY <3>5, <3>6, <4>1 DEF Order
      <4>2. CASE o \in polls
        BY <3>6, <4>2 DEF Order
      <4> QED  BY <3>8, <4>1, <4>2
    <3> HIDE DEF lookups, polls
    <3>2. known.after \in 0 .. Len(ledger) /\ known.newest \in 0 .. Len(ledger) /\ picture.frame \in 0 .. Len(ledger)
          /\ 0 \in 0 .. Len(ledger)
      <4>1. known \in Knowns(Len(ledger)) /\ picture.frame \in 0 .. Len(ledger)
        BY <1>1, <1>2, <1>4
      <4>2. Len(ledger) \in Nat
        BY <1>1
      <4> HIDE DEF known, picture, next
      <4> QED  BY <4>1, <4>2 DEF Knowns
    <3>3. w.selected \in Names /\ w.online \in Nat
      BY <1>1 DEF Names
    <3>4. /\ o.generation = g /\ o.account = w.selected /\ o.epoch = w.online /\ o.shown = picture.frame
      BY <2>3, <3>1
    <3> QED  BY <2>2, <3>6, <3>1, <3>2, <3>3, <3>4 DEF Orders
  <2>8. {o.frame, o.shown} \subseteq Frames(o.account)
    BY <1>1, <1>2, <1>4, <2>7 DEF KnowsItsOwn, Frames
  <2>9. win'.generation = win.generation + 1
    BY <2>5 DEF g
  <2> QED  BY <1>5, <1>11, <2>1, <2>5, <2>6, <2>7, <2>8, <2>9, BumpKeeps
<1> QED  BY <1>9, <1>10, <1>11

\* The window as it is.
LEMMA WindowNow ==
  ASSUME IInv
  PROVE  /\ win \in Windows(Len(ledger)) /\ WindowFits(win) /\ epoch \in Nat /\ TypeOK
         /\ win.known \in [Accounts -> Knowns(Len(ledger))]
BY EpochIsNat DEF IInv, TypeOK, SentRight, KnownRight, PictureIsItsOwn, WindowFits, ShowsItsOwn, KnowsItsOwn,
                  Windows

LEMMA StatusLandsKeeps == IInv /\ StatusLands => IInv'
<1> SUFFICES ASSUME IInv, StatusLands PROVE IInv'
  OBVIOUS
<1> DEFINE known == IF win.epoch = epoch THEN win.known
                    ELSE [a \in Accounts |-> Restarted(win.known[a])]
<1>0. PICK stated \in BOOLEAN :
         Syncs([win EXCEPT !.online = epoch, !.epoch = epoch, !.stated = stated, !.known = known])
  BY DEF StatusLands
<1> DEFINE w == [win EXCEPT !.online = epoch, !.epoch = epoch, !.stated = stated, !.known = known]
<1>1. Syncs(w) /\ OfLoop /\ UNCHANGED <<posts, slot, asks>> /\ mishaps' \in 0 .. desk.mishaps
  BY <1>0, MishapsRight DEF StatusLands
<1>2. /\ known \in [Accounts -> Knowns(Len(ledger))]
      /\ \A a \in Accounts : known[a].newest \in Frames(a)
  <2>1. \A k \in Knowns(Len(ledger)) : Restarted(k) \in Knowns(Len(ledger)) /\ Restarted(k).newest = k.newest
    BY DEF Restarted, NoAsk, Knowns
  <2> QED  BY <2>1, WindowNow DEF WindowFits, KnowsItsOwn
<1> HIDE DEF known
<1>3. /\ w \in Windows(Len(ledger)) /\ w.sent = win.sent /\ w.generation = win.generation
      /\ w.picture = win.picture /\ w.known = known
  BY <1>2, WindowNow DEF Windows
<1>4. KnowsItsOwn(w)
  BY <1>2, <1>3 DEF KnowsItsOwn
<1> QED  BY <1>1, <1>3, <1>4, SyncsKeeps

LEMMA StatusFailsKeeps == IInv /\ StatusFails => IInv'
<1> SUFFICES ASSUME IInv, StatusFails PROVE IInv'
  OBVIOUS
<1> DEFINE w == [win EXCEPT !.online = 0, !.stated = FALSE]
<1>1. Syncs(w) /\ OfLoop /\ UNCHANGED <<posts, slot, asks>> /\ mishaps' \in 0 .. desk.mishaps
  BY MishapsRight DEF StatusFails
<1>2. /\ w \in Windows(Len(ledger)) /\ w.sent = win.sent /\ w.generation = win.generation
      /\ w.picture = win.picture /\ w.known = win.known
  BY WindowNow DEF Windows
<1>3. KnowsItsOwn(w)
  BY <1>2, WindowNow DEF WindowFits, KnowsItsOwn
<1> QED  BY <1>1, <1>2, <1>3, SyncsKeeps

LEMMA PickKeeps == IInv /\ (\E a \in desk.accounts : Pick(a)) => IInv'
<1> SUFFICES ASSUME IInv, NEW a \in desk.accounts, Pick(a) PROVE IInv'
  OBVIOUS
<1> DEFINE turns == win.turns + 1
           w == [win EXCEPT !.selected = a, !.turns = turns]
<1>1. Syncs(w) /\ OfLoop /\ UNCHANGED <<posts, slot, asks>> /\ mishaps' \in 0 .. desk.mishaps
  BY MishapsRight DEF Pick
<1>2. a \in Accounts /\ turns \in Nat
  <2>1. desk \in Desks /\ win.turns \in Nat
    BY WindowNow DEF TypeOK, Windows
  <2> QED  BY <2>1, PreviewAssumption
<1> HIDE DEF turns
<1>3. /\ w \in Windows(Len(ledger)) /\ w.sent = win.sent /\ w.generation = win.generation
      /\ w.picture = win.picture /\ w.known = win.known
  BY <1>2, WindowNow DEF Windows
<1>4. KnowsItsOwn(w)
  BY <1>3, WindowNow DEF WindowFits, KnowsItsOwn
<1> QED  BY <1>1, <1>3, <1>4, SyncsKeeps

LEMMA ShowOrHideKeeps == IInv /\ ShowOrHide => IInv'
<1> SUFFICES ASSUME IInv, ShowOrHide PROVE IInv'
  OBVIOUS
<1> DEFINE turns == win.turns + 1
           w == [win EXCEPT !.visible = ~@, !.turns = turns]
<1>1. Syncs(w) /\ OfLoop /\ UNCHANGED <<posts, slot, asks>> /\ mishaps' \in 0 .. desk.mishaps
  BY MishapsRight DEF ShowOrHide
<1>2. turns \in Nat
  BY WindowNow DEF Windows
<1> HIDE DEF turns
<1>3. /\ w \in Windows(Len(ledger)) /\ w.sent = win.sent /\ w.generation = win.generation
      /\ w.picture = win.picture /\ w.known = win.known
  <2>1. \A shown \in BOOLEAN :
          LET v == [win EXCEPT !.visible = shown, !.turns = turns]
          IN /\ v \in Windows(Len(ledger)) /\ v.sent = win.sent /\ v.generation = win.generation
             /\ v.picture = win.picture /\ v.known = win.known
    BY <1>2, WindowNow DEF Windows
  <2>2. w = [win EXCEPT !.visible = ~win.visible, !.turns = turns] /\ (~win.visible) \in BOOLEAN
    OBVIOUS
  <2> QED  BY <2>1, <2>2
<1>4. KnowsItsOwn(w)
  BY <1>3, WindowNow DEF WindowFits, KnowsItsOwn
<1> QED  BY <1>1, <1>3, <1>4, SyncsKeeps

\* What lands leaves a window that fits, if what counts is of the account shown.
LEMMA LandedFits ==
  ASSUME IInv, NEW x \in Seens(Len(ledger)), SeenFits(x), x.what # "slot"
  PROVE  /\ WindowFits(Landed(win, x)) /\ Landed(win, x).generation = win.generation
         /\ Landed(win, x).sent = win.sent
<1>1. CASE \/ x.generation # win.generation /\ x.what # "panicked"
           \/ x.what \in OfAccount /\ x.epoch # win.online
  BY <1>1, WindowNow DEF Landed
<1>2. CASE ~(\/ x.generation # win.generation /\ x.what # "panicked"
             \/ x.what \in OfAccount /\ x.epoch # win.online)
  <2>1. Landed(win, x) = Taking(win, x)
    BY <1>2 DEF Landed
  <2>2. CASE x.what \in {"interrupted", "panicked"}
    <3>1. Landed(win, x) = [win EXCEPT !.follow = x.what]
      BY <2>1, <2>2 DEF Taking
    <3> QED  BY <2>2, <3>1, WindowNow DEF WindowFits, ShowsItsOwn, KnowsItsOwn, Target, Windows
  <2>3. CASE x.what \in OfAccount
    <3> DEFINE a == x.account
    <3>1. /\ Ours(x) /\ x.frame \in Frames(a) /\ x.frame \in 0 .. Len(ledger)
          /\ x.what \in {"frame", "marks"} => x.frame # 0 /\ x.marks \subseteq MarksOf(x.frame, Len(ledger))
          /\ x.epoch \in Nat /\ x.after \in 0 .. Len(ledger) /\ x.marks \in SUBSET (1 .. Len(ledger))
      BY <1>2, <2>3 DEF SeenFits, Current, OfAccount, Seens
    <3>2. a = win.selected /\ a \in Accounts
      BY <3>1, WindowNow DEF Ours, WindowFits, Target, NoTarget, Windows
    <3> HIDE DEF a
    <3>3. /\ win.known[a] \in Knowns(Len(ledger)) /\ win.known[a].newest \in Frames(a)
          /\ win.known[a].newest \in Nat /\ x.frame \in Nat /\ win.known[a].newest \in 0 .. Len(ledger)
          /\ win.known[a].unreadable \in 0 .. Len(ledger) /\ win.known[a].unreadable \in Nat
      <4>1. win.known[a] \in Knowns(Len(ledger)) /\ win.known[a].newest \in Frames(a)
        BY <3>2, WindowNow DEF WindowFits, KnowsItsOwn
      <4>2. x.frame \in Nat
        BY <3>1
      <4> QED  BY <4>1, <4>2 DEF Knowns
    <3> DEFINE worst == Max({win.known[a].unreadable, x.frame})
    <3>4. /\ worst \in 0 .. Len(ledger)
          /\ \A k \in Knowns(Len(ledger)) : k.newest \in Frames(a) =>
                Saw(k, x.frame) \in Knowns(Len(ledger)) /\ Saw(k, x.frame).newest \in Frames(a)
      <4> SUFFICES ASSUME NEW k \in Knowns(Len(ledger)), k.newest \in Frames(a)
                   PROVE  /\ worst \in 0 .. Len(ledger)
                          /\ Saw(k, x.frame) \in Knowns(Len(ledger)) /\ Saw(k, x.frame).newest \in Frames(a)
        BY <3>3
      <4> DEFINE newest == Max({k.newest, x.frame})
      <4>1. k.newest \in 0 .. Len(ledger) /\ k.newest \in Nat
        BY <3>3 DEF Knowns
      <4>2. newest \in {k.newest, x.frame} /\ worst \in {win.known[a].unreadable, x.frame}
        BY <3>3, <4>1, LargerOf
      <4>3. Saw(k, x.frame) = [k EXCEPT !.newest = newest]
        BY DEF Saw
      <4> HIDE DEF newest, worst
      <4> QED  BY <3>1, <3>3, <4>1, <4>2, <4>3 DEF Knowns
    <3> HIDE DEF worst
    <3>5. \A v \in Windows(Len(ledger)) : WindowFits(v) =>
             /\ WindowFits(Resumed(v)) /\ Resumed(v).generation = v.generation /\ Resumed(v).sent = v.sent
      <4> SUFFICES ASSUME NEW v \in Windows(Len(ledger)), WindowFits(v), v.follow # "idle"
                   PROVE  /\ WindowFits(Resumed(v))
                          /\ Resumed(v).generation = v.generation /\ Resumed(v).sent = v.sent
        BY DEF Resumed
      <4>1. Resumed(v) = [v EXCEPT !.follow = "following"]
        BY DEF Resumed
      <4>2. /\ Resumed(v) \in Windows(Len(ledger)) /\ Resumed(v).known = v.known
            /\ Resumed(v).picture = v.picture /\ Resumed(v).selected = v.selected
            /\ Resumed(v).visible = v.visible /\ Resumed(v).online = v.online
            /\ Resumed(v).generation = v.generation /\ Resumed(v).sent = v.sent
        BY <4>1 DEF Windows
      <4> HIDE DEF Resumed
      <4> QED  BY <4>2 DEF WindowFits, ShowsItsOwn, KnowsItsOwn, Target
    <3>6. \A k \in Knowns(Len(ledger)) : k.newest \in Frames(a) =>
            LET v == [win EXCEPT !.known = [win.known EXCEPT ![a] = k]]
            IN v \in Windows(Len(ledger)) /\ WindowFits(v) /\ v.generation = win.generation /\ v.sent = win.sent
      <4> SUFFICES ASSUME NEW k \in Knowns(Len(ledger)), k.newest \in Frames(a)
                   PROVE  LET v == [win EXCEPT !.known = [win.known EXCEPT ![a] = k]]
                          IN v \in Windows(Len(ledger)) /\ WindowFits(v)
                             /\ v.generation = win.generation /\ v.sent = win.sent
        OBVIOUS
      <4> DEFINE all == [win.known EXCEPT ![a] = k]
      <4>1. all \in [Accounts -> Knowns(Len(ledger))] /\ \A b \in Accounts : all[b].newest \in Frames(b)
        BY <3>2, WindowNow DEF WindowFits, KnowsItsOwn
      <4> HIDE DEF all
      <4>2. [win EXCEPT !.known = all] \in Windows(Len(ledger))
        BY <4>1, WindowNow DEF Windows
      <4>3. WindowFits([win EXCEPT !.known = all])
        BY <4>1, <4>2, WindowNow DEF WindowFits, ShowsItsOwn, KnowsItsOwn, Target, Windows
      <4>4. [win EXCEPT !.known = all].generation = win.generation /\ [win EXCEPT !.known = all].sent = win.sent
        BY WindowNow DEF Windows
      <4> QED  BY <4>2, <4>3, <4>4 DEF all
    <3>7. CASE x.what \in {"looked", "polled"}
      <4> DEFINE r == IF x.what = "looked" THEN [win.known[a] EXCEPT !.looked = TRUE, !.after = x.after]
                      ELSE [win.known[a] EXCEPT !.after = x.after]
                 k == Saw(r, x.frame)
                 v == [win EXCEPT !.known = [win.known EXCEPT ![a] = k]]
      <4>1. k \in Knowns(Len(ledger)) /\ k.newest \in Frames(a)
        <5>1. r \in Knowns(Len(ledger)) /\ r.newest = win.known[a].newest
          BY <3>1, <3>3 DEF Knowns
        <5> HIDE DEF r
        <5> QED  BY <3>3, <3>4, <5>1
      <4>2. Landed(win, x) = Resumed(v)
        <5>1. CASE x.what = "looked"
          BY <2>1, <5>1 DEF Taking, LookedLands, a
        <5>2. CASE x.what = "polled"
          BY <2>1, <5>2 DEF Taking, PolledLands, a
        <5> QED  BY <3>7, <5>1, <5>2
      <4> HIDE DEF k
      <4>3. v \in Windows(Len(ledger)) /\ WindowFits(v) /\ v.generation = win.generation /\ v.sent = win.sent
        BY <3>4, <3>6, <4>1
      <4> HIDE DEF v
      <4> QED  BY <3>5, <4>2, <4>3
    <3>8. CASE x.what = "frame"
      <4> DEFINE r == Saw(win.known[a], x.frame)
                 k == Showed(r, x.frame)
                 u == [win EXCEPT !.known = [win.known EXCEPT ![a] = k]]
                 picture == [account |-> a, epoch |-> x.epoch, frame |-> x.frame, marks |-> x.marks]
                 v == [u EXCEPT !.picture = picture]
      <4>1. k \in Knowns(Len(ledger)) /\ k.newest \in Frames(a)
        <5>1. r \in Knowns(Len(ledger)) /\ r.newest \in Frames(a)
          BY <3>3, <3>4
        <5> HIDE DEF r
        <5>2. 0 \in 0 .. Len(ledger)
          BY WindowNow DEF TypeOK
        <5> DEFINE bad == IF r.unreadable <= x.frame THEN 0 ELSE r.unreadable
        <5>3. bad \in 0 .. Len(ledger) /\ k = [r EXCEPT !.unreadable = bad]
          BY <5>1, <5>2 DEF Showed, Knowns
        <5> HIDE DEF bad, k
        <5> QED  BY <5>1, <5>3 DEF Knowns
      <4>2. Landed(win, x) = win \/ Landed(win, x) = Resumed(v)
        <5>1. \/ Landed(win, x) = win
              \/ Landed(win, x) = Resumed([win EXCEPT !.known[a] = k, !.picture = picture])
          BY <2>1, <3>8 DEF Taking, FrameLands, a
        <5> HIDE DEF k, picture
        <5>2. [win EXCEPT !.known[a] = k, !.picture = picture] = v
          BY WindowNow DEF Windows
        <5> QED  BY <5>1, <5>2
      <4> HIDE DEF k
      <4>3. u \in Windows(Len(ledger)) /\ WindowFits(u) /\ u.generation = win.generation /\ u.sent = win.sent
            /\ u.selected = win.selected
        BY <3>4, <3>6, <4>1, WindowNow DEF Windows
      <4> HIDE DEF u
      <4>4. picture \in [account : Names, epoch : Nat, frame : 0 .. Len(ledger), marks : SUBSET (1 .. Len(ledger))]
        BY <3>1, <3>2 DEF Names
      <4>5. picture.account = win.selected /\ picture.frame \in FramesOf(win.selected, Len(ledger))
            /\ picture.marks \subseteq MarksOf(picture.frame, Len(ledger))
        BY <3>1, <3>2, <3>8 DEF Frames
      <4> HIDE DEF picture
      <4>6. v \in Windows(Len(ledger)) /\ WindowFits(v) /\ v.generation = win.generation /\ v.sent = win.sent
        BY <4>3, <4>4, <4>5 DEF WindowFits, ShowsItsOwn, KnowsItsOwn, Target, Windows
      <4> HIDE DEF v
      <4> QED  BY <3>5, <4>2, <4>6, WindowNow
    <3>9. CASE x.what = "marks"
      <4>1. Landed(win, x) = win
            \/ (win.picture.frame = x.frame
                /\ Landed(win, x) = [win EXCEPT !.picture = [@ EXCEPT !.marks = x.marks]])
        BY <2>1, <3>9, WindowNow DEF Taking, MarksLand, Windows, OfAccount
      <4> DEFINE picture == [win.picture EXCEPT !.marks = x.marks]
                 v == [win EXCEPT !.picture = picture]
      <4>2. /\ win.picture \in [account : Names, epoch : Nat, frame : 0 .. Len(ledger), marks : SUBSET (1 .. Len(ledger))]
            /\ win.picture # NoPicture \/ win.picture.frame = 0
        BY WindowNow DEF Windows, NoPicture
      <4>3. /\ picture \in [account : Names, epoch : Nat, frame : 0 .. Len(ledger), marks : SUBSET (1 .. Len(ledger))]
            /\ picture.account = win.picture.account /\ picture.frame = win.picture.frame
            /\ picture.marks = x.marks
        BY <3>1, <4>2
      <4> HIDE DEF picture
      <4>4. win.picture.frame = x.frame => v \in Windows(Len(ledger)) /\ WindowFits(v)
              /\ v.generation = win.generation /\ v.sent = win.sent
        BY <3>1, <3>9, <4>2, <4>3, WindowNow DEF WindowFits, ShowsItsOwn, KnowsItsOwn, Target, Windows
      <4>5. Landed(win, x) = win \/ (win.picture.frame = x.frame /\ Landed(win, x) = v)
        BY <4>1 DEF picture
      <4> HIDE DEF v
      <4> QED  BY <4>4, <4>5, WindowNow
    <3>10. CASE x.what = "unreadable"
      <4> DEFINE k == [win.known[a] EXCEPT !.unreadable = worst]
                 v == [win EXCEPT !.known = [win.known EXCEPT ![a] = k]]
      <4>1. k \in Knowns(Len(ledger)) /\ k.newest = win.known[a].newest
        BY <3>3, <3>4 DEF Knowns
      <4>2. Landed(win, x) = win \/ Landed(win, x) = v
        BY <2>1, <3>2, <3>10, WindowNow DEF Taking, UnreadableLands, worst, Windows, Knowns, OfAccount, a
      <4> HIDE DEF k
      <4>3. v \in Windows(Len(ledger)) /\ WindowFits(v) /\ v.generation = win.generation /\ v.sent = win.sent
        BY <3>3, <3>6, <4>1
      <4> HIDE DEF v
      <4> QED  BY <4>2, <4>3, WindowNow
    <3> QED  BY <2>3, <3>7, <3>8, <3>9, <3>10 DEF OfAccount
  <2> QED  BY <2>2, <2>3 DEF SeenFits, Seens
<1> QED  BY <1>1, <1>2

LEMMA LandKeeps == IInv /\ Land => IInv'
<1> SUFFICES ASSUME IInv, Land PROVE IInv'
  OBVIOUS
<1> DEFINE p == Head(posts)
           x == IF p.what = "slot" THEN slot ELSE p
<1>1. /\ posts # <<>> /\ win' = Landed(win, x) /\ posts' = Tail(posts)
      /\ slot' = IF p.what = "slot" THEN NoFrame ELSE slot
      /\ UNCHANGED <<mishaps, orders, asks>> /\ OfLoop
  BY DEF Land
<1>2. /\ posts \in Seq(Seens(Len(ledger))) /\ Len(posts) <= MaxPosts /\ slot \in Seens(Len(ledger))
      /\ PostsRight /\ SlotRight /\ MaxPosts \in Nat /\ TypeOK
  BY PreviewAssumption DEF IInv, TypeOK
<1>3. /\ p = posts[1] /\ 1 \in 1 .. Len(posts) /\ p \in Seens(Len(ledger)) /\ Len(posts) \in Nat
      /\ posts' \in Seq(Seens(Len(ledger))) /\ Len(posts') = Len(posts) - 1
      /\ \A i \in 1 .. Len(posts') : posts'[i] = posts[i + 1] /\ i + 1 \in 1 .. Len(posts)
  BY <1>1, <1>2
<1>4. SeenFits(p) /\ (p.what = "slot" => slot # NoFrame)
  BY <1>2, <1>3 DEF PostsRight, SlotRight
<1>5. x \in Seens(Len(ledger)) /\ SeenFits(x) /\ x.what # "slot"
  BY <1>2, <1>3, <1>4 DEF SlotRight
<1> HIDE DEF x, p
<1>6. WindowFits(win') /\ win'.generation = win.generation /\ win'.sent = win.sent
  BY <1>1, <1>5, LandedFits
<1>7. Len(posts') <= MaxPosts /\ \A i \in 1 .. Len(posts') : SeenFits(posts'[i])
  BY <1>2, <1>3 DEF PostsRight
<1>8. /\ slot' \in Seens(Len(ledger))
      /\ slot' # NoFrame => slot'.what = "frame" /\ SeenFits(slot')
  <2>1. NoFrame \in Seens(Len(ledger))
    BY <1>2 DEF NoFrame, Seens, Names, TypeOK
  <2> QED  BY <1>1, <1>2, <2>1 DEF SlotRight
<1>9. /\ \A i \in 1 .. Len(posts') : posts'[i].what = "slot" => slot' # NoFrame
      /\ \A i, j \in 1 .. Len(posts') : posts'[i].what = "slot" /\ posts'[j].what = "slot" => i = j
  <2>1. \A i \in 1 .. Len(posts') : posts'[i].what = "slot" => slot # NoFrame /\ p.what # "slot"
    <3> SUFFICES ASSUME NEW i \in 1 .. Len(posts'), posts'[i].what = "slot"
                 PROVE  slot # NoFrame /\ p.what # "slot"
      OBVIOUS
    <3>1. posts[i + 1].what = "slot" /\ i + 1 \in 1 .. Len(posts) /\ i + 1 # 1
      BY <1>3
    <3> QED  BY <1>2, <1>3, <3>1 DEF SlotRight
  <2>2. \A i, j \in 1 .. Len(posts') : posts'[i].what = "slot" /\ posts'[j].what = "slot" => i = j
    <3> SUFFICES ASSUME NEW i \in 1 .. Len(posts'), NEW j \in 1 .. Len(posts'),
                        posts'[i].what = "slot", posts'[j].what = "slot"
                 PROVE  i = j
      OBVIOUS
    <3>1. /\ posts[i + 1].what = "slot" /\ i + 1 \in 1 .. Len(posts)
          /\ posts[j + 1].what = "slot" /\ j + 1 \in 1 .. Len(posts)
      BY <1>3
    <3>2. i + 1 = j + 1
      BY <1>2, <3>1 DEF SlotRight
    <3> QED  BY <3>2
  <2> QED  BY <1>1, <2>1, <2>2
<1>10. /\ orders' \in Seq(Orders(Len(ledger))) /\ \A i \in 1 .. Len(orders') : OrderFits(orders'[i])
       /\ asks' \subseteq Asks(Len(ledger)) /\ \A ask \in asks' : ask.frame \in Frames(ask.account)
       /\ mishaps' \in 0 .. desk.mishaps
  BY <1>1 DEF IInv, TypeOK, OrdersRight, AsksRight
<1> QED  BY <1>1, <1>3, <1>6, <1>7, <1>8, <1>9, <1>10, LoopKeeps

\* What of a refresh the window keeps of an account leaves what it shows.
LEMMA KeptOfRefresh ==
  ASSUME IInv, NEW a \in Accounts, NEW out \in [ticket : Nat, generation : Nat], NEW cooling \in Nat,
         NEW pressed \in Nat, NEW offered \in SUBSET [frame : 0 .. Len(ledger), generation : Nat],
         NEW k, k = [win.known[a] EXCEPT !.out = out, !.cooling = cooling],
         win' = [win EXCEPT !.pressed = pressed, !.known = [win.known EXCEPT ![a] = k],
                            !.offered = offered]
  PROVE  WindowFits(win') /\ win'.generation = win.generation /\ win'.sent = win.sent
<1> DEFINE all == [win.known EXCEPT ![a] = k]
<1>1. win.known[a] \in Knowns(Len(ledger))
  BY WindowNow
<1>2. k \in Knowns(Len(ledger)) /\ k.newest = win.known[a].newest
  BY <1>1 DEF Knowns
<1>3. all \in [Accounts -> Knowns(Len(ledger))] /\ \A b \in Accounts : all[b].newest \in Frames(b)
  BY <1>2, WindowNow DEF WindowFits, KnowsItsOwn
<1>4. win' = [win EXCEPT !.pressed = pressed, !.known = all, !.offered = offered]
  OBVIOUS
<1> HIDE DEF all
<1>5. /\ win' \in Windows(Len(ledger)) /\ win'.known = all /\ win'.picture = win.picture
      /\ win'.selected = win.selected /\ win'.visible = win.visible /\ win'.online = win.online
      /\ win'.generation = win.generation /\ win'.sent = win.sent
  <2>1. win \in Windows(Len(ledger)) /\ all \in [Accounts -> Knowns(Len(ledger))]
    BY <1>3, WindowNow
  <2>2. win' \in Windows(Len(ledger))
    BY <1>4, <2>1 DEF Windows
  <2> QED  BY <1>4, <2>1, <2>2 DEF Windows
<1> QED  BY <1>3, <1>5, WindowNow DEF WindowFits, ShowsItsOwn, KnowsItsOwn, Target

LEMMA PressKeeps == IInv /\ Press => IInv'
<1> SUFFICES ASSUME IInv, Press PROVE IInv'
  OBVIOUS
<1> DEFINE a == win.selected
           ticket == win.pressed + 1
           out == [ticket |-> ticket, generation |-> win.generation]
           ask == [account |-> a, ticket |-> ticket, done |-> FALSE, frame |-> 0]
<1>1. /\ win' = [win EXCEPT !.pressed = ticket, !.known[a].out = out]
      /\ asks' = asks \cup {ask}
      /\ UNCHANGED <<mishaps, orders, posts, slot>> /\ OfLoop
  BY DEF Press
<1>2. a \in Accounts /\ ticket \in Nat /\ win.generation \in Nat /\ win.known[a].cooling \in Nat
      /\ win.known[a] \in Knowns(Len(ledger))
  <2>1. a \in Accounts /\ ticket \in Nat /\ win.generation \in Nat
    BY WindowNow DEF Windows
  <2>2. win.known[a] \in Knowns(Len(ledger))
    BY <2>1, WindowNow
  <2> QED  BY <2>1, <2>2 DEF Knowns
<1>3. out \in [ticket : Nat, generation : Nat]
  BY <1>2
<1> HIDE DEF out
<1> DEFINE k == [win.known[a] EXCEPT !.out = out]
<1>4. /\ k = [win.known[a] EXCEPT !.out = out, !.cooling = win.known[a].cooling]
      /\ win' = [win EXCEPT !.pressed = ticket, !.known = [win.known EXCEPT ![a] = k],
                            !.offered = win.offered]
      /\ win.offered \in SUBSET [frame : 0 .. Len(ledger), generation : Nat]
  <2>1. k = [win.known[a] EXCEPT !.out = out, !.cooling = win.known[a].cooling]
    BY <1>2 DEF Knowns
  <2>2. win \in Windows(Len(ledger))
    BY WindowNow
  <2> QED  BY <1>1, <2>1, <2>2 DEF Windows
<1>5. ask \in Asks(Len(ledger)) /\ ask.frame \in Frames(ask.account)
  BY <1>2, WindowNow DEF Asks, Frames, TypeOK
<1> HIDE DEF ticket, a, ask, k
<1>6. WindowFits(win') /\ win'.generation = win.generation /\ win'.sent = win.sent
  BY <1>2, <1>3, <1>4, KeptOfRefresh
<1>7. asks' \subseteq Asks(Len(ledger)) /\ \A r \in asks' : r.frame \in Frames(r.account)
  BY <1>1, <1>5 DEF IInv, TypeOK, AsksRight
<1>8. /\ orders' \in Seq(Orders(Len(ledger))) /\ \A i \in 1 .. Len(orders') : OrderFits(orders'[i])
      /\ posts' \in Seq(Seens(Len(ledger))) /\ Len(posts') <= MaxPosts /\ slot' \in Seens(Len(ledger))
      /\ \A i \in 1 .. Len(posts') : SeenFits(posts'[i])
      /\ slot' # NoFrame => slot'.what = "frame" /\ SeenFits(slot')
      /\ \A i \in 1 .. Len(posts') : posts'[i].what = "slot" => slot' # NoFrame
      /\ \A i, j \in 1 .. Len(posts') : posts'[i].what = "slot" /\ posts'[j].what = "slot" => i = j
      /\ mishaps' \in 0 .. desk.mishaps
  BY <1>1 DEF IInv, TypeOK, OrdersRight, PostsRight, SlotRight
<1> QED  BY <1>1, <1>6, <1>7, <1>8, LoopKeeps

LEMMA RefreshLandsKeeps == IInv /\ RefreshLands => IInv'
<1> SUFFICES ASSUME IInv, RefreshLands PROVE IInv'
  OBVIOUS
<1>1. UNCHANGED <<mishaps, posts, slot>> /\ OfLoop
  BY DEF RefreshLands
<1>2. PICK ask \in asks :
        LET counts == win.known[ask.account].out.ticket = ask.ticket
            offers == counts /\ Offers(ask)
            settled == [win.known[ask.account] EXCEPT !.out = NoAsk, !.cooling = ask.ticket]
        IN /\ asks' = asks \ {ask}
           /\ win' = IF counts
                     THEN [win EXCEPT !.known[ask.account] = settled,
                                      !.offered = IF offers THEN @ \cup {OfferOf(ask)} ELSE @]
                     ELSE win
           /\ orders' = IF offers
                        THEN Append(orders, [Order("offer", win.generation) EXCEPT !.frame = ask.frame])
                        ELSE orders
  BY DEF RefreshLands
<1>3. /\ ask \in Asks(Len(ledger)) /\ ask.account \in Accounts /\ ask.ticket \in Nat
      /\ ask.frame \in 0 .. Len(ledger) /\ ask.frame \in Frames(ask.account)
  BY DEF IInv, TypeOK, AsksRight, Asks
<1>4. WindowFits(win') /\ win'.generation = win.generation /\ win'.sent = win.sent
  <2>1. CASE win' = win
    BY <2>1, WindowNow
  <2>2. CASE win' # win
    <3> DEFINE k == [win.known[ask.account] EXCEPT !.out = NoAsk, !.cooling = ask.ticket]
               offers == win.known[ask.account].out.ticket = ask.ticket /\ Offers(ask)
               offered == IF offers THEN win.offered \cup {OfferOf(ask)} ELSE win.offered
    <3>1. win' = [win EXCEPT !.known[ask.account] = k, !.offered = offered]
      BY <1>2, <2>2
    <3>2. offered \in SUBSET [frame : 0 .. Len(ledger), generation : Nat]
      <4>1. win.offered \in SUBSET [frame : 0 .. Len(ledger), generation : Nat] /\ win.generation \in Nat
        BY WindowNow DEF Windows
      <4>2. OfferOf(ask) \in [frame : 0 .. Len(ledger), generation : Nat]
        BY <1>3, <4>1 DEF OfferOf
      <4> QED  BY <4>1, <4>2
    <3>3. NoAsk \in [ticket : Nat, generation : Nat] /\ win.pressed \in Nat
      BY WindowNow DEF NoAsk, Windows
    <3> HIDE DEF k, offered
    <3>4. win' = [win EXCEPT !.pressed = win.pressed, !.known = [win.known EXCEPT ![ask.account] = k],
                             !.offered = offered]
      BY <1>3, <3>1, WindowNow DEF Windows
    <3>5. k = [win.known[ask.account] EXCEPT !.out = NoAsk, !.cooling = ask.ticket]
      BY DEF k
    <3> QED  BY <1>3, <3>2, <3>3, <3>4, <3>5, KeptOfRefresh
  <2> QED  BY <2>1, <2>2
<1>5. asks' \subseteq Asks(Len(ledger)) /\ \A k \in asks' : k.frame \in Frames(k.account)
  BY <1>2 DEF IInv, TypeOK, AsksRight
<1>6. orders' \in Seq(Orders(Len(ledger))) /\ \A i \in 1 .. Len(orders') : OrderFits(orders'[i])
  <2>1. orders \in Seq(Orders(Len(ledger))) /\ \A i \in 1 .. Len(orders) : OrderFits(orders[i])
    BY DEF IInv, TypeOK, OrdersRight
  <2>2. CASE orders' = orders
    BY <2>1, <2>2
  <2>3. CASE Offers(ask) /\ orders' = Append(orders, [Order("offer", win.generation) EXCEPT !.frame = ask.frame])
    <3> DEFINE o == [Order("offer", win.generation) EXCEPT !.frame = ask.frame]
    <3>1. /\ o.what = "offer" /\ o.generation = win.generation /\ o.frame = ask.frame
          /\ win.sent.account = ask.account
      BY <2>3 DEF Offers, Order
    <3>2. win.generation \in Nat
      BY WindowNow DEF Windows
    <3>3. o \in Orders(Len(ledger))
      <4>1. 0 \in 0 .. Len(ledger)
        BY <1>3
      <4> QED  BY <1>3, <3>2, <4>1 DEF Order, Orders, Names
    <3>4. win.generation # 0
      BY <1>3, <3>1, PreviewAssumption DEF IInv, SentOnce, NoTarget
    <3> HIDE DEF o
    <3>5. OrderFits(o)
      BY <1>3, <3>1, <3>2, <3>4 DEF OrderFits, Current
    <3>6. orders' = Append(orders, o)
      BY <2>3 DEF o
    <3> QED  BY <2>1, <3>3, <3>5, <3>6
  <2> QED  BY <1>2, <2>2, <2>3
<1>7. /\ posts' \in Seq(Seens(Len(ledger))) /\ Len(posts') <= MaxPosts /\ slot' \in Seens(Len(ledger))
      /\ \A i \in 1 .. Len(posts') : SeenFits(posts'[i])
      /\ slot' # NoFrame => slot'.what = "frame" /\ SeenFits(slot')
      /\ \A i \in 1 .. Len(posts') : posts'[i].what = "slot" => slot' # NoFrame
      /\ \A i, j \in 1 .. Len(posts') : posts'[i].what = "slot" /\ posts'[j].what = "slot" => i = j
      /\ mishaps' \in 0 .. desk.mishaps
  BY <1>1 DEF IInv, TypeOK, PostsRight, SlotRight
<1> QED  BY <1>1, <1>4, <1>5, <1>6, <1>7, LoopKeeps

LEMMA CoolsDownKeeps == IInv /\ CoolsDown => IInv'
<1> SUFFICES ASSUME IInv, CoolsDown PROVE IInv'
  OBVIOUS
<1>1. PICK a \in Accounts : win' = [win EXCEPT !.known[a].cooling = 0]
  BY DEF CoolsDown
<1>2. UNCHANGED <<mishaps, orders, posts, slot, asks>> /\ OfLoop /\ mishaps' \in 0 .. desk.mishaps
  BY MishapsRight DEF CoolsDown
<1>3. win.known[a] \in Knowns(Len(ledger)) /\ win.known[a].out \in [ticket : Nat, generation : Nat]
      /\ win.pressed \in Nat
  BY WindowNow DEF Windows, Knowns
<1> DEFINE k == [win.known[a] EXCEPT !.cooling = 0]
<1>4. /\ k = [win.known[a] EXCEPT !.out = win.known[a].out, !.cooling = 0]
      /\ win' = [win EXCEPT !.pressed = win.pressed, !.known = [win.known EXCEPT ![a] = k],
                            !.offered = win.offered]
      /\ win.offered \in SUBSET [frame : 0 .. Len(ledger), generation : Nat]
  BY <1>1, <1>3, WindowNow DEF Windows, Knowns
<1> HIDE DEF k
<1>5. WindowFits(win') /\ win'.generation = win.generation /\ win'.sent = win.sent
  BY <1>3, <1>4, KeptOfRefresh
<1> QED  BY <1>2, <1>5, WindowKeeps

----------------------------------------------------------------------------
(* The theorems. *)

LEMMA InitRight == Init => IInv
<1> SUFFICES ASSUME Init PROVE IInv
  OBVIOUS
<1>1. /\ desk \in Desks /\ desk.accounts \subseteq Accounts /\ desk.epochs \in Nat \ {0}
      /\ desk.mishaps \in Nat /\ desk.records \in Nat /\ MaxPosts \in Nat
  BY PreviewAssumption DEF Init
<1>2. PICK a \in desk.accounts :
         win = [selected |-> a, visible |-> TRUE, online |-> 0, epoch |-> 0, stated |-> FALSE,
                picture |-> NoPicture, follow |-> "idle", known |-> [b \in Accounts |-> Unknown],
                sent |-> NoTarget, generation |-> 0, turns |-> 0, pressed |-> 0, offered |-> {}]
  BY DEF Init
<1>3. /\ mishaps = 0 /\ epoch = 1 /\ ledger = <<>> /\ orders = <<>> /\ posts = <<>> /\ slot = NoFrame
      /\ asks = {} /\ line = NoLine /\ Len(ledger) = 0
      /\ thread = [at |-> "rest", frame |-> 0, upTo |-> 0, lane |-> 0, failed |-> {}, lost |-> {}]
  BY DEF Init
<1>4. Unknown \in Knowns(0) /\ Unknown.newest = 0
  BY DEF Unknown, Knowns, NoAsk
<1>5. [b \in Accounts |-> Unknown] \in [Accounts -> Knowns(0)]
  BY <1>4
<1>6. NoPicture \in [account : Names, epoch : Nat, frame : 0 .. 0, marks : SUBSET (1 .. 0)]
  BY DEF NoPicture, Names
<1>7. win \in Windows(0)
  BY <1>1, <1>2, <1>5, <1>6 DEF Windows, NoTarget, Names
<1>8. NoLine \in Lines(0) /\ NoFrame \in Seens(0) /\ thread \in Threads(0)
  BY <1>3 DEF NoLine, NoFrame, Lines, Seens, Threads, Names
<1>9. TypeOK
  BY <1>1, <1>3, <1>7, <1>8 DEF TypeOK
<1>10. SentRight /\ SentOnce /\ KnownRight /\ AsksRight /\ PictureIsItsOwn
  BY <1>2, <1>3, <1>4 DEF SentRight, SentOnce, KnownRight, AsksRight, PictureIsItsOwn, Target, Frames
<1>11. OrdersRight /\ LineRight /\ ThreadRight /\ PostsRight /\ SlotRight
  BY <1>3 DEF OrdersRight, LineRight, LineFits, ThreadRight, ThreadFits, PostsRight, SlotRight
<1> QED  BY <1>9, <1>10, <1>11 DEF IInv

LEMMA StepKeeps == IInv /\ [Next]_vars => IInv'
<1> SUFFICES ASSUME IInv, [Next]_vars PROVE IInv'
  OBVIOUS
<1>1. CASE Record \/ Restart \/ Observe
  BY <1>1, RecordKeeps, RestartKeeps, ObserveKeeps
<1>2. CASE ThreadStep
  BY <1>2, TakeOrderKeeps, LookUpNothingKeeps, LookUpKeeps, MarkPageKeeps, OwedPageKeeps, PollKeeps, PollAgainKeeps,
     MarkPageAgainKeeps, BeginReadKeeps, EndReadKeeps DEF ThreadStep
<1>3. CASE LoopStep
  BY <1>3, StatusLandsKeeps, StatusFailsKeeps, ShowOrHideKeeps, PickKeeps, LandKeeps, PressKeeps,
     RefreshLandsKeeps, CoolsDownKeeps DEF LoopStep
<1>4. CASE UNCHANGED vars
  <2>1. /\ UNCHANGED <<desk, mishaps, epoch, ledger, orders, line, thread, posts, slot, win, asks>>
    BY <1>4 DEF vars
  <2>2. TypeOK' /\ SentRight' /\ SentOnce' /\ KnownRight' /\ AsksRight' /\ PictureIsItsOwn'
    BY <2>1 DEF IInv, TypeOK, SentRight, SentOnce, KnownRight, AsksRight, PictureIsItsOwn, Target, Frames,
                FramesOf, MarksOf
  <2>3. OrdersRight' /\ LineRight' /\ ThreadRight'
    BY <2>1 DEF IInv, OrdersRight, OrderFits, LineRight, ThreadRight, ThreadFits, LineFits,
                Current, Ours, Frames, FramesOf, AllMarks
  <2>4. PostsRight' /\ SlotRight'
    BY <2>1 DEF IInv, PostsRight, SlotRight, SeenFits, Current, Ours, Frames, FramesOf, MarksOf
  <2> QED  BY <2>2, <2>3, <2>4 DEF IInv
<1> QED  BY <1>1, <1>2, <1>3, <1>4 DEF Next

LEMMA Inductive == Spec => []IInv
BY InitRight, StepKeeps, PTL DEF Spec

\* Every variable of the picture and its thread has its type, and nothing under way names a
\* record the ledger has not: a lookup, a poll and a read are bounded by what was recorded.
THEOREM TypesHold == Spec => []TypeOK
<1>1. IInv => TypeOK
  BY DEF IInv
<1> QED  BY <1>1, Inductive, PTL

\* The picture shown is a frame of the account picked, and what is drawn on it was
\* recognized on that very frame, whatever was picked, restarted or refreshed meanwhile.
THEOREM PicturesAreTheirOwn == Spec => []PictureIsItsOwn
<1>1. IInv => PictureIsItsOwn
  BY DEF IInv
<1> QED  BY <1>1, Inductive, PTL
=============================================================================
