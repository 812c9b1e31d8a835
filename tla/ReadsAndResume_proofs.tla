------------------------ MODULE ReadsAndResume_proofs ------------------------
(***************************************************************************)
(* Of the workbench's reads: that what it shows of the Runtime is of the   *)
(* owner epoch and of the writes it knows of, and that what it waits for   *)
(* is on its way, for any window, any number of Runtimes, writes and       *)
(* tries.  Of the conditional resume: that a person's presses send one     *)
(* request at a time, and that a request lifts only the pause whose own    *)
(* line both presses were made on, for any scopes, pauses, Runtimes and    *)
(* reopens.  Both whichever faults there are.                              *)
(***************************************************************************)
EXTENDS Reads, Resume, SequenceTheorems, FiniteSetTheorems, TLAPS

-----------------------------------------------------------------------------
(* The workbench's reads.                                                  *)

(* What was posted and not yet taken.                                      *)
Items(q) == {q[i] : i \in 1..Len(q)}

LEMMA ItemsTyped == ASSUME NEW q \in Seq(Landings) PROVE Items(q) \subseteq Landings
<1>1. \A i \in 1..Len(q) : q[i] \in Landings
  OBVIOUS
<1>2. QED
  BY <1>1 DEF Items

LEMMA Appended ==
  ASSUME NEW q \in Seq(Landings), NEW m \in Landings
  PROVE  Append(q, m) \in Seq(Landings) /\ Items(Append(q, m)) = Items(q) \cup {m}
<1>1. /\ Append(q, m) \in Seq(Landings) /\ Len(Append(q, m)) = Len(q) + 1
      /\ \A i \in 1..Len(q) : Append(q, m)[i] = q[i]
      /\ Append(q, m)[Len(q) + 1] = m
  OBVIOUS
<1>2. Len(q) \in Nat /\ 1..(Len(q) + 1) = 1..Len(q) \cup {Len(q) + 1}
  OBVIOUS
<1>3. Items(Append(q, m)) \subseteq Items(q) \cup {m}
  BY <1>1, <1>2 DEF Items
<1>4. Items(q) \cup {m} \subseteq Items(Append(q, m))
  BY <1>1, <1>2 DEF Items
<1>5. QED
  BY <1>1, <1>3, <1>4

LEMMA Taken ==
  ASSUME NEW q \in Seq(Landings), q # <<>>
  PROVE  /\ Head(q) \in Landings /\ Tail(q) \in Seq(Landings)
         /\ Items(q) = {Head(q)} \cup Items(Tail(q))
<1>1. /\ Head(q) \in Landings /\ Tail(q) \in Seq(Landings)
      /\ Head(q) = q[1] /\ Len(Tail(q)) = Len(q) - 1 /\ Len(q) \in Nat \ {0}
      /\ \A i \in 1..(Len(q) - 1) : Tail(q)[i] = q[i + 1]
  OBVIOUS
<1>2. Items(q) \subseteq {Head(q)} \cup Items(Tail(q))
  <2> SUFFICES ASSUME NEW i \in 1..Len(q) PROVE q[i] \in {Head(q)} \cup Items(Tail(q))
    BY DEF Items
  <2>1. CASE i = 1
    BY <1>1, <2>1
  <2>2. CASE i # 1
    <3>1. i - 1 \in 1..(Len(q) - 1) /\ q[i] = Tail(q)[i - 1]
      BY <1>1, <2>2
    <3>2. QED
      BY <1>1, <3>1 DEF Items
  <2>3. QED
    BY <2>1, <2>2
<1>3. {Head(q)} \cup Items(Tail(q)) \subseteq Items(q)
  <2>1. Head(q) \in Items(q)
    BY <1>1 DEF Items
  <2>2. ASSUME NEW i \in 1..(Len(q) - 1) PROVE Tail(q)[i] \in Items(q)
    BY <1>1, i + 1 \in 1..Len(q) DEF Items
  <2>3. QED
    BY <1>1, <2>1, <2>2 DEF Items
<1>4. QED
  BY <1>1, <1>2, <1>3

-----------------------------------------------------------------------------
(* The inductive invariant.                                                *)

\* A read's age and what it states: a read begun since the last write landed states every
\* write known by then; and no read is of a Runtime yet to come.
Stated(gen, got, own, wrote, knows) ==
  /\ gen <= wrote /\ got.epoch <= own
  /\ gen = wrote /\ got.out = "ok" => got.facts >= knows

Held ==
  \A lane \in Lanes : /\ lanes[lane].read = NoRead => lanes[lane].found = NothingFound
                      /\ Stated(lanes[lane].gen, lanes[lane].found, runtime.epoch, written, known)

Queued == \A m \in Items(queue) : m.what \in Read => Stated(m.gen, m, runtime.epoch, written, known)

\* Of the view alone: what it shows, what it owes, and what it waits for.
Kept(v, made) ==
  /\ \A slice \in Slices : v.slice[slice].epoch \in {0, v.epoch}
  /\ v.owed \subseteq made
  /\ "watchdog" \in v.owed => v.auto # "asked"
  /\ v.auto = "asked" => v.asks > 0
  /\ v.auto \in {"asked", "read"} => v.autoOf = v.restarts

Owes(v) == v.shown => "names" \notin v.owed /\ ~("watchdog" \in v.owed /\ v.page = "settings")

\* The answer of `watchdog status` waited for is to come.
AutoOut(v, t, q) ==
  v.auto = "asked" => \/ v.asks \in {t.asked.watchdog, t.round.watchdog}
                      \/ \E m \in Items(q) : m.what = "watchdog" /\ m.gen = v.asks

\* So is a start report that counts, while the Runtime shown is the one that runs.
Counts(got, own) == got.out # "ok" \/ got.epoch = own

StartOut(v, threads, q, own) ==
  (v.start.asked /\ ~threads["slow"].lost /\ v.epoch = own) =>
    \/ "start" \in threads["slow"].asked
    \/ threads["slow"].read = "start" /\ Counts(threads["slow"].found, v.epoch)
    \/ \E m \in Items(q) : m.what = "start" /\ Counts(m, v.epoch)

IInv ==
  /\ TypeOK /\ Held /\ Queued
  /\ view.epoch <= runtime.epoch /\ Kept(view, kinds) /\ Owes(view)
  /\ AutoOut(view, tools, queue) /\ StartOut(view, lanes, queue, runtime.epoch)

LEMMA NothingIsFound == 0 \in Epochs /\ 1 \in Epochs /\ NothingFound \in Found
<1>1. 0 \in Epochs /\ 1 \in Epochs
  BY ReadsAssumption DEF Epochs
<1>2. QED
  BY <1>1 DEF NothingFound, Found, Outs

LEMMA NoJobsAsked == \A names \in BOOLEAN : [NoJobs EXCEPT !.names = names] \in Rounds /\ NoJobs \in Rounds
BY DEF NoJobs, Rounds

LEMMA FirstRuntime ==
  ASSUME NEW r \in {[up |-> FALSE, epoch |-> 0], [up |-> TRUE, epoch |-> 1]}
  PROVE  r \in [up : BOOLEAN, epoch : Epochs]
<1>1. CASE r = [up |-> FALSE, epoch |-> 0]
  BY <1>1, NothingIsFound
<1>2. CASE r = [up |-> TRUE, epoch |-> 1]
  BY <1>2, NothingIsFound
<1>3. QED
  BY <1>1, <1>2

LEMMA InitInv == Init => IInv
<1> SUFFICES ASSUME Init PROVE IInv
  OBVIOUS
<1> USE DEF Init
<1>1. PICK refused \in SUBSET Refusable :
        lanes = [lane \in Lanes |-> FirstLane(lane, refused)] /\ view = FirstView(refused)
  OBVIOUS
<1>2. kinds \subseteq Read \cup Job
  BY ReadsAssumption
<1>3. runtime \in [up : BOOLEAN, epoch : Epochs]
  BY FirstRuntime
<1>4. \A lane \in Lanes : FirstLane(lane, refused) \in Threads
  BY ReadsAssumption DEF FirstLane, Threads, Clocked, Plan, NothingFound, Found, Outs, Epochs, NoRead
<1>5. view \in Views
  BY <1>1, ReadsAssumption DEF FirstView, Views, Links, Epochs, NoSlice, NoStart
<1>6. tools \in [asked : Rounds, round : Rounds]
  <2>1. NoJobs \in Rounds /\ [NoJobs EXCEPT !.names = "names" \in kinds] \in Rounds
    <3>1. ("names" \in kinds) \in BOOLEAN
      OBVIOUS
    <3> DEFINE named == "names" \in kinds
    <3>2. named \in BOOLEAN
      BY <3>1
    <3> HIDE DEF named
    <3>3. [NoJobs EXCEPT !.names = named] \in Rounds /\ NoJobs \in Rounds
      BY <3>2, NoJobsAsked
    <3> USE DEF named
    <3>4. QED
      BY <3>3
  <2>2. QED
    BY <2>1
<1>7. TypeOK
  BY <1>1, <1>3, <1>4, <1>5, <1>6 DEF TypeOK
<1>8. Held
  BY <1>1, <1>3 DEF Held, FirstLane, Stated, NothingFound, Epochs
<1>9. Items(queue) = {}
  BY DEF Items
<1>10. Kept(view, kinds) /\ Owes(view)
  BY <1>1 DEF FirstView, Kept, Owes, NoSlice
<1>11. view.epoch <= runtime.epoch /\ AutoOut(view, tools, queue) /\ StartOut(view, lanes, queue, runtime.epoch)
  BY <1>1, <1>3 DEF FirstView, NoStart, AutoOut, StartOut, Epochs
<1>12. QED
  BY <1>7, <1>8, <1>9, <1>10, <1>11 DEF IInv, Queued

-----------------------------------------------------------------------------
(* The reading threads.                                                    *)

LEMMA BeginReadInv ==
  ASSUME IInv, NEW lane \in Lanes, NEW read \in Plan(lane), BeginRead(lane, read) PROVE IInv'
<1> DEFINE th == [lanes[lane] EXCEPT !.read = read, !.gen = written, !.asked = lanes[lane].asked \ {read}]
<1>1. TypeOK /\ lanes[lane] \in Threads /\ read \in Read
  BY DEF IInv, TypeOK, Plan
<1>2. UNCHANGED <<kinds, runtime, taken, tools, queue, written, known, view>>
  BY DEF BeginRead
<1>3. lanes' = [lanes EXCEPT ![lane] = th]
  BY <1>1 DEF BeginRead, TypeOK, Threads
<1>4. /\ th \in Threads /\ th.read = read /\ th.gen = written /\ th.asked = lanes[lane].asked \ {read}
      /\ th.found = lanes[lane].found /\ th.lost = lanes[lane].lost
  BY <1>1 DEF Threads, TypeOK
<1> HIDE DEF th
<1>5. lanes' \in [Lanes -> Threads] /\ \A l \in Lanes : lanes'[l] = IF l = lane THEN th ELSE lanes[l]
  BY <1>1, <1>3, <1>4 DEF TypeOK
<1>6. TypeOK'
  BY <1>1, <1>2, <1>5 DEF TypeOK
<1>7. lanes[lane].found = NothingFound
  BY DEF BeginRead, IInv, Held
<1>8. read # NoRead
  BY <1>1 DEF Read, NoRead
<1>9. Held'
  <2>1. Stated(written, NothingFound, runtime.epoch, written, known)
    BY <1>1 DEF Stated, NothingFound, TypeOK, Epochs
  <2>2. QED
    BY <1>2, <1>4, <1>5, <1>7, <1>8, <2>1 DEF IInv, Held
<1>10. StartOut(view', lanes', queue', runtime'.epoch)
  <2>1. CASE lane = "slow"
    <3>1. Counts(NothingFound, view.epoch)
      BY DEF Counts, NothingFound
    <3>2. /\ lanes'["slow"] = th
          /\ lanes["slow"].read = NoRead
      BY <1>5, <2>1 DEF BeginRead, Lanes
    <3>3. lanes["slow"].read # "start"
      BY <3>2 DEF NoRead
    <3>4. QED
      BY <1>2, <1>4, <1>7, <2>1, <3>1, <3>2, <3>3 DEF IInv, StartOut
  <2>2. CASE lane # "slow"
    BY <1>2, <1>5, <2>2 DEF IInv, StartOut, Lanes
  <2>3. QED
    BY <2>1, <2>2
<1>11. QED
  BY <1>2, <1>6, <1>9, <1>10 DEF IInv, Queued

LEMMA SampledInv ==
  ASSUME IInv, NEW lane \in Lanes, NEW got \in Found, NEW conn \in Epochs, Sampled(lane, got, conn),
         got = Answer \/ (got.out # "ok" /\ got.epoch = 0)
  PROVE  IInv'
<1> DEFINE th == [lanes[lane] EXCEPT !.found = got, !.conn = conn]
<1>1. TypeOK /\ lanes[lane] \in Threads
  BY DEF IInv, TypeOK
<1>2. UNCHANGED <<kinds, runtime, taken, tools, queue, written, known, view>>
  BY DEF Sampled
<1>3. lanes' = [lanes EXCEPT ![lane] = th]
  BY <1>1 DEF Sampled, TypeOK, Threads
<1>4. /\ th \in Threads /\ th.read = lanes[lane].read /\ th.gen = lanes[lane].gen
      /\ th.asked = lanes[lane].asked /\ th.found = got /\ th.lost = lanes[lane].lost
  BY <1>1 DEF Threads
<1> HIDE DEF th
<1>5. lanes' \in [Lanes -> Threads] /\ \A l \in Lanes : lanes'[l] = IF l = lane THEN th ELSE lanes[l]
  BY <1>1, <1>3, <1>4 DEF TypeOK
<1>6. TypeOK'
  BY <1>1, <1>2, <1>5 DEF TypeOK
<1>7. Held'
  <2>1. Stated(lanes[lane].gen, got, runtime.epoch, written, known)
    <3>1. lanes[lane].gen <= written /\ runtime.epoch \in Nat /\ known <= taken
      BY <1>1 DEF IInv, Held, Stated, TypeOK, Epochs
    <3>2. QED
      BY <3>1 DEF Stated, Answer
  <2>2. lanes[lane].read # NoRead
    BY DEF Sampled
  <2>3. QED
    BY <1>2, <1>4, <1>5, <2>1, <2>2 DEF IInv, Held
<1>8. StartOut(view', lanes', queue', runtime'.epoch)
  <2>1. Counts(got, runtime.epoch)
    BY DEF Counts, Answer
  <2>2. lanes'["slow"] = lanes["slow"] \/ (lane = "slow" /\ lanes'["slow"] = th)
    BY <1>5 DEF Lanes
  <2>3. QED
    BY <1>2, <1>4, <2>1, <2>2 DEF IInv, StartOut
<1>9. QED
  BY <1>2, <1>6, <1>7, <1>8 DEF IInv, Queued

LEMMA SamplesInv == IInv /\ (SampleLive \/ SampleSlow \/ PanicLive) => IInv'
<1> SUFFICES ASSUME IInv, SampleLive \/ SampleSlow \/ PanicLive PROVE IInv'
  OBVIOUS
<1>1. Answer \in Found /\ runtime.epoch \in Epochs /\ 0 \in Epochs
  BY ReadsAssumption DEF Answer, Found, Outs, Epochs, IInv, TypeOK
<1>2. \A out \in Outs : Failure(out) \in Found /\ Failure(out).out = out /\ Failure(out).epoch = 0
  BY <1>1 DEF Failure, NothingFound, Found
<1>3. \E lane \in Lanes, got \in Found, conn \in Epochs :
        Sampled(lane, got, conn) /\ (got = Answer \/ (got.out # "ok" /\ got.epoch = 0))
  <2>1. CASE SampleLive
    BY <1>1, <1>2, <2>1 DEF SampleLive, Lanes, Outs
  <2>2. CASE SampleSlow
    BY <1>1, <1>2, <2>2 DEF SampleSlow, Lanes, Outs
  <2>3. CASE PanicLive
    BY <1>1, <1>2, <2>3 DEF PanicLive, Lanes, Outs
  <2>4. QED
    BY <2>1, <2>2, <2>3
<1>4. QED
  BY <1>3, SampledInv

(* What was posted joins what is to be taken.                              *)
LEMMA PostedItems ==
  ASSUME TypeOK, NEW what \in Read \cup Job, NEW gen \in Nat, NEW got \in Found, Posted(what, gen, got)
  PROVE  LET m == [what |-> what, gen |-> gen, out |-> got.out, epoch |-> got.epoch,
                   facts |-> got.facts]
         IN m \in Landings /\ queue' \in Seq(Landings) /\ Items(queue') = Items(queue) \cup {m}
<1> DEFINE m == [what |-> what, gen |-> gen, out |-> got.out, epoch |-> got.epoch,
                 facts |-> got.facts]
<1>1. m \in Landings
  BY DEF Landings, Found
<1>2. queue' = Append(queue, m)
  BY DEF Posted
<1>3. QED
  BY <1>1, <1>2, Appended DEF TypeOK

LEMMA PostInv == ASSUME IInv, NEW lane \in Lanes, Post(lane) PROVE IInv'
<1> DEFINE th == [lanes[lane] EXCEPT !.read = NoRead, !.gen = 0, !.found = NothingFound]
           read == lanes[lane].read
           got == lanes[lane].found
           m == [what |-> read, gen |-> lanes[lane].gen, out |-> got.out, epoch |-> got.epoch,
                 facts |-> got.facts]
<1>1. TypeOK /\ lanes[lane] \in Threads
  BY DEF IInv, TypeOK
<1>2. UNCHANGED <<kinds, runtime, taken, tools, written, known, view>>
  BY DEF Post
<1>3. lanes' = [lanes EXCEPT ![lane] = th]
  BY <1>1 DEF Post, TypeOK, Threads
<1>4. /\ th \in Threads /\ th.read = NoRead /\ th.gen = 0 /\ th.found = NothingFound
      /\ th.asked = lanes[lane].asked /\ th.lost = lanes[lane].lost
  BY <1>1, NothingIsFound DEF Threads
<1>5. read \in Read
  BY <1>1 DEF Post, IInv, Held, Threads
<1>6. m \in Landings /\ queue' \in Seq(Landings) /\ Items(queue') = Items(queue) \cup {m}
  BY <1>1, <1>5, PostedItems DEF Post, Threads
<1> HIDE DEF th
<1>7. lanes' \in [Lanes -> Threads] /\ \A l \in Lanes : lanes'[l] = IF l = lane THEN th ELSE lanes[l]
  BY <1>1, <1>3, <1>4 DEF TypeOK
<1>8. TypeOK'
  BY <1>1, <1>2, <1>6, <1>7 DEF TypeOK
<1>9. Held' /\ Queued'
  <2>1. Stated(0, NothingFound, runtime.epoch, written, known)
    BY <1>1 DEF Stated, NothingFound, TypeOK, Epochs
  <2>2. Stated(m.gen, m, runtime.epoch, written, known)
    BY DEF IInv, Held, Stated
  <2>3. QED
    BY <1>2, <1>4, <1>6, <1>7, <2>1, <2>2 DEF IInv, Held, Queued
<1>10. AutoOut(view', tools', queue')
  BY <1>2, <1>6 DEF IInv, AutoOut
<1>11. StartOut(view', lanes', queue', runtime'.epoch)
  <2>1. CASE lane = "slow"
    <3>1. lanes'["slow"] = th
      BY <1>7, <2>1 DEF Lanes
    <3>2. Counts(m, view.epoch) <=> Counts(got, view.epoch)
      BY DEF Counts
    <3>3. QED
      BY <1>2, <1>4, <1>6, <2>1, <3>1, <3>2 DEF IInv, StartOut
  <2>2. CASE lane # "slow"
    BY <1>2, <1>6, <1>7, <2>2 DEF IInv, StartOut, Lanes
  <2>3. QED
    BY <2>1, <2>2
<1>12. QED
  BY <1>2, <1>8, <1>9, <1>10, <1>11 DEF IInv

-----------------------------------------------------------------------------
(* The thread that runs actingctl.                                         *)

ToolsType == [asked : Rounds, round : Rounds]

LEMMA ToolStepInv == IInv /\ ToolStep => IInv'
<1> SUFFICES ASSUME IInv, ToolStep PROVE IInv'
  OBVIOUS
<1>1. TypeOK /\ UNCHANGED <<kinds, runtime, taken, lanes, written, known, view>>
  BY DEF IInv, ToolStep, BeginJobs, RunNames, RunWatchdog
<1>2. NothingFound \in Found /\ \A out \in {"ok", "failed"} : [NothingFound EXCEPT !.out = out] \in Found
  BY NothingIsFound DEF NothingFound, Found, Outs
<1>3. /\ tools' \in [asked : Rounds, round : Rounds] /\ queue' \in Seq(Landings)
      /\ Items(queue) \subseteq Items(queue')
      /\ \A m \in Items(queue') : m \in Items(queue) \/ m.what \notin Read
      /\ AutoOut(view, tools', queue')
  <2>1. CASE BeginJobs
    <3>1. tools' = [asked |-> NoJobs, round |-> tools.asked] /\ queue' = queue /\ tools.round = NoJobs
      BY <2>1 DEF BeginJobs
    <3>2. AutoOut(view, tools', queue')
      BY <3>1 DEF IInv, AutoOut, Kept, NoJobs
    <3>3. QED
      BY <1>1, <3>1, <3>2, NoJobsAsked DEF TypeOK
  <2>2. CASE RunNames
    <3>1. PICK out \in {"ok", "failed"} : Posted("names", 0, [NothingFound EXCEPT !.out = out])
      BY <2>2 DEF RunNames
    <3>2. /\ queue' \in Seq(Landings)
          /\ \E m : m.what = "names" /\ Items(queue') = Items(queue) \cup {m}
      BY <1>1, <1>2, <3>1, PostedItems DEF Job
    <3>3. /\ tools' \in [asked : Rounds, round : Rounds] /\ tools'.asked = tools.asked
          /\ tools'.round.watchdog = tools.round.watchdog
      BY <1>1, <2>2 DEF RunNames, TypeOK, Rounds
    <3>4. QED
      BY <3>2, <3>3 DEF IInv, AutoOut, Read
  <2>3. CASE RunWatchdog
    <3>1. /\ Posted("watchdog", tools.round.watchdog, [NothingFound EXCEPT !.out = "ok"])
          /\ tools' = [tools EXCEPT !.round.watchdog = 0]
      BY <2>3 DEF RunWatchdog
    <3>2. tools.round.watchdog \in Nat
      BY <1>1 DEF TypeOK, Rounds
    <3>3. /\ queue' \in Seq(Landings)
          /\ \E m : m.what = "watchdog" /\ m.gen = tools.round.watchdog
                    /\ Items(queue') = Items(queue) \cup {m}
      BY <1>1, <1>2, <3>1, <3>2, PostedItems DEF Job
    <3>4. tools' \in [asked : Rounds, round : Rounds] /\ tools'.asked = tools.asked
      BY <1>1, <3>1 DEF TypeOK, Rounds
    <3>5. QED
      BY <3>3, <3>4 DEF IInv, AutoOut, Read
  <2>4. QED
    BY <2>1, <2>2, <2>3 DEF ToolStep
<1>4. TypeOK'
  BY <1>1, <1>3 DEF TypeOK
<1>5. Queued'
  BY <1>1, <1>3 DEF IInv, Queued
<1>6. StartOut(view', lanes', queue', runtime'.epoch)
  BY <1>1, <1>3 DEF IInv, StartOut
<1>7. QED
  BY <1>1, <1>3, <1>4, <1>5, <1>6 DEF IInv, Held

(* An ask of the tools keeps what the view waits for.                      *)
LEMMA NamesAsked ==
  ASSUME NEW v \in Views, NEW t \in ToolsType, NEW q
  PROVE  LET r == AskNames(v, t)
         IN /\ r[1] \in Views /\ r[2] \in ToolsType
            /\ r[1].epoch = v.epoch /\ r[1].start = v.start /\ r[1].shown = v.shown /\ r[1].page = v.page
            /\ r[1].slice = v.slice
            /\ Kept(v, kinds) => Kept(r[1], kinds)
            /\ "watchdog" \in r[1].owed <=> "watchdog" \in v.owed
            /\ Kept(v, kinds) /\ v.shown => "names" \notin r[1].owed
            /\ AutoOut(v, t, q) => AutoOut(r[1], r[2], q)
<1> DEFINE r == AskNames(v, t)
           out == [v EXCEPT !.owed = v.owed \ {"names"}]
           owed == [v EXCEPT !.owed = v.owed \cup {"names"}]
           ask == [t EXCEPT !.asked.names = TRUE]
<1>1. out \in Views /\ owed \in Views
  BY DEF Views, Job
<1>2. ask \in ToolsType /\ ask.asked.watchdog = t.asked.watchdog /\ ask.round = t.round
  BY DEF ToolsType, Rounds
<1>3. \/ "names" \notin kinds /\ r = <<v, t>>
      \/ "names" \in kinds /\ v.shown /\ r = <<out, ask>>
      \/ "names" \in kinds /\ ~v.shown /\ r = <<owed, t>>
  BY DEF AskNames, Views, ToolsType, Rounds
<1>4. CASE "names" \notin kinds /\ r = <<v, t>>
  BY <1>4 DEF Kept
<1>5. CASE "names" \in kinds /\ v.shown /\ r = <<out, ask>>
  <2>1. /\ out.epoch = v.epoch /\ out.start = v.start /\ out.shown = v.shown /\ out.page = v.page
        /\ out.owed = v.owed \ {"names"} /\ out.auto = v.auto /\ out.autoOf = v.autoOf
        /\ out.slice = v.slice /\ out.asks = v.asks /\ out.restarts = v.restarts
    BY DEF Views
  <2>2. r[1] = out /\ r[2] = ask
    BY <1>5
  <2> HIDE DEF r, out, ask
  <2>3. Kept(v, kinds) => Kept(out, kinds)
    BY <2>1 DEF Kept
  <2>4. AutoOut(v, t, q) => AutoOut(out, ask, q)
    BY <1>2, <2>1 DEF AutoOut
  <2>5. /\ "watchdog" \in out.owed <=> "watchdog" \in v.owed
        /\ "names" \notin out.owed
    BY <2>1
  <2>6. QED
    BY <1>1, <1>2, <2>1, <2>2, <2>3, <2>4, <2>5 DEF r
<1>6. CASE "names" \in kinds /\ ~v.shown /\ r = <<owed, t>>
  <2>1. /\ owed.epoch = v.epoch /\ owed.start = v.start /\ owed.shown = v.shown /\ owed.page = v.page
        /\ owed.owed = v.owed \cup {"names"} /\ owed.auto = v.auto /\ owed.autoOf = v.autoOf
        /\ owed.slice = v.slice /\ owed.asks = v.asks /\ owed.restarts = v.restarts
    BY DEF Views
  <2>2. r[1] = owed /\ r[2] = t
    BY <1>6
  <2> HIDE DEF r, out, owed
  <2>3. (Kept(v, kinds) => Kept(owed, kinds)) /\ (AutoOut(v, t, q) => AutoOut(owed, t, q))
    BY <1>6, <2>1 DEF Kept, AutoOut
  <2>4. "watchdog" \in owed.owed <=> "watchdog" \in v.owed
    BY <2>1
  <2>5. QED
    BY <1>1, <1>6, <2>1, <2>2, <2>3, <2>4 DEF r
<1>7. QED
  BY <1>3, <1>4, <1>5, <1>6

LEMMA AutostartAsked ==
  ASSUME NEW v \in Views, NEW t \in ToolsType, NEW q, Kept(v, kinds)
  PROVE  LET r == AskAutostart(v, t)
         IN /\ r[1] \in Views /\ r[2] \in ToolsType
            /\ r[1].epoch = v.epoch /\ r[1].start = v.start /\ r[1].shown = v.shown /\ r[1].page = v.page
            /\ r[1].slice = v.slice
            /\ Kept(r[1], kinds)
            /\ "names" \in r[1].owed <=> "names" \in v.owed
            /\ v.shown => "watchdog" \notin r[1].owed
            /\ AutoOut(v, t, q) => AutoOut(r[1], r[2], q)
<1> DEFINE r == AskAutostart(v, t)
           n == v.asks + 1
           out == [v EXCEPT !.owed = v.owed \ {"watchdog"}, !.auto = "asked", !.asks = n,
                            !.autoOf = v.restarts]
           owed == [v EXCEPT !.owed = v.owed \cup {"watchdog"}]
           ask == [t EXCEPT !.asked.watchdog = n]
<1>1. n \in Nat /\ n > 0
  BY DEF Views
<1>2. \/ ("watchdog" \notin kinds \/ v.auto = "asked") /\ r = <<v, t>>
      \/ "watchdog" \in kinds /\ v.auto # "asked" /\ v.shown /\ r = <<out, ask>>
      \/ "watchdog" \in kinds /\ v.auto # "asked" /\ ~v.shown /\ r = <<owed, t>>
  BY DEF AskAutostart, Views, ToolsType, Rounds
<1> HIDE DEF n
<1>3. out \in Views /\ owed \in Views
  BY <1>1 DEF Views, Job
<1>4. ask \in ToolsType /\ ask.asked.watchdog = n
  BY <1>1 DEF ToolsType, Rounds
<1>5. CASE ("watchdog" \notin kinds \/ v.auto = "asked") /\ r = <<v, t>>
  BY <1>5 DEF Kept
<1>6. CASE "watchdog" \in kinds /\ v.auto # "asked" /\ v.shown /\ r = <<out, ask>>
  <2>1. /\ out.epoch = v.epoch /\ out.start = v.start /\ out.shown = v.shown /\ out.page = v.page
        /\ out.owed = v.owed \ {"watchdog"} /\ out.auto = "asked" /\ out.autoOf = v.restarts
        /\ out.slice = v.slice /\ out.asks = n /\ out.restarts = v.restarts
    BY DEF Views
  <2>2. r[1] = out /\ r[2] = ask
    BY <1>6
  <2> HIDE DEF r, out, ask
  <2>3. Kept(out, kinds)
    BY <1>1, <2>1 DEF Kept
  <2>4. AutoOut(out, ask, q)
    BY <1>4, <2>1 DEF AutoOut
  <2>5. /\ "names" \in out.owed <=> "names" \in v.owed
        /\ "watchdog" \notin out.owed
    BY <2>1
  <2>6. QED
    BY <1>3, <1>4, <2>1, <2>2, <2>3, <2>4, <2>5 DEF r
<1>7. CASE "watchdog" \in kinds /\ v.auto # "asked" /\ ~v.shown /\ r = <<owed, t>>
  <2>1. /\ owed.epoch = v.epoch /\ owed.start = v.start /\ owed.shown = v.shown /\ owed.page = v.page
        /\ owed.owed = v.owed \cup {"watchdog"} /\ owed.auto = v.auto /\ owed.autoOf = v.autoOf
        /\ owed.slice = v.slice /\ owed.asks = v.asks /\ owed.restarts = v.restarts
    BY DEF Views
  <2>2. r[1] = owed /\ r[2] = t
    BY <1>7
  <2> HIDE DEF r, out, owed
  <2>3. Kept(owed, kinds) /\ (AutoOut(v, t, q) => AutoOut(owed, t, q))
    BY <1>7, <2>1 DEF Kept, AutoOut
  <2>4. "names" \in owed.owed <=> "names" \in v.owed
    BY <2>1
  <2>5. QED
    BY <1>3, <1>7, <2>1, <2>2, <2>3, <2>4 DEF r
<1>8. QED
  BY <1>2, <1>5, <1>6, <1>7
-----------------------------------------------------------------------------
(* Reads asked of the threads: what a thread is about stays as it is.      *)
LEMMA PokedThreads ==
  ASSUME NEW threads \in [Lanes -> Threads], NEW asks
  PROVE  LET poked == Poke(threads, asks)
         IN /\ poked \in [Lanes -> Threads]
            /\ \A lane \in Lanes :
                  /\ poked[lane].lost = threads[lane].lost /\ poked[lane].read = threads[lane].read
                  /\ poked[lane].gen = threads[lane].gen /\ poked[lane].found = threads[lane].found
                  /\ threads[lane].asked \subseteq poked[lane].asked
                  /\ ~threads[lane].lost => asks \cap Plan(lane) \subseteq poked[lane].asked
<1> DEFINE poked == Poke(threads, asks)
           th(lane) == IF threads[lane].lost THEN threads[lane]
                       ELSE [threads[lane] EXCEPT !.asked = threads[lane].asked \cup (asks \cap Plan(lane))]
<1>1. poked = [lane \in Lanes |-> th(lane)]
  BY DEF Poke, Threads
<1>2. ASSUME NEW lane \in Lanes
      PROVE  /\ th(lane) \in Threads
             /\ th(lane).lost = threads[lane].lost /\ th(lane).read = threads[lane].read
             /\ th(lane).gen = threads[lane].gen /\ th(lane).found = threads[lane].found
             /\ threads[lane].asked \subseteq th(lane).asked
             /\ ~threads[lane].lost => asks \cap Plan(lane) \subseteq th(lane).asked
  <2>1. threads[lane] \in Threads /\ Plan(lane) \subseteq Read
    BY DEF Plan
  <2>2. CASE threads[lane].lost
    BY <2>1, <2>2
  <2>3. CASE ~threads[lane].lost
    <3> DEFINE more == threads[lane].asked \cup (asks \cap Plan(lane))
    <3>1. more \subseteq Read
      BY <2>1 DEF Threads
    <3> HIDE DEF more
    <3>2. LET r == [threads[lane] EXCEPT !.asked = more]
          IN /\ r \in Threads /\ r.asked = more
             /\ r.lost = threads[lane].lost /\ r.read = threads[lane].read
             /\ r.gen = threads[lane].gen /\ r.found = threads[lane].found
      BY <2>1, <3>1 DEF Threads
    <3>3. th(lane) = [threads[lane] EXCEPT !.asked = more]
      BY <2>3 DEF more
    <3>4. threads[lane].asked \subseteq more /\ asks \cap Plan(lane) \subseteq more
      BY DEF more
    <3> HIDE DEF th
    <3>5. QED
      BY <3>2, <3>3, <3>4
  <2>4. QED
    BY <2>2, <2>3
<1> HIDE DEF th
<1>3. QED
  BY <1>1, <1>2

(* A write that lands leaves what is under way no younger, and what is     *)
(* known then was done by then.                                            *)
LEMMA StatedOn ==
  ASSUME NEW gen \in Nat, NEW got, NEW own, NEW wrote \in Nat, NEW knows, NEW knowsNow,
         Stated(gen, got, own, wrote, knows)
  PROVE  Stated(gen, got, own, wrote + 1, knowsNow)
BY DEF Stated

\* What a step that lands `more` writes and asks `asks` keeps of the threads and the queue.
LEMMA ThreadsOn ==
  ASSUME IInv, NEW asks, lanes' = Poke(lanes, asks) \/ lanes' = lanes, UNCHANGED <<kinds, runtime>>,
         \/ written' = written /\ known' = known
         \/ written' = written + 1,
         queue' \in Seq(Landings), Items(queue') \subseteq Items(queue)
  PROVE  lanes' \in [Lanes -> Threads] /\ Held' /\ Queued'
<1>1. TypeOK
  BY DEF IInv
<1>2. /\ lanes' \in [Lanes -> Threads]
      /\ \A lane \in Lanes : /\ lanes'[lane].read = lanes[lane].read
                             /\ lanes'[lane].gen = lanes[lane].gen
                             /\ lanes'[lane].found = lanes[lane].found
  BY <1>1, PokedThreads DEF TypeOK
<1>3. \A lane \in Lanes : lanes[lane].gen \in Nat
  BY <1>1 DEF TypeOK, Threads
<1>4. \A m \in Items(queue) : m.gen \in Nat
  BY <1>1, ItemsTyped DEF TypeOK, Landings
<1>5. CASE written' = written /\ known' = known
  <2>1. Held' /\ Queued'
    BY <1>2, <1>5 DEF IInv, Held, Queued
  <2>2. QED
    BY <1>2, <2>1
<1>6. CASE written' = written + 1
  <2>1. written \in Nat
    BY <1>1 DEF TypeOK
  <2>2. Held'
    BY <1>2, <1>3, <1>6, <2>1, StatedOn DEF IInv, Held
  <2>3. Queued'
    BY <1>4, <1>6, <2>1, StatedOn DEF IInv, Queued
  <2>4. QED
    BY <1>2, <2>2, <2>3
<1>7. QED
  BY <1>5, <1>6

\* What is asked for stays on its way, and a start report that is asked now is.
LEMMA StartOn ==
  ASSUME NEW threads \in [Lanes -> Threads], NEW asks, NEW v, NEW w, NEW q, NEW own,
         \/ StartOut(v, threads, q, own) /\ w.epoch = v.epoch /\ w.start.asked = v.start.asked
         \/ ~w.start.asked
         \/ "start" \in asks /\ "start" \in kinds
  PROVE  StartOut(w, Poke(threads, asks), q, own)
<1>1. "start" \in kinds => "start" \in Plan("slow")
  BY DEF Plan, LaneOf, Read
<1>2. "slow" \in Lanes
  BY DEF Lanes
<1> DEFINE poked == Poke(threads, asks)
<1>3. /\ poked["slow"].lost = threads["slow"].lost /\ poked["slow"].read = threads["slow"].read
      /\ poked["slow"].found = threads["slow"].found
      /\ threads["slow"].asked \subseteq poked["slow"].asked
      /\ ~threads["slow"].lost => asks \cap Plan("slow") \subseteq poked["slow"].asked
  BY <1>2, PokedThreads
<1> HIDE DEF poked
<1>4. StartOut(w, poked, q, own)
  BY <1>1, <1>3 DEF StartOut
<1>5. QED
  BY <1>4 DEF poked

-----------------------------------------------------------------------------
(* The person, the window, the Runtime and a write.                        *)

LEMMA WroteInv == IInv /\ Wrote => IInv'
<1> SUFFICES ASSUME IInv, Wrote PROVE IInv'
  OBVIOUS
<1>1. TypeOK /\ UNCHANGED <<kinds, runtime, taken, tools, queue, view>> /\ written' = written + 1
  BY DEF IInv, Wrote
<1>2. lanes' \in [Lanes -> Threads] /\ Held' /\ Queued'
  BY <1>1, ThreadsOn DEF Wrote, TypeOK
<1>3. written' \in Nat /\ known' \in 0 .. taken'
  BY <1>1 DEF Wrote, TypeOK
<1>4. TypeOK'
  BY <1>1, <1>2, <1>3 DEF TypeOK
<1>5. StartOut(view, lanes', queue, runtime.epoch)
  BY <1>1, StartOn DEF Wrote, TypeOK, IInv
<1>6. QED
  BY <1>1, <1>2, <1>4, <1>5 DEF IInv

LEMMA RuntimeStepInv == IInv /\ RuntimeStep => IInv'
<1> SUFFICES ASSUME IInv, RuntimeStep PROVE IInv'
  OBVIOUS
<1>1. /\ TypeOK /\ UNCHANGED <<kinds, lanes, tools, queue, written, known, view>>
      /\ runtime.epoch \in Nat /\ taken \in Nat /\ known \in 0 .. taken /\ view.epoch \in Nat
  BY DEF IInv, RuntimeStep, Stop, Start, TakeWrite, TypeOK, Epochs, Views
<1>2. /\ runtime' \in [up : BOOLEAN, epoch : Epochs] /\ runtime'.epoch \in Nat
      /\ runtime'.epoch = runtime.epoch \/ runtime'.epoch = runtime.epoch + 1
      /\ taken' \in Nat /\ known' \in 0 .. taken'
  <2>1. CASE Stop
    BY <1>1, <2>1 DEF Stop, TypeOK
  <2>2. CASE Start
    <3>1. runtime.epoch + 1 \in Epochs
      BY <1>1, <2>2, ReadsAssumption DEF Start, Epochs
    <3>2. QED
      BY <1>1, <2>2, <3>1 DEF Start
  <2>3. CASE TakeWrite
    BY <1>1, <2>3 DEF TakeWrite, TypeOK
  <2>4. QED
    BY <2>1, <2>2, <2>3 DEF RuntimeStep
<1>3. TypeOK'
  BY <1>1, <1>2 DEF TypeOK
<1>4. \A gen, got : got.epoch \in Nat /\ Stated(gen, got, runtime.epoch, written, known)
                        => Stated(gen, got, runtime'.epoch, written, known)
  BY <1>1, <1>2 DEF Stated
<1>5. Held'
  <2>1. \A lane \in Lanes : lanes[lane].found.epoch \in Nat
    BY <1>1 DEF TypeOK, Threads, Found, Epochs
  <2>2. QED
    BY <1>1, <1>4, <2>1 DEF IInv, Held
<1>6. Queued'
  <2>1. \A m \in Items(queue) : m.epoch \in Nat
    <3>1. \A m \in Landings : m.epoch \in Nat
      BY DEF Landings, Epochs
    <3>2. QED
      BY <1>1, <3>1, ItemsTyped DEF TypeOK
  <2>2. QED
    BY <1>1, <1>4, <2>1 DEF IInv, Queued
<1>7. view.epoch <= runtime'.epoch /\ StartOut(view, lanes, queue, runtime'.epoch)
  BY <1>1, <1>2 DEF IInv, StartOut
<1>8. QED
  BY <1>1, <1>3, <1>5, <1>6, <1>7 DEF IInv
\* What the person or the window does asks for reads, and of the view what is shown.
LEMMA WindowInv ==
  ASSUME IInv, NEW asks, lanes' = Poke(lanes, asks) \/ lanes' = lanes,
         UNCHANGED <<kinds, runtime, taken, queue, written, known>>,
         view' \in Views, tools' \in ToolsType, Kept(view', kinds), Owes(view'),
         view'.epoch = view.epoch, view'.start = view.start, AutoOut(view', tools', queue)
  PROVE  IInv'
<1>1. TypeOK
  BY DEF IInv
<1>2. lanes' \in [Lanes -> Threads] /\ Held' /\ Queued'
  BY <1>1, ThreadsOn DEF TypeOK
<1>3. TypeOK'
  BY <1>1, <1>2 DEF TypeOK, ToolsType
<1>4. StartOut(view', lanes', queue', runtime'.epoch)
  <2>1. StartOut(view, lanes, queue, runtime.epoch) /\ lanes \in [Lanes -> Threads]
    BY <1>1 DEF IInv, TypeOK
  <2>2. CASE lanes' = lanes
    BY <2>1, <2>2 DEF StartOut
  <2>3. CASE lanes' = Poke(lanes, asks)
    BY <2>1, <2>3, StartOn
  <2>4. QED
    BY <2>2, <2>3
<1>5. QED
  BY <1>2, <1>3, <1>4 DEF IInv

LEMMA MinimizeInv == IInv /\ Minimize => IInv'
<1> SUFFICES ASSUME IInv, Minimize PROVE IInv'
  OBVIOUS
<1>1. TypeOK /\ view \in Views /\ tools \in ToolsType
  BY DEF IInv, TypeOK, ToolsType
<1>2. /\ view' \in Views /\ view'.epoch = view.epoch /\ view'.start = view.start
      /\ view'.shown = FALSE /\ view'.slice = view.slice /\ view'.owed = view.owed
      /\ view'.auto = view.auto /\ view'.autoOf = view.autoOf /\ view'.asks = view.asks
      /\ view'.restarts = view.restarts
  BY <1>1 DEF Minimize, Views
<1>3. Kept(view', kinds) /\ Owes(view') /\ AutoOut(view', tools, queue)
  BY <1>2 DEF IInv, Kept, Owes, AutoOut
<1>4. QED
  BY <1>1, <1>2, <1>3, WindowInv DEF Minimize

LEMMA ShowPageInv == ASSUME IInv, NEW page \in {"main", "settings"}, ShowPage(page) PROVE IInv'
<1> DEFINE shown == [view EXCEPT !.page = page]
           onward == IF page = "settings" THEN AskAutostart(shown, tools) ELSE <<shown, tools>>
<1>1. TypeOK /\ view \in Views /\ tools \in ToolsType
  BY DEF IInv, TypeOK, ToolsType
<1>2. /\ shown \in Views /\ shown.epoch = view.epoch /\ shown.start = view.start
      /\ shown.shown = view.shown /\ shown.page = page
      /\ shown.slice = view.slice /\ shown.owed = view.owed
      /\ shown.auto = view.auto /\ shown.autoOf = view.autoOf /\ shown.asks = view.asks
      /\ shown.restarts = view.restarts
  BY <1>1 DEF Views
<1>3. view' = onward[1] /\ tools' = onward[2]
  BY DEF ShowPage
<1> HIDE DEF shown
<1>4. Kept(shown, kinds) /\ AutoOut(shown, tools, queue) /\ (shown.shown => "names" \notin shown.owed)
  BY <1>2 DEF IInv, Kept, AutoOut, Owes
<1>5. /\ view' \in Views /\ tools' \in ToolsType /\ Kept(view', kinds) /\ Owes(view')
      /\ view'.epoch = view.epoch /\ view'.start = view.start /\ AutoOut(view', tools', queue)
  <2>1. CASE page = "settings"
    <3>1. view' = AskAutostart(shown, tools)[1] /\ tools' = AskAutostart(shown, tools)[2]
      BY <1>3, <2>1
    <3> HIDE DEF onward
    <3>2. QED
      BY <1>1, <1>2, <1>4, <3>1, AutostartAsked DEF Owes
  <2>2. CASE page # "settings"
    <3>1. view' = shown /\ tools' = tools
      BY <1>3, <2>2
    <3>2. QED
      BY <1>1, <1>2, <1>4, <2>2, <3>1 DEF Owes
  <2>3. QED
    BY <2>1, <2>2
<1>6. QED
  BY <1>5, WindowInv DEF ShowPage

LEMMA ComeBackInv == IInv /\ ComeBack => IInv'
<1> SUFFICES ASSUME IInv, ComeBack PROVE IInv'
  OBVIOUS
<1> DEFINE back == [view EXCEPT !.shown = TRUE]
           named == IF "names" \in view.owed THEN AskNames(back, tools) ELSE <<back, tools>>
           onward == IF "watchdog" \in named[1].owed /\ view.page = "settings"
                    THEN AskAutostart(named[1], named[2]) ELSE named
<1>1. TypeOK /\ view \in Views /\ tools \in ToolsType
  BY DEF IInv, TypeOK, ToolsType
<1>2. /\ back \in Views /\ back.epoch = view.epoch /\ back.start = view.start
      /\ back.shown = TRUE /\ back.page = view.page
      /\ back.slice = view.slice /\ back.owed = view.owed
      /\ back.auto = view.auto /\ back.autoOf = view.autoOf /\ back.asks = view.asks
      /\ back.restarts = view.restarts
  BY <1>1 DEF Views
<1>3. view' = onward[1] /\ tools' = onward[2] /\ lanes' = Poke(lanes, Clocked("live") \cup Clocked("slow"))
      /\ UNCHANGED <<kinds, runtime, taken, queue, written, known>>
  BY DEF ComeBack
<1> HIDE DEF back
<1>4. Kept(back, kinds) /\ AutoOut(back, tools, queue)
  BY <1>2 DEF IInv, Kept, AutoOut
<1>5. /\ named[1] \in Views /\ named[2] \in ToolsType /\ Kept(named[1], kinds)
      /\ named[1].epoch = view.epoch /\ named[1].start = view.start
      /\ named[1].shown = TRUE /\ named[1].page = view.page
      /\ AutoOut(named[1], named[2], queue)
      /\ "names" \notin named[1].owed
  <2>1. CASE "names" \in view.owed
    <3>1. named[1] = AskNames(back, tools)[1] /\ named[2] = AskNames(back, tools)[2]
      BY <2>1
    <3> HIDE DEF named
    <3>2. QED
      BY <1>1, <1>2, <1>4, <3>1, NamesAsked
  <2>2. CASE "names" \notin view.owed
    <3>1. named[1] = back /\ named[2] = tools
      BY <2>2
    <3> HIDE DEF named
    <3>2. QED
      BY <1>1, <1>2, <1>4, <2>2, <3>1
  <2>3. QED
    BY <2>1, <2>2
<1> HIDE DEF named
<1>6. /\ view' \in Views /\ tools' \in ToolsType /\ Kept(view', kinds) /\ Owes(view')
      /\ view'.epoch = view.epoch /\ view'.start = view.start /\ AutoOut(view', tools', queue)
  <2>1. CASE "watchdog" \in named[1].owed /\ view.page = "settings"
    <3>1. /\ view' = AskAutostart(named[1], named[2])[1]
          /\ tools' = AskAutostart(named[1], named[2])[2]
      BY <1>3, <2>1
    <3> HIDE DEF onward
    <3>2. QED
      BY <1>5, <3>1, AutostartAsked DEF Owes
  <2>2. CASE ~("watchdog" \in named[1].owed /\ view.page = "settings")
    <3>1. view' = named[1] /\ tools' = named[2]
      BY <1>3, <2>2
    <3> HIDE DEF onward
    <3>2. QED
      BY <1>5, <2>2, <3>1 DEF Owes
  <2>3. QED
    BY <2>1, <2>2
<1>7. QED
  BY <1>3, <1>6, WindowInv

LEMMA RetryStartInv == IInv /\ RetryStart => IInv'
<1> SUFFICES ASSUME IInv, RetryStart PROVE IInv'
  OBVIOUS
<1> DEFINE due == StartDue(view)
           wait == view.start.asked \/ due
<1>1. TypeOK /\ view \in Views /\ UNCHANGED <<kinds, runtime, taken, tools, queue, written, known>>
  BY DEF IInv, TypeOK, RetryStart
<1>2. /\ due \in BOOLEAN /\ wait \in BOOLEAN
      /\ due => "start" \in kinds
      /\ view' = [view EXCEPT !.retries = FALSE, !.start.asked = wait]
      /\ lanes' = IF due THEN Poke(lanes, {"start"}) ELSE lanes
  BY <1>1 DEF RetryStart, StartDue, Views
<1>3. wait => view.start.asked \/ due
  OBVIOUS
<1> HIDE DEF due, wait
<1>4. /\ view' \in Views /\ view'.epoch = view.epoch /\ view'.start.asked = wait
      /\ view'.shown = view.shown /\ view'.page = view.page
      /\ view'.slice = view.slice /\ view'.owed = view.owed
      /\ view'.auto = view.auto /\ view'.autoOf = view.autoOf /\ view'.asks = view.asks
      /\ view'.restarts = view.restarts
  BY <1>1, <1>2 DEF Views
<1>5. lanes' \in [Lanes -> Threads] /\ Held' /\ Queued'
  BY <1>1, <1>2, ThreadsOn DEF TypeOK
<1>6. TypeOK'
  BY <1>1, <1>4, <1>5 DEF TypeOK
<1>7. Kept(view', kinds') /\ Owes(view') /\ AutoOut(view', tools', queue')
  BY <1>1, <1>4 DEF IInv, Kept, Owes, AutoOut
<1>8. StartOut(view', lanes', queue', runtime'.epoch)
  <2>1. StartOut(view, lanes, queue, runtime.epoch) /\ lanes \in [Lanes -> Threads]
    BY <1>1 DEF IInv, TypeOK
  <2>2. CASE ~due
    BY <1>1, <1>2, <1>3, <1>4, <2>1, <2>2 DEF StartOut
  <2>3. CASE due
    BY <1>1, <1>2, <2>1, <2>3, StartOn
  <2>4. QED
    BY <1>2, <2>2, <2>3
<1>9. QED
  BY <1>1, <1>4, <1>5, <1>6, <1>7, <1>8 DEF IInv
-----------------------------------------------------------------------------
(* What the event loop takes.                                              *)

\* What the step makes of the view, and that of the threads and the tools, is all that is left
\* to show: the reads' ages stay.
LEMMA LandedInv ==
  ASSUME IInv, Land, NEW asks, lanes' = Poke(lanes, asks) \/ lanes' = lanes, known' = known,
         written' = written \/ written' = written + 1,
         view' \in Views, tools' \in ToolsType, Kept(view', kinds), Owes(view'),
         view'.epoch <= runtime.epoch, AutoOut(view', tools', Tail(queue)),
         StartOut(view', lanes', Tail(queue), runtime.epoch)
  PROVE  IInv'
<1>1. TypeOK /\ UNCHANGED <<kinds, runtime, taken>> /\ queue # <<>> /\ queue' = Tail(queue)
  BY DEF IInv, Land
<1>2. queue' \in Seq(Landings) /\ Items(queue') \subseteq Items(queue)
  BY <1>1, Taken DEF TypeOK
<1>3. lanes' \in [Lanes -> Threads] /\ Held' /\ Queued'
  BY <1>1, <1>2, ThreadsOn DEF TypeOK
<1>4. written' \in Nat
  BY <1>1 DEF TypeOK
<1>5. TypeOK'
  BY <1>1, <1>2, <1>3, <1>4 DEF TypeOK, ToolsType
<1>6. QED
  BY <1>1, <1>3, <1>5 DEF IInv

\* What is taken is no more on its way.
LEMMA RestOut ==
  ASSUME NEW q \in Seq(Landings), q # <<>>, NEW v, NEW t, NEW threads, NEW own
  PROVE  /\ (Head(q).what # "watchdog" \/ Head(q).gen # v.asks) /\ AutoOut(v, t, q) => AutoOut(v, t, Tail(q))
         /\ (Head(q).what # "start" \/ ~Counts(Head(q), v.epoch)) /\ StartOut(v, threads, q, own)
              => StartOut(v, threads, Tail(q), own)
BY Taken DEF AutoOut, StartOut

\* Another owner epoch lets go what was read of the old one, and what was asked of it.
LEMMA EpochShown ==
  ASSUME NEW v \in Views, NEW own \in Epochs, Kept(v, kinds)
  PROVE  LET new == [NewEpoch(v, own) EXCEPT !.link = "online"]
         IN /\ new \in Views /\ new.epoch = own /\ Kept(new, kinds)
            /\ new.owed = v.owed /\ new.shown = v.shown /\ new.page = v.page /\ new.asks = v.asks
            /\ new.auto = "asked" => v.auto = "asked"
            /\ new.start.asked => v.epoch = own /\ v.start.asked
            /\ \A slice \in Slices : new.slice[slice] \in {v.slice[slice], NoSlice}
<1> DEFINE fresh == [read \in Slices |-> NoSlice]
           n == IF v.epoch = 0 THEN v.restarts ELSE v.restarts + 1
           auto == IF v.epoch # 0 /\ v.auto # "notasked" THEN "letgo" ELSE v.auto
           names == IF v.link = "unknown" THEN v.names ELSE "notasked"
           let == [v EXCEPT !.epoch = own, !.slice = fresh, !.start = NoStart, !.restarts = n,
                            !.auto = auto, !.names = names]
<1>1. CASE v.epoch = own
  <2>1. NewEpoch(v, own) = v
    BY <1>1 DEF NewEpoch
  <2>2. LET new == [v EXCEPT !.link = "online"]
        IN /\ new \in Views /\ new.epoch = v.epoch /\ new.start = v.start
           /\ new.owed = v.owed /\ new.shown = v.shown /\ new.page = v.page /\ new.asks = v.asks
           /\ new.auto = v.auto /\ new.autoOf = v.autoOf /\ new.restarts = v.restarts /\ new.slice = v.slice
    BY DEF Views, Links
  <2>3. QED
    BY <1>1, <2>1, <2>2 DEF Kept
<1>2. CASE v.epoch # own
  <2>1. NewEpoch(v, own) = let
    BY <1>2 DEF NewEpoch, Views
  <2>2. /\ fresh \in [Slices -> [epoch : Epochs, facts : Nat]]
        /\ \A slice \in Slices : fresh[slice].epoch = 0 /\ fresh[slice] = NoSlice
    BY NothingIsFound DEF NoSlice
  <2>3. NoStart \in [read : BOOLEAN, asked : BOOLEAN, failures : Nat] /\ ~NoStart.asked
    BY DEF NoStart
  <2>4. n \in Nat /\ auto \in {"notasked", "asked", "read", "letgo"} /\ names \in {"notasked", "ready", "unreadable"}
    BY DEF Views
  <2>5. /\ auto = "asked" => v.auto = "asked"
        /\ auto \in {"asked", "read"} => n = v.restarts /\ v.auto \in {"asked", "read"}
    OBVIOUS
  <2> HIDE DEF fresh, n, auto, names
  <2>6. LET new == [let EXCEPT !.link = "online"]
        IN /\ new \in Views /\ new.epoch = own /\ new.start = NoStart
           /\ new.owed = v.owed /\ new.shown = v.shown /\ new.page = v.page /\ new.asks = v.asks
           /\ new.auto = auto /\ new.autoOf = v.autoOf /\ new.restarts = n /\ new.slice = fresh
    <3>1. /\ let \in Views /\ let.epoch = own /\ let.start = NoStart
          /\ let.owed = v.owed /\ let.shown = v.shown /\ let.page = v.page /\ let.asks = v.asks
          /\ let.auto = auto /\ let.autoOf = v.autoOf /\ let.restarts = n /\ let.slice = fresh
      BY <2>2, <2>3, <2>4 DEF Views
    <3> HIDE DEF let
    <3>2. QED
      BY <3>1 DEF Views, Links
  <2> HIDE DEF let
  <2>7. QED
    BY <2>1, <2>2, <2>3, <2>5, <2>6 DEF Kept
<1>3. QED
  BY <1>1, <1>2
LEMMA OnlineLandedInv ==
  ASSUME IInv, Land, NEW over \in BOOLEAN, OnlineLanded(Head(queue), over), Head(queue).what = "status"
  PROVE  IInv'
<1> DEFINE landing == Head(queue)
           changed == view.epoch # landing.epoch
           connected == view.link # "online"
           online == [NewEpoch(view, landing.epoch) EXCEPT !.link = "online"]
           named == IF changed /\ view.link # "unknown" THEN AskNames(online, tools)
                    ELSE <<online, tools>>
           asksStart == (connected \/ changed) /\ StartDue(online)
           asks == (IF connected \/ changed THEN Clocked("slow") ELSE {})
                   \cup (IF asksStart THEN {"start"} ELSE {})
                   \cup (IF over THEN Clocked("live") \cup Clocked("slow") ELSE {})
           wait == named[1].start.asked \/ asksStart
<1>1. /\ TypeOK /\ view \in Views /\ tools \in ToolsType /\ queue \in Seq(Landings) /\ queue # <<>>
      /\ lanes \in [Lanes -> Threads]
  BY DEF IInv, TypeOK, ToolsType, Land
<1>2. landing \in Landings /\ landing \in Items(queue) /\ landing.epoch \in Epochs
  BY <1>1, Taken DEF Landings
<1>3. landing.epoch <= runtime.epoch
  BY <1>2 DEF IInv, Queued, Stated, Read
<1>4. /\ online \in Views /\ online.epoch = landing.epoch /\ Kept(online, kinds)
      /\ online.owed = view.owed /\ online.shown = view.shown /\ online.page = view.page
      /\ online.asks = view.asks
      /\ online.auto = "asked" => view.auto = "asked"
      /\ online.start.asked => view.epoch = landing.epoch /\ view.start.asked
  BY <1>1, <1>2, EpochShown DEF IInv
<1>5. asksStart \in BOOLEAN /\ (asksStart => "start" \in kinds)
  BY <1>1 DEF StartDue, Views
<1>6. /\ view' = [named[1] EXCEPT !.start.asked = wait]
      /\ tools' = named[2] /\ lanes' = Poke(lanes, asks) /\ known' = known
      /\ written' = written \/ written' = written + 1
  BY DEF OnlineLanded
<1>7. asksStart => "start" \in asks
  OBVIOUS
<1> HIDE DEF online, asksStart, asks
<1>8. AutoOut(online, tools, Tail(queue))
  <2>1. AutoOut(view, tools, Tail(queue))
    BY <1>1, RestOut DEF IInv
  <2>2. QED
    BY <1>4, <2>1 DEF AutoOut
<1>9. /\ named[1] \in Views /\ named[2] \in ToolsType /\ Kept(named[1], kinds) /\ Owes(named[1])
      /\ named[1].epoch = landing.epoch /\ named[1].start = online.start
      /\ AutoOut(named[1], named[2], Tail(queue))
  <2>1. Owes(online)
    BY <1>4 DEF IInv, Owes
  <2>2. CASE changed /\ view.link # "unknown"
    <3>1. named[1] = AskNames(online, tools)[1] /\ named[2] = AskNames(online, tools)[2]
      BY <2>2
    <3> HIDE DEF named
    <3>2. QED
      BY <1>1, <1>4, <1>8, <2>1, <3>1, NamesAsked DEF Owes
  <2>3. CASE ~(changed /\ view.link # "unknown")
    <3>1. named[1] = online /\ named[2] = tools
      BY <2>3
    <3> HIDE DEF named
    <3>2. QED
      BY <1>1, <1>4, <1>8, <2>1, <3>1
  <2>4. QED
    BY <2>2, <2>3
<1> HIDE DEF named
<1>10. wait \in BOOLEAN /\ (wait /\ ~asksStart => online.start.asked)
  BY <1>5, <1>9 DEF Views
<1> HIDE DEF wait
<1>11. /\ view' \in Views /\ view'.epoch = landing.epoch /\ view'.start.asked = wait
       /\ view'.shown = named[1].shown /\ view'.page = named[1].page /\ view'.slice = named[1].slice
       /\ view'.owed = named[1].owed /\ view'.auto = named[1].auto /\ view'.autoOf = named[1].autoOf
       /\ view'.asks = named[1].asks /\ view'.restarts = named[1].restarts
  BY <1>6, <1>9, <1>10 DEF Views
<1>12. Kept(view', kinds) /\ Owes(view') /\ AutoOut(view', tools', Tail(queue))
  BY <1>6, <1>9, <1>11 DEF Kept, Owes, AutoOut
<1>13. StartOut(view', lanes', Tail(queue), runtime.epoch)
  <2>1. StartOut(view, lanes, Tail(queue), runtime.epoch)
    BY <1>1, RestOut DEF IInv
  <2>2. CASE asksStart
    BY <1>1, <1>5, <1>6, <1>7, <2>2, StartOn
  <2>3. CASE ~asksStart /\ wait
    <3>1. view.epoch = view'.epoch /\ view.start.asked = view'.start.asked
      <4>1. view.epoch = landing.epoch /\ view.start.asked
        BY <1>4, <1>10, <2>3
      <4>2. view.start.asked = TRUE
        BY <1>1, <4>1 DEF Views
      <4>3. QED
        BY <1>11, <2>3, <4>1, <4>2
    <3>2. QED
      BY <1>1, <1>6, <2>1, <3>1, StartOn
  <2>4. CASE ~wait
    BY <1>11, <2>4 DEF StartOut
  <2>5. QED
    BY <1>5, <2>2, <2>3, <2>4
<1>14. QED
  BY <1>3, <1>6, <1>9, <1>11, <1>12, <1>13, LandedInv

\* A landing that leaves the threads and the tools, and of the view what it owes and waits for.
LEMMA QuietInv ==
  ASSUME IInv, Land, UNCHANGED <<lanes, tools, written, known>>,
         view' \in Views, view'.epoch = view.epoch, Kept(view', kinds),
         view'.owed = view.owed, view'.shown = view.shown, view'.page = view.page, view'.asks = view.asks,
         view'.auto = "asked" => view.auto = "asked" /\ (Head(queue).what # "watchdog" \/ Head(queue).gen # view.asks),
         view'.start.asked => view.start.asked /\ (Head(queue).what # "start" \/ ~Counts(Head(queue), view.epoch))
  PROVE  IInv'
<1>1. TypeOK /\ view \in Views /\ tools \in ToolsType /\ queue \in Seq(Landings) /\ queue # <<>>
  BY DEF IInv, TypeOK, ToolsType, Land
<1>2. Owes(view')
  BY DEF IInv, Owes
<1>3. AutoOut(view', tools, Tail(queue))
  <2>1. CASE view'.auto = "asked"
    <3>1. AutoOut(view, tools, Tail(queue))
      BY <1>1, <2>1, RestOut DEF IInv
    <3>2. QED
      BY <2>1, <3>1 DEF AutoOut
  <2>2. CASE view'.auto # "asked"
    BY <2>2 DEF AutoOut
  <2>3. QED
    BY <2>1, <2>2
<1>4. StartOut(view', lanes, Tail(queue), runtime.epoch)
  <2>1. CASE view'.start.asked
    <3>1. StartOut(view, lanes, Tail(queue), runtime.epoch)
      BY <1>1, <2>1, RestOut DEF IInv
    <3>2. QED
      BY <2>1, <3>1 DEF StartOut
  <2>2. CASE ~view'.start.asked
    BY <2>2 DEF StartOut
  <2>3. QED
    BY <2>1, <2>2
<1>5. view'.epoch <= runtime.epoch
  BY DEF IInv
<1>6. QED
  BY <1>1, <1>2, <1>3, <1>4, <1>5, LandedInv
LEMMA SliceLandedInv ==
  ASSUME IInv, Land, SliceLanded(Head(queue)), Head(queue).what \in Slices PROVE IInv'
<1> DEFINE landing == Head(queue)
           slice == landing.what
           taking == IF view.link = "online" THEN Take(view.slice[slice], landing, view.epoch)
                     ELSE view.slice[slice]
<1>1. TypeOK /\ view \in Views /\ queue \in Seq(Landings) /\ queue # <<>>
  BY DEF IInv, TypeOK, Land
<1>2. landing \in Landings
  BY <1>1, Taken
<1>3. /\ taking \in [epoch : Epochs, facts : Nat]
      /\ taking.epoch \in {0, view.epoch}
  <2>1. view.slice[slice] \in [epoch : Epochs, facts : Nat] /\ view.slice[slice].epoch \in {0, view.epoch}
    BY <1>1 DEF Views, IInv, Kept
  <2>2. QED
    BY <1>2, <2>1 DEF Take, Landings
<1>4. view' = [view EXCEPT !.slice[slice] = taking] /\ UNCHANGED <<lanes, tools, written, known>>
  BY <1>1 DEF SliceLanded, Views
<1>5. slice \notin {"start", "watchdog"}
  BY DEF Slices
<1> HIDE DEF taking
<1>6. /\ view' \in Views /\ view'.slice = [view.slice EXCEPT ![slice] = taking]
      /\ view'.epoch = view.epoch /\ view'.start = view.start
      /\ view'.owed = view.owed /\ view'.shown = view.shown /\ view'.page = view.page
      /\ view'.auto = view.auto /\ view'.autoOf = view.autoOf /\ view'.asks = view.asks
      /\ view'.restarts = view.restarts
  BY <1>1, <1>3, <1>4 DEF Views
<1>7. Kept(view', kinds)
  <2>1. view.slice \in [Slices -> [epoch : Epochs, facts : Nat]]
    BY <1>1 DEF Views
  <2>2. \A s \in Slices : view'.slice[s] = IF s = slice THEN taking ELSE view.slice[s]
    BY <1>6, <2>1
  <2>3. QED
    BY <1>3, <1>6, <2>2 DEF IInv, Kept
<1>8. QED
  BY <1>4, <1>5, <1>6, <1>7, QuietInv

LEMMA StartLandedInv ==
  ASSUME IInv, Land, StartLanded(Head(queue)), Head(queue).what = "start" PROVE IInv'
<1> DEFINE landing == Head(queue)
           tries == IF view.start.failures > START_TRIES + 1 THEN view.start.failures ELSE view.start.failures + 1
           again == IF view.start.failures + 1 < START_TRIES THEN TRUE ELSE view.retries
<1>1. TypeOK /\ view \in Views
  BY DEF IInv, TypeOK
<1>2. tries \in Nat /\ again \in BOOLEAN
  <2>1. view.start.failures \in Nat /\ view.retries \in BOOLEAN
    BY <1>1 DEF Views
  <2>2. tries \in Nat
    BY <2>1
  <2>3. CASE view.start.failures + 1 < START_TRIES
    BY <2>2, <2>3
  <2>4. CASE ~(view.start.failures + 1 < START_TRIES)
    BY <2>1, <2>2, <2>4
  <2>5. QED
    BY <2>3, <2>4
<1>3. UNCHANGED <<lanes, tools, written, known>>
  BY DEF StartLanded
<1>4. \/ view' = [view EXCEPT !.start.asked = FALSE, !.start.read = TRUE]
      \/ view' = view /\ ~Counts(landing, view.epoch)
      \/ view' = [view EXCEPT !.start.asked = FALSE, !.start.failures = tries, !.retries = again]
  BY <1>1 DEF StartLanded, Counts, Views
<1> HIDE DEF tries, again
<1>5. /\ view' \in Views
      /\ view'.epoch = view.epoch /\ view'.slice = view.slice
      /\ view'.owed = view.owed /\ view'.shown = view.shown /\ view'.page = view.page
      /\ view'.auto = view.auto /\ view'.autoOf = view.autoOf /\ view'.asks = view.asks
      /\ view'.restarts = view.restarts
      /\ view'.start.asked => view.start.asked /\ ~Counts(landing, view.epoch)
  <2>1. CASE view' = [view EXCEPT !.start.asked = FALSE, !.start.read = TRUE]
    BY <1>1, <2>1 DEF Views
  <2>2. CASE view' = view /\ ~Counts(landing, view.epoch)
    BY <1>1, <2>2
  <2>3. CASE view' = [view EXCEPT !.start.asked = FALSE, !.start.failures = tries, !.retries = again]
    BY <1>1, <1>2, <2>3 DEF Views
  <2>4. QED
    BY <1>4, <2>1, <2>2, <2>3
<1>6. Kept(view', kinds)
  BY <1>5 DEF IInv, Kept
<1>7. QED
  BY <1>3, <1>5, <1>6, QuietInv

LEMMA LandInv == IInv /\ Land => IInv'
<1> SUFFICES ASSUME IInv, Land PROVE IInv'
  OBVIOUS
<1> DEFINE landing == Head(queue)
<1>1. TypeOK /\ view \in Views /\ queue \in Seq(Landings) /\ queue # <<>>
  BY DEF IInv, TypeOK, Land
<1>2. landing \in Landings
  BY <1>1, Taken
<1>3. PICK over \in BOOLEAN : Landed(landing, over)
  <2> DEFINE room == written < MaxWrites
  <2>1. room \in BOOLEAN
    OBVIOUS
  <2>2. \E over \in {FALSE} \cup {room} : Landed(landing, over)
    BY DEF Land
  <2> HIDE DEF room
  <2>3. QED
    BY <2>1, <2>2
<1>4. CASE landing.what \notin {"start", "watchdog"} /\ UNCHANGED <<lanes, tools, written, known, view>>
  BY <1>1, <1>4, QuietInv DEF IInv
<1>5. CASE landing.what = "start" /\ StartLanded(landing)
  BY <1>5, StartLandedInv
<1>6. CASE landing.what = "status" /\ LiveLanded(landing, over)
  <2>1. CASE OnlineLanded(landing, over)
    BY <1>6, <2>1, OnlineLandedInv
  <2>2. CASE ~OnlineLanded(landing, over)
    <3>1. /\ landing.out \in {"absent", "noanswer"} /\ view' = [view EXCEPT !.link = landing.out]
          /\ UNCHANGED <<lanes, tools, written, known>>
      BY <1>6, <2>2 DEF LiveLanded
    <3>2. /\ view' \in Views /\ view'.epoch = view.epoch /\ view'.slice = view.slice
          /\ view'.start = view.start /\ view'.owed = view.owed /\ view'.shown = view.shown
          /\ view'.page = view.page /\ view'.auto = view.auto /\ view'.autoOf = view.autoOf
          /\ view'.asks = view.asks /\ view'.restarts = view.restarts
      BY <1>1, <3>1 DEF Views, Links
    <3>3. Kept(view', kinds)
      BY <3>2 DEF IInv, Kept
    <3>4. QED
      BY <1>6, <3>1, <3>2, <3>3, QuietInv
  <2>3. QED
    BY <2>1, <2>2
<1>7. CASE landing.what \in Slices /\ SliceLanded(landing)
  BY <1>7, SliceLandedInv
<1>8. CASE landing.what = "names" /\ NamesLanded(landing)
  <2>1. /\ view' \in Views /\ view'.epoch = view.epoch /\ view'.slice = view.slice
        /\ view'.start = view.start /\ view'.owed = view.owed /\ view'.shown = view.shown
        /\ view'.page = view.page /\ view'.auto = view.auto /\ view'.autoOf = view.autoOf
        /\ view'.asks = view.asks /\ view'.restarts = view.restarts
        /\ UNCHANGED <<lanes, tools, written, known>>
    BY <1>1, <1>8 DEF NamesLanded, Views
  <2>2. Kept(view', kinds)
    BY <2>1 DEF IInv, Kept
  <2>3. QED
    BY <1>8, <2>1, <2>2, QuietInv
<1>9. CASE landing.what = "watchdog" /\ WatchdogLanded(landing)
  <2>1. /\ UNCHANGED <<lanes, tools, written, known>>
        /\ \/ view' = view /\ ~(view.auto = "asked" /\ landing.gen = view.asks)
           \/ view' = [view EXCEPT !.auto = "read"] /\ view.auto = "asked"
    BY <1>9 DEF WatchdogLanded
  <2>2. CASE view' = view /\ ~(view.auto = "asked" /\ landing.gen = view.asks)
    BY <1>1, <1>9, <2>1, <2>2, QuietInv DEF IInv
  <2>3. CASE view' = [view EXCEPT !.auto = "read"] /\ view.auto = "asked"
    <3>1. /\ view' \in Views /\ view'.epoch = view.epoch /\ view'.slice = view.slice
          /\ view'.start = view.start /\ view'.owed = view.owed /\ view'.shown = view.shown
          /\ view'.page = view.page /\ view'.auto = "read" /\ view'.autoOf = view.autoOf
          /\ view'.asks = view.asks /\ view'.restarts = view.restarts
      BY <1>1, <2>3 DEF Views
    <3>2. Kept(view', kinds)
      BY <2>3, <3>1 DEF IInv, Kept
    <3>3. QED
      BY <1>9, <2>1, <3>1, <3>2, QuietInv
  <2>4. QED
    BY <2>1, <2>2, <2>3
<1>10. QED
  <2>1. CASE LetGo(landing)
    <3>1. landing.what \notin {"start", "watchdog"} /\ UNCHANGED <<lanes, tools, written, known, view>>
      BY <1>3, <2>1 DEF Landed, LetGo, Read
    <3>2. QED
      BY <1>4, <3>1
  <2>2. CASE ~LetGo(landing)
    <3>1. CASE landing.what \in Read \ {"start"} /\ UNCHANGED <<lanes, tools, written, known, view>>
      BY <1>4, <3>1 DEF Read
    <3>2. QED
      BY <1>3, <1>5, <1>6, <1>7, <1>8, <1>9, <2>2, <3>1 DEF Landed
  <2>3. QED
    BY <2>1, <2>2

-----------------------------------------------------------------------------
(* Every step.                                                             *)

LEMMA NextInv == IInv /\ [Next]_readsVars => IInv'
<1> SUFFICES ASSUME IInv, [Next]_readsVars PROVE IInv'
  OBVIOUS
<1>1. CASE LaneStep
  <2>1. CASE PanicLive
    BY <2>1, SamplesInv
  <2>2. CASE \E lane \in Lanes : LaneWork(lane)
    BY <2>2, SamplesInv, PostInv, BeginReadInv DEF LaneWork
  <2>3. QED
    BY <1>1, <2>1, <2>2 DEF LaneStep
<1>2. CASE WindowStep
  BY <1>2, MinimizeInv, ComeBackInv, ShowPageInv DEF WindowStep
<1>3. CASE UNCHANGED readsVars
  BY <1>3 DEF readsVars, IInv, TypeOK, Held, Queued
<1>4. QED
  BY <1>1, <1>2, <1>3, ToolStepInv, LandInv, RetryStartInv, WroteInv, RuntimeStepInv DEF Next

THEOREM Invariant == Spec => []IInv
<1>1. QED
  BY InitInv, NextInv, PTL DEF Spec

\* Every variable keeps its type, whatever the windows, the Runtimes and the writes.
THEOREM TypesHold == Spec => []TypeOK
<1>1. IInv => TypeOK
  BY DEF IInv
<1>2. QED
  BY <1>1, Invariant, PTL

\* What the window shows of the fact snapshot and the configuration was read of the Runtime
\* whose epoch it shows (Slice::take, apply_online).
THEOREM SlicesOfTheEpoch == Spec => []SliceIsOfTheEpoch
<1>1. IInv => SliceIsOfTheEpoch
  BY DEF IInv, Kept, SliceIsOfTheEpoch
<1>2. QED
  BY <1>1, Invariant, PTL

\* While the window is shown nothing is owed that its page shows (set_shown, ask_autostart).
THEOREM NothingOwed == Spec => []NothingOwedWhileShown
<1>1. IInv => NothingOwedWhileShown
  BY DEF IInv, Owes, NothingOwedWhileShown
<1>2. QED
  BY <1>1, Invariant, PTL

\* An answer of `watchdog status` the settings page waits for is on its way, and one it shows
\* was asked under the Runtime that is shown (ask_autostart, apply_online).
THEOREM AutostartIsOut == Spec => []AutostartIsOfThisStart
<1>1. IInv => AutostartIsOfThisStart
  BY DEF IInv, Kept, AutoOut, Items, AutostartIsOfThisStart
<1>2. QED
  BY <1>1, Invariant, PTL

\* A start report that is waited for is on its way, so a window never waits for one nobody
\* reads (start_due, take_start, retry_start).
THEOREM StartIsOut == Spec => []StartAskIsOut
<1>1. IInv => StartAskIsOut
  BY DEF IInv, StartOut, Items, StartAskIsOut, OnItsWay, LaneOf
<1>2. QED
  BY <1>1, Invariant, PTL

(* Only the landing of a read of a slice changes it, but for a new epoch.  *)

LEMMA OnlineKeepsSlices ==
  ASSUME IInv, Land, NEW over \in BOOLEAN, OnlineLanded(Head(queue), over), NEW slice \in Slices
  PROVE  view'.slice[slice] \in {view.slice[slice], NoSlice}
<1> DEFINE landing == Head(queue)
           changed == view.epoch # landing.epoch
           online == [NewEpoch(view, landing.epoch) EXCEPT !.link = "online"]
           named == IF changed /\ view.link # "unknown" THEN AskNames(online, tools)
                    ELSE <<online, tools>>
           wait == \/ named[1].start.asked
                   \/ (view.link # "online" \/ changed) /\ StartDue(online)
<1>1. view \in Views /\ tools \in ToolsType /\ landing \in Landings /\ landing.epoch \in Epochs
  BY Taken DEF IInv, TypeOK, ToolsType, Land, Landings
<1>2. online \in Views /\ online.slice[slice] \in {view.slice[slice], NoSlice}
  BY <1>1, EpochShown DEF IInv
<1>3. view' = [named[1] EXCEPT !.start.asked = wait]
  BY DEF OnlineLanded
<1> HIDE DEF online
<1>4. named[1] \in Views /\ named[1].slice = online.slice
  <2>1. CASE changed /\ view.link # "unknown"
    <3>1. named[1] = AskNames(online, tools)[1]
      BY <2>1
    <3> HIDE DEF named
    <3>2. QED
      BY <1>1, <1>2, <3>1, NamesAsked
  <2>2. CASE ~(changed /\ view.link # "unknown")
    <3>1. named[1] = online
      BY <2>2
    <3> HIDE DEF named
    <3>2. QED
      BY <1>2, <3>1
  <2>3. QED
    BY <2>1, <2>2
<1> HIDE DEF named, wait
<1>5. view'.slice = named[1].slice
  BY <1>3, <1>4 DEF Views
<1>6. QED
  BY <1>2, <1>4, <1>5

LEMMA WindowKeepsSlices == IInv /\ (WindowStep \/ RetryStart) => view'.slice = view.slice
<1> SUFFICES ASSUME IInv, WindowStep \/ RetryStart PROVE view'.slice = view.slice
  OBVIOUS
<1>1. view \in Views /\ tools \in ToolsType /\ Kept(view, kinds)
  BY DEF IInv, TypeOK, ToolsType
<1>2. CASE Minimize \/ RetryStart
  BY <1>1, <1>2 DEF Minimize, RetryStart, Views
<1>3. ASSUME NEW page \in {"main", "settings"}, ShowPage(page) PROVE view'.slice = view.slice
  <2> DEFINE shown == [view EXCEPT !.page = page]
  <2>1. shown \in Views /\ shown.slice = view.slice /\ Kept(shown, kinds)
    BY <1>1 DEF Views, Kept
  <2>2. view' = IF page = "settings" THEN AskAutostart(shown, tools)[1] ELSE shown
    BY <1>3 DEF ShowPage
  <2> HIDE DEF shown
  <2>3. QED
    BY <1>1, <2>1, <2>2, AutostartAsked
<1>4. CASE ComeBack
  <2> DEFINE back == [view EXCEPT !.shown = TRUE]
             named == IF "names" \in view.owed THEN AskNames(back, tools) ELSE <<back, tools>>
  <2>1. back \in Views /\ back.slice = view.slice /\ Kept(back, kinds)
    BY <1>1 DEF Views, Kept
  <2>2. view' = IF "watchdog" \in named[1].owed /\ view.page = "settings"
                THEN AskAutostart(named[1], named[2])[1] ELSE named[1]
    BY <1>4 DEF ComeBack
  <2> HIDE DEF back
  <2>3. named[1] \in Views /\ named[2] \in ToolsType /\ named[1].slice = view.slice /\ Kept(named[1], kinds)
    <3>1. CASE "names" \in view.owed
      <4>1. named[1] = AskNames(back, tools)[1] /\ named[2] = AskNames(back, tools)[2]
        BY <3>1
      <4> HIDE DEF named
      <4>2. QED
        BY <1>1, <2>1, <4>1, NamesAsked
    <3>2. CASE "names" \notin view.owed
      BY <1>1, <2>1, <3>2
    <3>3. QED
      BY <3>1, <3>2
  <2> HIDE DEF named
  <2>4. QED
    BY <2>2, <2>3, AutostartAsked
<1>5. QED
  BY <1>2, <1>3, <1>4 DEF WindowStep

LEMMA LandingsOfSlices ==
  ASSUME IInv, Land, NEW slice \in Slices, view'.slice[slice] \notin {view.slice[slice], NoSlice}
  PROVE  /\ known' = known
         /\ Head(queue).what = slice /\ Head(queue).out = "ok" /\ ~LetGo(Head(queue))
         /\ view'.slice[slice].facts = Head(queue).facts
<1> DEFINE landing == Head(queue)
<1>1. view \in Views /\ landing \in Landings
  BY Taken DEF IInv, TypeOK, Land
<1>2. PICK over \in BOOLEAN : Landed(landing, over)
  <2> DEFINE room == written < MaxWrites
  <2>1. room \in BOOLEAN
    OBVIOUS
  <2>2. \E over \in {FALSE} \cup {room} : Landed(landing, over)
    BY DEF Land
  <2> HIDE DEF room
  <2>3. QED
    BY <2>1, <2>2
<1>3. view' # view
  OBVIOUS
<1>4. ~LetGo(landing)
  BY <1>2, <1>3 DEF Landed
<1>5. ~StartLanded(landing) /\ ~NamesLanded(landing) /\ ~WatchdogLanded(landing)
  BY <1>1 DEF StartLanded, NamesLanded, WatchdogLanded, Views
<1>6. ~LiveLanded(landing, over)
  <2>1. ~OnlineLanded(landing, over)
    BY OnlineKeepsSlices
  <2>2. QED
    BY <1>1, <2>1 DEF LiveLanded, Views
<1>7. SliceLanded(landing) /\ landing.what \in Slices
  BY <1>2, <1>3, <1>4, <1>5, <1>6 DEF Landed
<1>8. QED
  <2>1. view.slice \in [Slices -> [epoch : Epochs, facts : Nat]]
    BY <1>1 DEF Views
  <2>2. /\ view'.slice[slice] = IF slice = landing.what
                                THEN IF view.link = "online" THEN Take(view.slice[slice], landing, view.epoch)
                                     ELSE view.slice[slice]
                                ELSE view.slice[slice]
        /\ known' = known
    BY <1>1, <1>7, <2>1 DEF SliceLanded, Views
  <2>3. QED
    BY <1>4, <2>2 DEF Take

\* A read that counts states every write known by then: one begun before a write landed is
\* let go, however late it is posted and taken (super::wrote).
THEOREM ReadsSinceTheLastWrite == Spec => NoReadFromBeforeAWrite
<1>1. ASSUME IInv, [Next]_readsVars, NEW slice \in Slices,
             view'.slice[slice] \notin {view.slice[slice], NoSlice}
      PROVE  view'.slice[slice].facts >= known
  <2>1. view' # view
    BY <1>1
  <2>2. Land
    <3>1. ~(LaneStep \/ ToolStep \/ Wrote \/ RuntimeStep \/ UNCHANGED readsVars)
      BY <2>1 DEF LaneStep, LaneWork, SampleLive, SampleSlow, PanicLive, Sampled, Post, BeginRead, ToolStep,
         BeginJobs, RunNames, RunWatchdog, Wrote, RuntimeStep, Stop, Start, TakeWrite, readsVars
    <3>2. ~(WindowStep \/ RetryStart)
      BY <1>1, WindowKeepsSlices
    <3>3. QED
      BY <1>1, <3>1, <3>2 DEF Next
  <2>3. /\ Head(queue).what = slice /\ Head(queue).out = "ok" /\ ~LetGo(Head(queue))
        /\ view'.slice[slice].facts = Head(queue).facts
    BY <1>1, <2>2, LandingsOfSlices
  <2>4. Head(queue) \in Items(queue) /\ Head(queue) \in Landings /\ written \in Nat
    BY <1>1, <2>2, Taken DEF IInv, TypeOK, Land
  <2>5. /\ Stated(Head(queue).gen, Head(queue), runtime.epoch, written, known)
        /\ Head(queue).gen = written
    <3>1. Head(queue).what \in Read /\ Head(queue).what # "start"
      BY <2>3 DEF Slices, Read
    <3>2. Stated(Head(queue).gen, Head(queue), runtime.epoch, written, known)
      BY <1>1, <2>4, <3>1 DEF IInv, Queued
    <3>3. QED
      BY <2>3, <2>4, <3>1, <3>2 DEF LetGo, Stated, Landings
  <2>6. QED
    BY <2>3, <2>5 DEF Stated
<1>2. IInv /\ [Next]_readsVars =>
        \A slice \in Slices : view'.slice[slice] \notin {view.slice[slice], NoSlice}
                                => view'.slice[slice].facts >= known
  BY <1>1
<1>3. QED
  BY <1>2, Invariant, PTL DEF Spec, NoReadFromBeforeAWrite

-----------------------------------------------------------------------------
(* The conditional resume.                                                 *)

(* Types.                                                                  *)

LEMMA Constants ==
  /\ 1 \in Sessions /\ 1 \in 1..MaxOwnerEpoch /\ 0 \in 0..MaxPause /\ 0 \in 0..MaxPress
  /\ IsFiniteSet(Scope)
<1> USE ResumeAssumption
<1>1. 1 \in Sessions /\ 1 \in 1..MaxOwnerEpoch /\ 0 \in 0..MaxPause /\ 0 \in 0..MaxPress
  BY DEF Sessions
<1>2. Len(Scopes) \in Nat /\ IsFiniteSet(1..Len(Scopes))
  BY FS_Interval
<1>3. \E f \in [1..Len(Scopes) -> Scope] : \A c \in Scope : \E i \in 1..Len(Scopes) : f[i] = c
  <2>1. [i \in 1..Len(Scopes) |-> Scopes[i]] \in [1..Len(Scopes) -> Scope]
    BY DEF Scope
  <2>2. \A c \in Scope : \E i \in 1..Len(Scopes) : [j \in 1..Len(Scopes) |-> Scopes[j]][i] = c
    BY DEF Scope
  <2>3. QED
    BY <2>1, <2>2
<1>4. \E f : f \in Surjection(1..Len(Scopes), Scope)
  BY <1>3 DEF Surjection
<1>5. QED
  BY <1>1, <1>2, <1>4, FS_Surjection

LEMMA NothingRead == Nothing \in Statuses
  BY DEF Nothing, Statuses

(* What a status read finds is a status.                                   *)
LEMMA ReadTypes ==
  ASSUME ResumeTypeOK, NEW face \in {"online", "offline"}, NEW owner,
         NEW read \in StatusReads(face, owner)
  PROVE  read \in Statuses
<1>1. CASE read \in {[kind |-> "read", lines |-> lines] : lines \in RuntimeLines}
  <2>1. PICK on \in InOrder({c \in Scope : paused[c].on}) :
           read = [kind |-> "read",
                   lines |-> [i \in DOMAIN on |->
                      [target |-> [scope |-> on[i], epoch |-> epoch, rev |-> paused[on[i]].rev],
                       liftable |-> paused[on[i]].liftable, number |-> paused[on[i]].number,
                       after |-> settled]]]
    BY <1>1 DEF RuntimeLines
  <2> DEFINE n == Cardinality({c \in Scope : paused[c].on})
  <2>2. n \in Nat
    BY Constants, FS_Subset, FS_CardinalityType
  <2>3. on \in [1..n -> {c \in Scope : paused[c].on}]
    BY DEF InOrder
  <2>4. \A i \in 1..n : on[i] \in Scope /\ paused[on[i]] \in Pauses /\ paused[on[i]].on
    BY <2>3 DEF ResumeTypeOK
  <2> HIDE DEF n
  <2>5. \A i \in 1..n :
           [target |-> [scope |-> on[i], epoch |-> epoch, rev |-> paused[on[i]].rev],
            liftable |-> paused[on[i]].liftable, number |-> paused[on[i]].number,
            after |-> settled] \in Lines
    BY <2>4 DEF ResumeTypeOK, Lines, Targets, Pauses
  <2>6. [i \in 1..n |->
            [target |-> [scope |-> on[i], epoch |-> epoch, rev |-> paused[on[i]].rev],
             liftable |-> paused[on[i]].liftable, number |-> paused[on[i]].number,
             after |-> settled]] \in Seq(Lines)
    BY <2>2, <2>5
  <2>7. QED
    BY <2>1, <2>3, <2>6 DEF Statuses
<1>2. CASE read = [kind |-> "failed", lines |-> <<>>]
  BY <1>2 DEF Statuses
<1>3. QED
  BY <1>1, <1>2, NothingRead DEF StatusReads

-----------------------------------------------------------------------------
(* One request out: with a thread or as its answer, and while the window   *)
(* is there its flight is the one that is sending.                         *)

Free == presses = {} /\ answers = {}

OneOut ==
  /\ \/ Free
     \/ \E p : presses = {p} /\ answers = {}
     \/ \E a : answers = {a} /\ presses = {}
  /\ ~closed /\ ~Free => flight # NoFlight /\ flight.stage = "sending" /\ settled < MaxPress

Typed == ResumeTypeOK /\ OneOut

MaybeFlights == Flights \cup {NoFlight}

(* Painting: the flight keeps its stage, and a line that offers is a line   *)
(* of the status read.                                                     *)
LEMMA Paints ==
  ASSUME ResumeTypeOK, NEW f \in MaybeFlights, NEW asks \in Targets \cup {NoTarget}, NEW ph,
         NEW read \in Statuses, Painted(f, asks, ph, read)
  PROVE  /\ flight' = LandedFlight(f) /\ flight' \in MaybeFlights
         /\ flight' = NoFlight <=> f = NoFlight
         /\ f # NoFlight => flight'.stage = f.stage
         /\ found' = NoFound
         /\ confirming' \in {asks, NoTarget}
         /\ \A i \in DOMAIN painted' : painted'[i] \in Lines \cup {NoLine}
         /\ \A i \in DOMAIN painted' : painted'[i] # NoLine =>
               i \in DOMAIN read.lines /\ painted'[i] = read.lines[i]
<1>1. LandedFlight(f) \in MaybeFlights /\ (LandedFlight(f) = NoFlight <=> f = NoFlight)
      /\ (f # NoFlight => LandedFlight(f).stage = f.stage)
  BY NothingAssumption DEF LandedFlight, MaybeFlights, Flights, ResumeTypeOK
<1>2. \A i \in DOMAIN read.lines : read.lines[i] \in Lines
  BY DEF Statuses
<1>3. painted' = Offer(LandedFlight(f), ph, read)
  BY DEF Painted
<1>4. \A i \in DOMAIN painted' : i \in DOMAIN read.lines /\ painted'[i] \in {read.lines[i], NoLine}
  BY <1>3 DEF Offer
<1>5. QED
  BY <1>1, <1>2, <1>4 DEF Painted

LEMMA InitTyped == ResumeInit => Typed
<1> SUFFICES ASSUME ResumeInit PROVE Typed
  OBVIOUS
<1>1. [rev |-> 0, on |-> FALSE, liftable |-> FALSE, number |-> 0] \in Pauses
  BY Constants DEF Pauses
<1>2. \A pc \in {"opening", "ended"} : Thread(pc) \in ReaderStates
  BY Constants, NothingRead DEF Thread, ReaderStates
<1>3. reader \in [Sessions -> ReaderStates] /\ rereads \in [Sessions -> Nat]
  BY <1>2 DEF ResumeInit
<1>4. paused \in [Scope -> Pauses]
  BY <1>1 DEF ResumeInit
<1>5. \A i \in DOMAIN painted : painted[i] \in Lines \cup {NoLine}
  BY DEF ResumeInit
<1>6. ResumeTypeOK
  BY <1>3, <1>4, <1>5, Constants, NothingRead DEF ResumeInit, ResumeTypeOK
<1>7. OneOut
  BY DEF ResumeInit, OneOut, Free
<1>8. QED
  BY <1>6, <1>7 DEF Typed

(* The Runtime.                                                            *)
LEMMA LiftedTypes ==
  ASSUME ResumeTypeOK, NEW c \in Scope
  PROVE  Lifted(c) \in [Scope -> Pauses]
<1> DEFINE rev == paused[c].rev + 1
<1>1. paused[c] \in Pauses /\ rev \in Nat
  BY DEF ResumeTypeOK, Pauses
<1>2. Lifted(c) = [paused EXCEPT ![c] = [paused[c] EXCEPT !.rev = rev, !.on = FALSE]]
  BY DEF Lifted
<1> HIDE DEF rev
<1>3. [paused[c] EXCEPT !.rev = rev, !.on = FALSE] \in Pauses
  BY <1>1 DEF Pauses
<1>4. QED
  BY <1>2, <1>3 DEF ResumeTypeOK

LEMMA RuntimeTyped == Typed /\ Runtime => Typed'
<1> SUFFICES ASSUME Typed, Runtime PROVE Typed'
  OBVIOUS
<1> USE DEF Typed, faceVars, windowVars, threadVars
<1>1. CASE SetPause
  <2>1. PICK c \in Scope, liftable \in BOOLEAN :
          paused' = [paused EXCEPT ![c] = [rev |-> paused[c].rev + 1, on |-> TRUE,
                                           liftable |-> liftable, number |-> set + 1]]
    BY <1>1 DEF SetPause
  <2>2. set' = set + 1 /\ set' \in 0..MaxPause
    BY <1>1, ResumeAssumption DEF SetPause, ResumeTypeOK
  <2>3. [rev |-> paused[c].rev + 1, on |-> TRUE, liftable |-> liftable, number |-> set + 1] \in Pauses
    BY <2>2 DEF ResumeTypeOK, Pauses
  <2>4. paused' \in [Scope -> Pauses]
    BY <2>1, <2>3 DEF ResumeTypeOK
  <2>5. QED
    BY <1>1, <2>2, <2>4 DEF SetPause, ResumeTypeOK, OneOut, Free
<1>2. CASE OthersLift
  <2>1. PICK c \in Scope : paused' = Lifted(c)
    BY <1>2 DEF OthersLift
  <2>2. paused' \in [Scope -> Pauses]
    BY <2>1, LiftedTypes
  <2>3. UNCHANGED <<epoch, set, late, faceVars, windowVars, threadVars>>
    BY <1>2 DEF OthersLift
  <2>4. ResumeTypeOK'
    BY <2>2, <2>3 DEF ResumeTypeOK
  <2>5. QED
    BY <2>3, <2>4 DEF OneOut, Free
<1>3. CASE Restart
  <2>1. epoch' \in 1..MaxOwnerEpoch /\ late' \subseteq Targets
    BY <1>3, ResumeAssumption DEF Restart, ResumeTypeOK
  <2>2. QED
    <3>1. UNCHANGED <<set, paused, faceVars, windowVars, threadVars>>
      BY <1>3 DEF Restart
    <3>2. ResumeTypeOK'
      BY <2>1, <3>1 DEF ResumeTypeOK
    <3>3. QED
      BY <3>1, <3>2 DEF OneOut, Free
<1>4. CASE Handle
  <2>1. PICK p \in presses :
           /\ p.stage = "sent"
           /\ presses' = (presses \ {p})
                  \cup {[p EXCEPT !.stage = IF Names(p.line.target) THEN "resumed" ELSE "refused"]}
           /\ paused' = IF Names(p.line.target) THEN Lifted(p.line.target.scope) ELSE paused
    BY <1>4 DEF Handle
  <2>2. p \in Press /\ p.line.target.scope \in Scope
    BY DEF ResumeTypeOK, Press, Lines, Targets
  <2>3. presses' \subseteq Press
    BY <2>1, <2>2 DEF ResumeTypeOK, Press
  <2>4. paused' \in [Scope -> Pauses]
    BY <2>1, <2>2, LiftedTypes DEF ResumeTypeOK
  <2>5. ResumeTypeOK'
    BY <1>4, <2>3, <2>4 DEF Handle, ResumeTypeOK
  <2>6. \E q : presses' = {q}
    BY <2>1 DEF OneOut, Free
  <2>7. QED
    BY <1>4, <2>1, <2>5, <2>6 DEF Handle, OneOut, Free
<1>5. CASE HandleLate
  <2>1. paused' \in [Scope -> Pauses] /\ late' \subseteq Targets
    BY <1>5, LiftedTypes DEF HandleLate, ResumeTypeOK, Targets
  <2>2. QED
    <3>1. UNCHANGED <<epoch, set, faceVars, windowVars, threadVars>>
      BY <1>5 DEF HandleLate
    <3>2. ResumeTypeOK'
      BY <2>1, <3>1 DEF ResumeTypeOK
    <3>3. QED
      BY <3>1, <3>2 DEF OneOut, Free
<1>6. QED
  BY <1>1, <1>2, <1>3, <1>4, <1>5 DEF Runtime

(* The thread of a press.                                                  *)
LEMMA AnsweredTyped ==
  ASSUME Typed, NEW p \in presses, NEW outcome \in Outcomes, Answered(p, outcome),
         late' \subseteq Targets,
         UNCHANGED <<epoch, paused, set, faceVars, windowVars, rereads, reader>>
  PROVE  Typed'
<1> USE DEF Typed, faceVars, windowVars
<1>1. p.line \in Lines
  BY DEF ResumeTypeOK, Press
<1>2. presses' = {} /\ answers' = {[line |-> p.line, outcome |-> outcome]}
  BY DEF Answered, OneOut, Free
<1>3. ResumeTypeOK'
  BY <1>1, <1>2 DEF ResumeTypeOK
<1>4. QED
  BY <1>2, <1>3 DEF OneOut, Free

LEMMA ResumeThreadTyped == Typed /\ ResumeThread => Typed'
<1> SUFFICES ASSUME Typed, ResumeThread PROVE Typed'
  OBVIOUS
<1> USE DEF Typed, runtimeVars
<1>1. CASE Send
  <2>1. PICK p \in presses : presses' = (presses \ {p}) \cup {[p EXCEPT !.stage = "sent"]}
    BY <1>1 DEF Send
  <2>2. presses' \subseteq Press
    BY <2>1 DEF ResumeTypeOK, Press
  <2>3. \E q : presses' = {q}
    BY <2>1 DEF OneOut, Free
  <2>4. QED
    BY <1>1, <2>1, <2>2, <2>3 DEF Send, ResumeTypeOK, OneOut, Free, faceVars, windowVars
<1>2. CASE CannotConnect
  <2>1. \E p \in presses : Answered(p, "not_sent")
    BY <1>2 DEF CannotConnect
  <2>2. QED
    BY <1>2, <2>1, AnsweredTyped DEF CannotConnect, ResumeTypeOK, Outcomes
<1>3. CASE Receive
  <2>1. \E p \in presses : p.stage \in {"resumed", "refused"} /\ Answered(p, p.stage)
    BY <1>3 DEF Receive
  <2>2. QED
    BY <1>3, <2>1, AnsweredTyped DEF Receive, ResumeTypeOK, Outcomes
<1>4. CASE ReceiptLost
  <2>1. PICK p \in presses : /\ Answered(p, "unconfirmed")
                             /\ late' = IF p.stage = "sent" THEN late \cup {p.line.target} ELSE late
    BY <1>4 DEF ReceiptLost
  <2>2. late' \subseteq Targets
    BY <2>1 DEF ResumeTypeOK, Press, Lines
  <2>3. QED
    BY <1>4, <2>1, <2>2, AnsweredTyped DEF ReceiptLost, Outcomes
<1>5. QED
  BY <1>1, <1>2, <1>3, <1>4 DEF ResumeThread

(* The event loop.                                                         *)
LEMMA PaintedTyped ==
  ASSUME Typed, NEW f \in MaybeFlights, NEW asks \in Targets \cup {NoTarget},
         Painted(f, asks, phase, status),
         asked \subseteq asked', asked' \subseteq 0..MaxPause, agreed \subseteq agreed',
         agreed' \subseteq asked', presses' \subseteq Press, rereads' \in [Sessions -> Nat],
         answers' \subseteq [line : Lines, outcome : Outcomes], settled' \in 0..MaxPress,
         repaint' \in BOOLEAN,
         UNCHANGED <<runtimeVars, phase, status, session, closed, reader>>
  PROVE  ResumeTypeOK'
<1>1. status \in Statuses
  BY DEF Typed, ResumeTypeOK
<1>2. /\ flight' \in MaybeFlights /\ found' = NoFound
      /\ confirming' \in {asks, NoTarget}
      /\ \A i \in DOMAIN painted' : painted'[i] \in Lines \cup {NoLine}
  BY <1>1, Paints DEF Typed
<1>3. QED
  BY <1>2 DEF Typed, ResumeTypeOK, runtimeVars, MaybeFlights

LEMMA FlightTypes ==
  ASSUME NEW line \in Lines, NEW stage \in {"sending", "no_thread"} \cup Outcomes,
         NEW reread \in {"none", "asked", "not_asked"}
  PROVE  /\ Flight(line, stage, reread) \in Flights
         /\ Flight(line, stage, reread).stage = stage /\ Flight(line, stage, reread).reread = reread
         /\ Flight(line, stage, reread) # NoFlight
  BY NothingAssumption DEF Flight, Flights

LEMMA ConfirmTyped == Typed /\ Confirm => Typed'
<1> SUFFICES ASSUME Typed, Confirm PROVE Typed'
  OBVIOUS
<1>1. /\ ~closed /\ settled < MaxPress /\ flight \in MaybeFlights
      /\ UNCHANGED <<runtimeVars, phase, status, repaint, session, closed, settled, asked,
                     answers, rereads, reader>>
  BY DEF Confirm, Typed, ResumeTypeOK, MaybeFlights
<1>2. PICK i \in DOMAIN painted :
       IF ConfirmsOn(i)
         THEN \/ /\ Painted(Flight(painted[i], "sending", "none"), NoTarget, phase, status)
                 /\ presses' = presses \cup {[line |-> painted[i], stage |-> "connect"]}
                 /\ agreed' = agreed \cup ({painted[i].number} \cap asked)
              \/ /\ "spawn" \in Faults
                 /\ Painted(Flight(painted[i], "no_thread", "none"), NoTarget, phase, status)
                 /\ UNCHANGED <<presses, agreed>>
         ELSE /\ Painted(flight, NoTarget, phase, status)
              /\ UNCHANGED <<presses, agreed>>
  BY DEF Confirm
<1>3. CASE UNCHANGED <<presses, agreed>> /\ Painted(flight, NoTarget, phase, status)
  <2>1. ResumeTypeOK'
    BY <1>1, <1>3, PaintedTyped DEF Typed, ResumeTypeOK
  <2>2. flight # NoFlight => flight' # NoFlight /\ flight'.stage = flight.stage
    BY <1>1, <1>3, Paints DEF Typed, ResumeTypeOK
  <2>3. QED
    BY <1>1, <1>3, <2>1, <2>2 DEF Typed, OneOut, Free
<1>4. CASE ConfirmsOn(i)
  <2>1. painted[i] \in Lines /\ Free
    BY <1>1, <1>4 DEF ConfirmsOn, Busy, Typed, ResumeTypeOK, OneOut
  <2>2. CASE /\ Painted(Flight(painted[i], "sending", "none"), NoTarget, phase, status)
             /\ presses' = presses \cup {[line |-> painted[i], stage |-> "connect"]}
             /\ agreed' = agreed \cup ({painted[i].number} \cap asked)
    <3> DEFINE f == Flight(painted[i], "sending", "none")
    <3>1. f \in MaybeFlights /\ f # NoFlight /\ f.stage = "sending"
      BY <2>1, FlightTypes DEF MaybeFlights
    <3>2. presses' = {[line |-> painted[i], stage |-> "connect"]}
      BY <2>1, <2>2 DEF Free
    <3>3. presses' \subseteq Press
      BY <2>1, <3>2 DEF Press
    <3> HIDE DEF f
    <3>4. ResumeTypeOK'
      BY <1>1, <2>2, <3>1, <3>3, PaintedTyped DEF Typed, ResumeTypeOK, f
    <3>5. flight' # NoFlight /\ flight'.stage = "sending"
      BY <2>2, <3>1, Paints DEF Typed, ResumeTypeOK, f
    <3>6. QED
      BY <1>1, <2>1, <3>2, <3>4, <3>5 DEF Typed, OneOut, Free
  <2>3. CASE /\ Painted(Flight(painted[i], "no_thread", "none"), NoTarget, phase, status)
             /\ UNCHANGED <<presses, agreed>>
    <3>1. Flight(painted[i], "no_thread", "none") \in MaybeFlights
      BY <2>1, FlightTypes DEF MaybeFlights
    <3>2. ResumeTypeOK'
      BY <1>1, <2>3, <3>1, PaintedTyped DEF Typed, ResumeTypeOK
    <3>3. QED
      BY <1>1, <2>1, <2>3, <3>2 DEF Typed, OneOut, Free
  <2>4. QED
    BY <1>2, <1>4, <2>2, <2>3
<1>5. QED
  BY <1>2, <1>3, <1>4

LEMMA SettleTyped == Typed /\ Settle => Typed'
<1> SUFFICES ASSUME Typed, Settle PROVE Typed'
  OBVIOUS
<1>1. UNCHANGED <<runtimeVars, phase, status, repaint, session, closed, asked, agreed, presses, reader>>
  BY DEF Settle
<1>2. PICK a \in answers :
        LET asks == Opens(phase) /\ a.outcome # "not_sent"
        IN /\ answers' = answers \ {a}
           /\ IF closed
                THEN UNCHANGED <<found, confirming, flight, painted, settled, rereads>>
                ELSE /\ Painted(Flight(a.line, a.outcome, IF asks THEN "asked" ELSE "not_asked"),
                                confirming, phase, status)
                     /\ settled' = IF a.outcome = "not_sent" THEN settled ELSE settled + 1
                     /\ rereads' = IF asks THEN [rereads EXCEPT ![session] = @ + 1] ELSE rereads
  BY DEF Settle
<1>3. answers' = {} /\ presses' = {} /\ a.line \in Lines /\ a.outcome \in Outcomes
  BY <1>1, <1>2 DEF Typed, OneOut, Free, ResumeTypeOK
<1>4. ResumeTypeOK'
  <2>1. CASE closed
    BY <1>1, <1>2, <1>3, <2>1 DEF Typed, ResumeTypeOK, runtimeVars
  <2>2. CASE ~closed
    <3> DEFINE asks == Opens(phase) /\ a.outcome # "not_sent"
               f == Flight(a.line, a.outcome, IF asks THEN "asked" ELSE "not_asked")
    <3>1. settled' \in 0..MaxPress
      <4>1. settled \in 0..MaxPress /\ settled < MaxPress
        BY <1>2, <2>2 DEF Typed, ResumeTypeOK, OneOut, Free
      <4>2. settled' = settled \/ settled' = settled + 1
        BY <1>2, <2>2
      <4>3. QED
        BY <4>1, <4>2, ResumeAssumption
    <3>2. rereads' \in [Sessions -> Nat]
      BY <1>2, <2>2 DEF Typed, ResumeTypeOK
    <3>3. f \in MaybeFlights
      BY <1>3, FlightTypes DEF MaybeFlights
    <3>4. Painted(f, confirming, phase, status)
      BY <1>2, <2>2
    <3> HIDE DEF f
    <3>5. QED
      BY <1>1, <1>3, <3>1, <3>2, <3>3, <3>4, PaintedTyped DEF Typed, ResumeTypeOK
  <2>3. QED
    BY <2>1, <2>2
<1>5. QED
  BY <1>3, <1>4 DEF Typed, OneOut, Free

LEMMA LoopTyped == Typed /\ Loop => Typed'
<1> SUFFICES ASSUME Typed, Loop PROVE Typed'
  OBVIOUS
<1>1. flight \in MaybeFlights /\ ResumeTypeOK
  BY DEF Typed, ResumeTypeOK, MaybeFlights
<1>2. CASE Repaint \/ Ask
  <2>1. PICK asks \in Targets \cup {NoTarget} : Painted(flight, asks, phase, status)
    <3>1. \A i \in DOMAIN painted : Picked(i) \in Targets \cup {NoTarget}
      BY <1>1 DEF Picked, ResumeTypeOK, Lines
    <3>2. QED
      BY <1>1, <1>2, <3>1 DEF Repaint, Ask, ResumeTypeOK
  <2>2. asked \subseteq asked' /\ asked' \subseteq 0..MaxPause /\ agreed' = agreed
    BY <1>1, <1>2 DEF Repaint, Ask, ResumeTypeOK, Lines
  <2>3. /\ repaint' \in BOOLEAN
        /\ UNCHANGED <<runtimeVars, phase, status, session, closed, settled, threadVars>>
    BY <1>1, <1>2 DEF Repaint, Ask, ResumeTypeOK
  <2>4. ResumeTypeOK'
    BY <1>1, <2>1, <2>2, <2>3, PaintedTyped DEF Typed, ResumeTypeOK, threadVars
  <2>5. flight # NoFlight => flight' # NoFlight /\ flight'.stage = flight.stage
    BY <1>1, <2>1, Paints DEF ResumeTypeOK
  <2>6. QED
    BY <2>3, <2>4, <2>5 DEF Typed, OneOut, Free, threadVars
<1>3. CASE Confirm
  BY <1>3, ConfirmTyped
<1>4. CASE Settle
  BY <1>4, SettleTyped
<1>5. CASE Reopen
  <2>1. session' \in Sessions /\ reader' \in [Sessions -> ReaderStates]
    <3>1. Thread("opening") \in ReaderStates
      BY Constants, NothingRead DEF Thread, ReaderStates
    <3>2. QED
      <4>1. session' = session + 1 /\ session' \in Sessions
        BY <1>1, <1>5, ResumeAssumption DEF Reopen, ResumeTypeOK, Sessions
      <4>2. reader' = [reader EXCEPT ![session'] = Thread("opening")]
        BY <1>5 DEF Reopen
      <4>3. QED
        BY <1>1, <3>1, <4>1, <4>2 DEF ResumeTypeOK
  <2>2. flight' \in MaybeFlights /\ (flight # NoFlight /\ flight.stage = "sending" => flight' = flight)
    BY <1>1, <1>5 DEF Reopen, MaybeFlights
  <2>3. ResumeTypeOK'
    BY <1>1, <1>5, <2>1, <2>2, NothingRead DEF Reopen, ResumeTypeOK, runtimeVars, MaybeFlights
  <2>4. QED
    BY <1>5, <2>2, <2>3 DEF Reopen, Typed, OneOut, Free
<1>6. CASE Close
  BY <1>6 DEF Close, Typed, ResumeTypeOK, OneOut, Free, runtimeVars, faceVars, threadVars
<1>7. QED
  BY <1>2, <1>3, <1>4, <1>5, <1>6 DEF Loop

(* The reader.                                                             *)
LEMMA GoesTypes ==
  ASSUME ResumeTypeOK, NEW s \in Sessions, NEW pc \in {"opening", "publishing", "idle", "ended"}, Goes(s, pc)
  PROVE  reader' \in [Sessions -> ReaderStates]
<1>1. [reader[s] EXCEPT !.pc = pc] \in ReaderStates
  BY DEF ResumeTypeOK, ReaderStates
<1>2. QED
  BY <1>1 DEF Goes, ResumeTypeOK

LEMMA ReadsTypes ==
  ASSUME ResumeTypeOK, NEW s \in Sessions, NEW face \in {"online", "offline"},
         NEW owner \in 1..MaxOwnerEpoch, NEW again \in BOOLEAN, Reads(s, face, owner, again)
  PROVE  reader' \in [Sessions -> ReaderStates]
<1>1. PICK read \in StatusReads(face, owner) :
        reader' = [reader EXCEPT ![s] = [pc |-> "publishing", epoch |-> owner, face |-> face,
                                         read |-> read, again |-> again]]
  BY DEF Reads
<1>2. [pc |-> "publishing", epoch |-> owner, face |-> face, read |-> read, again |-> again] \in ReaderStates
  BY ReadTypes DEF ReaderStates
<1>3. QED
  BY <1>1, <1>2 DEF ResumeTypeOK

LEMMA ReaderTyped == ASSUME NEW s \in Sessions PROVE Typed /\ ReaderThread(s) => Typed'
<1> SUFFICES ASSUME Typed, ReaderThread(s) PROVE Typed'
  OBVIOUS
<1>1. ResumeTypeOK /\ reader[s] \in ReaderStates
  BY DEF Typed, ResumeTypeOK
<1>2. UNCHANGED <<runtimeVars, windowVars, presses, answers>>
  BY DEF ReaderThread, Open, Publish, Reread, JumpRead, Panic
<1>3. /\ phase' \in {"opening", "open", "unopened", "failed"} /\ repaint' \in BOOLEAN
      /\ status' \in Statuses /\ found' \in {"read", "failed", "offline", NoFound}
      /\ rereads' \in [Sessions -> Nat]
  <2>1. CASE Open(s)
    BY <1>1, <2>1 DEF Open, ResumeTypeOK
  <2>2. CASE Publish(s)
    BY <1>1, <2>2 DEF Publish, ResumeTypeOK, faceVars, ReaderStates, Statuses
  <2>3. CASE Reread(s) \/ JumpRead(s)
    <3>1. UNCHANGED faceVars
      BY <2>3 DEF Reread, JumpRead
    <3>2. rereads' \in [Sessions -> Nat]
      <4>1. CASE Reread(s)
        BY <1>1, <4>1 DEF Reread, ResumeTypeOK
      <4>2. CASE JumpRead(s)
        BY <1>1, <4>2 DEF JumpRead, ResumeTypeOK
      <4>3. QED
        BY <2>3, <4>1, <4>2
    <3>3. QED
      BY <1>1, <3>1, <3>2 DEF ResumeTypeOK, faceVars
  <2>4. CASE Panic(s)
    BY <1>1, <2>4 DEF Panic, ResumeTypeOK
  <2>5. QED
    BY <2>1, <2>2, <2>3, <2>4 DEF ReaderThread
<1>4. reader' \in [Sessions -> ReaderStates]
  <2>1. CASE Open(s)
    BY <1>1, <2>1, GoesTypes, ReadsTypes DEF Open, ResumeTypeOK
  <2>2. CASE Publish(s)
    BY <1>1, <2>2, GoesTypes DEF Publish
  <2>3. CASE Reread(s)
    BY <1>1, <2>3, ReadsTypes DEF Reread, ReaderStates
  <2>4. CASE JumpRead(s)
    BY <1>1, <2>4, ReadsTypes DEF JumpRead, ReaderStates
  <2>5. CASE Panic(s)
    BY <1>1, <2>5, GoesTypes DEF Panic
  <2>6. QED
    BY <2>1, <2>2, <2>3, <2>4, <2>5 DEF ReaderThread
<1>5. ResumeTypeOK'
  BY <1>1, <1>2, <1>3, <1>4 DEF ResumeTypeOK, runtimeVars, windowVars
<1>6. QED
  BY <1>2, <1>5 DEF Typed, OneOut, Free, windowVars

LEMMA NextTyped == Typed /\ [ResumeNext]_vars => Typed'
<1>1. Typed /\ UNCHANGED vars => Typed'
  <2> SUFFICES ASSUME Typed, UNCHANGED vars PROVE Typed'
    OBVIOUS
  <2> USE DEF vars, runtimeVars, faceVars, windowVars, threadVars
  <2>1. ResumeTypeOK'
    BY DEF Typed, ResumeTypeOK
  <2>2. OneOut'
    BY DEF Typed, OneOut, Free
  <2>3. QED
    BY <2>1, <2>2 DEF Typed
<1>2. QED
  BY <1>1, RuntimeTyped, ResumeThreadTyped, LoopTyped, ReaderTyped DEF ResumeNext

LEMMA AlwaysTyped == ResumeSpec => []Typed
  BY InitTyped, NextTyped, PTL DEF ResumeSpec

(* A person's presses send one request at a time (Resume::reopened).        *)
THEOREM OnePress == ResumeSpec => []OnePressOut
<1>1. OneOut => OnePressOut
  <2> SUFFICES ASSUME OneOut PROVE OnePressOut
    OBVIOUS
  <2>1. /\ Cardinality(presses) = 0 \/ Cardinality(presses) = 1
        /\ Cardinality(answers) = 0 \/ Cardinality(answers) = 1
        /\ Cardinality(presses) = 0 \/ Cardinality(answers) = 0
    BY FS_EmptySet, FS_Singleton DEF OneOut, Free
  <2>2. QED
    BY <2>1 DEF OnePressOut
<1>2. QED
  BY <1>1, AlwaysTyped, PTL DEF Typed

(* Every variable has its type.                                            *)
THEOREM ResumeTypesHold == ResumeSpec => []ResumeTypeOK
  BY AlwaysTyped, PTL DEF Typed

-----------------------------------------------------------------------------
(* A target names one pause: its scope and revision are those of the pause  *)
(* with number n, in the Runtime and in every line the window, its reader   *)
(* and a press hold.                                                       *)

ReadLines(read) == {read.lines[i] : i \in DOMAIN read.lines}

LinesRead(readers) == UNION {ReadLines(readers[s].read) : s \in Sessions}
LinesOffered(offers) == {offers[i] : i \in DOMAIN offers} \ {NoLine}
LinesOut(out) == {p.line : p \in out}

KnownOf(read, readers, offers, out) ==
  ReadLines(read) \cup LinesRead(readers) \cup LinesOffered(offers) \cup LinesOut(out)

Known == KnownOf(status, reader, painted, presses)

NamesOne(t, n, lines, has) ==
  /\ t.rev <= has[t.scope].rev
  /\ t.rev = has[t.scope].rev => has[t.scope].number = n
  /\ \A l \in lines : l.target.scope = t.scope /\ l.target.rev = t.rev => l.number = n

\* What a first press asked about, what both presses were made on, and what is still to be
\* handled names the pauses of `asked` and `agreed`.
Confirmed ==
  /\ \A l \in Known : NamesOne(l.target, l.number, Known, paused)
  /\ confirming # NoTarget => \E n \in asked : NamesOne(confirming, n, Known, paused)
  /\ \A p \in presses : p.line.number \in agreed
  /\ \A t \in late : \E n \in agreed : NamesOne(t, n, Known, paused)

LEMMA InKnown ==
  ASSUME NEW read, NEW readers, NEW offers, NEW out, NEW l
  PROVE  l \in KnownOf(read, readers, offers, out) <=>
           \/ l \in ReadLines(read)
           \/ \E s \in Sessions : l \in ReadLines(readers[s].read)
           \/ l # NoLine /\ \E i \in DOMAIN offers : l = offers[i]
           \/ \E p \in out : l = p.line
<1>1. l \in LinesRead(readers) <=> \E s \in Sessions : l \in ReadLines(readers[s].read)
  BY DEF LinesRead
<1>2. l \in LinesOffered(offers) <=> l # NoLine /\ \E i \in DOMAIN offers : l = offers[i]
  BY DEF LinesOffered
<1>3. l \in LinesOut(out) <=> \E p \in out : l = p.line
  BY DEF LinesOut
<1>4. QED
  BY <1>1, <1>2, <1>3 DEF KnownOf

LEMMA HoldsKnown ==
  /\ ReadLines(status) \subseteq Known
  /\ \A s \in Sessions : ReadLines(reader[s].read) \subseteq Known
  /\ \A i \in DOMAIN painted : painted[i] # NoLine => painted[i] \in Known
  /\ \A p \in presses : p.line \in Known
BY InKnown DEF Known

LEMMA KnownKept ==
  ASSUME ReadLines(status') \subseteq Known,
         \A s \in Sessions : ReadLines(reader'[s].read) \subseteq Known,
         \A i \in DOMAIN painted' : painted'[i] # NoLine => painted'[i] \in Known,
         \A p \in presses' : p.line \in Known
  PROVE  Known' \subseteq Known
<1> SUFFICES ASSUME NEW l \in Known' PROVE l \in Known
  OBVIOUS
<1>1. \/ l \in ReadLines(status')
      \/ \E s \in Sessions : l \in ReadLines(reader'[s].read)
      \/ l # NoLine /\ \E i \in DOMAIN painted' : l = painted'[i]
      \/ \E p \in presses' : l = p.line
  BY InKnown DEF Known
<1>2. QED
  BY <1>1

LEMMA KnownLines ==
  ASSUME NEW read \in Statuses, NEW readers, \A s \in Sessions : readers[s].read \in Statuses,
         NEW offers, \A i \in DOMAIN offers : offers[i] \in Lines \cup {NoLine},
         NEW out, \A p \in out : p.line \in Lines
  PROVE  KnownOf(read, readers, offers, out) \subseteq Lines
<1>1. \A r \in Statuses : ReadLines(r) \subseteq Lines
  BY DEF ReadLines, Statuses
<1>2. QED
  BY <1>1, InKnown

LEMMA KnownAreLines == (ResumeTypeOK => Known \subseteq Lines) /\ (ResumeTypeOK' => Known' \subseteq Lines)
<1>1. ResumeTypeOK => Known \subseteq Lines
  <2> SUFFICES ASSUME ResumeTypeOK PROVE Known \subseteq Lines
    OBVIOUS
  <2>1. \A s \in Sessions : reader[s].read \in Statuses
    BY DEF ResumeTypeOK, ReaderStates
  <2>2. \A p \in presses : p.line \in Lines
    BY DEF ResumeTypeOK, Press
  <2>3. QED
    BY <2>1, <2>2, KnownLines DEF Known, ResumeTypeOK
<1>2. ResumeTypeOK' => Known' \subseteq Lines
  <2> SUFFICES ASSUME ResumeTypeOK' PROVE Known' \subseteq Lines
    OBVIOUS
  <2>1. \A s \in Sessions : reader'[s].read \in Statuses
    BY DEF ResumeTypeOK, ReaderStates
  <2>2. \A p \in presses' : p.line \in Lines
    BY DEF ResumeTypeOK, Press
  <2>3. QED
    BY <2>1, <2>2, KnownLines DEF Known, ResumeTypeOK
<1>3. QED
  BY <1>1, <1>2

\* A scope's pause is as it was, or its revision has moved on.
MovesOn == \A c \in Scope : paused'[c] = paused[c] \/ paused'[c].rev > paused[c].rev

LEMMA TiedKept ==
  ASSUME ResumeTypeOK, ResumeTypeOK', Known' \subseteq Known, MovesOn, NEW t \in Targets, NEW n, NamesOne(t, n, Known, paused)
  PROVE  NamesOne(t, n, Known', paused')
<1>1. t.scope \in Scope /\ t.rev \in Nat
  BY DEF Targets
<1>2. paused[t.scope].rev \in Nat /\ paused'[t.scope].rev \in Nat
  BY <1>1 DEF ResumeTypeOK, Pauses
<1>3. QED
  BY <1>1, <1>2 DEF NamesOne, MovesOn

(* A step that reads no new line and asks about none.                      *)
LEMMA Keeps ==
  ASSUME Typed, Typed', Confirmed, Known' \subseteq Known, MovesOn,
         confirming' \in {confirming, NoTarget}, asked \subseteq asked', agreed \subseteq agreed',
         \A p \in presses' : \E q \in presses : p.line = q.line,
         \A t \in late' : t \in late \/ \E p \in presses : t = p.line.target
  PROVE  Confirmed'
<1>1. Known \subseteq Lines /\ ResumeTypeOK /\ ResumeTypeOK'
  BY KnownAreLines DEF Typed
<1>2. \A l \in Known : l.target \in Targets
  BY <1>1 DEF Lines
<1>3. \A l \in Known' : NamesOne(l.target, l.number, Known', paused')
  BY <1>1, <1>2, TiedKept DEF Confirmed
<1>4. confirming' # NoTarget => \E n \in asked' : NamesOne(confirming', n, Known', paused')
  <2> SUFFICES ASSUME confirming' # NoTarget PROVE \E n \in asked' : NamesOne(confirming', n, Known', paused')
    OBVIOUS
  <2>1. confirming' = confirming /\ confirming \in Targets
    BY <1>1 DEF ResumeTypeOK
  <2>2. PICK n \in asked : NamesOne(confirming, n, Known, paused)
    BY <2>1 DEF Confirmed
  <2>3. NamesOne(confirming, n, Known', paused')
    BY <1>1, <2>1, <2>2, TiedKept DEF NamesOne
  <2>4. QED
    BY <2>1, <2>2, <2>3
<1>5. \A p \in presses' : p.line.number \in agreed'
  BY DEF Confirmed
<1>6. ASSUME NEW t \in late' PROVE \E n \in agreed' : NamesOne(t, n, Known', paused')
  <2>1. \E n \in agreed : NamesOne(t, n, Known, paused)
    <3>1. CASE t \in late
      BY <3>1 DEF Confirmed
    <3>2. CASE \E p \in presses : t = p.line.target
      <4>1. PICK p \in presses : t = p.line.target
        BY <3>2
      <4>2. p.line \in Known
        BY <4>1, InKnown DEF Known
      <4>3. QED
        BY <4>1, <4>2 DEF Confirmed
    <3>3. QED
      BY <1>6, <3>1, <3>2
  <2>2. t \in Targets
    BY <1>1, <1>6 DEF ResumeTypeOK
  <2>3. QED
    BY <1>1, <2>1, <2>2, TiedKept
<1>7. QED
  BY <1>3, <1>4, <1>5, <1>6 DEF Confirmed

LEMMA ReadNamesNow ==
  ASSUME NEW face, NEW owner, NEW read \in StatusReads(face, owner), NEW l \in ReadLines(read)
  PROVE  l.target.rev = paused[l.target.scope].rev /\ l.number = paused[l.target.scope].number
<1>1. read.lines = <<>> \/ read.lines \in RuntimeLines
  BY DEF StatusReads, Nothing
<1>2. PICK i \in DOMAIN read.lines : l = read.lines[i]
  BY DEF ReadLines
<1>3. read.lines \in RuntimeLines
  BY <1>1, <1>2
<1>4. PICK on \in InOrder({c \in Scope : paused[c].on}) :
        read.lines = [k \in DOMAIN on |->
          [target |-> [scope |-> on[k], epoch |-> epoch, rev |-> paused[on[k]].rev],
           liftable |-> paused[on[k]].liftable, number |-> paused[on[k]].number,
           after |-> settled]]
  BY <1>3 DEF RuntimeLines
<1>5. QED
  BY <1>2, <1>4

(* A status read made: its lines name the pauses the Runtime has now.      *)
LEMMA ReadsConfirmed ==
  ASSUME Typed, Typed', Confirmed, NEW s \in Sessions, NEW face, NEW owner, NEW again,
         Reads(s, face, owner, again),
         UNCHANGED <<paused, late, status, painted, presses, confirming, asked, agreed>>
  PROVE  Confirmed'
<1>1. PICK read \in StatusReads(face, owner) :
        reader' = [reader EXCEPT ![s] = [pc |-> "publishing", epoch |-> owner, face |-> face,
                                         read |-> read, again |-> again]]
  BY DEF Reads
<1>2. \A l \in ReadLines(read) : /\ l.target.rev = paused[l.target.scope].rev
                                  /\ l.number = paused[l.target.scope].number
  BY ReadNamesNow
<1>3. Known' \subseteq Known \cup ReadLines(read)
  <2>1. \A r \in Sessions : reader'[r].read = reader[r].read \/ reader'[r].read = read
    BY <1>1 DEF Typed, ResumeTypeOK
  <2> SUFFICES ASSUME NEW l \in Known' PROVE l \in Known \cup ReadLines(read)
    OBVIOUS
  <2>2. \/ l \in ReadLines(status)
        \/ \E r \in Sessions : l \in ReadLines(reader'[r].read)
        \/ l # NoLine /\ \E i \in DOMAIN painted : l = painted[i]
        \/ \E p \in presses : l = p.line
    BY InKnown DEF Known
  <2>3. QED
    BY <2>1, <2>2, InKnown DEF Known
<1>4. Known \subseteq Lines /\ Known' \subseteq Lines
  BY KnownAreLines DEF Typed
<1>5. ASSUME NEW t, NEW n, NamesOne(t, n, Known, paused) PROVE NamesOne(t, n, Known', paused')
  BY <1>2, <1>3, <1>5 DEF NamesOne
<1>6. ASSUME NEW l \in ReadLines(read), l \in Lines PROVE NamesOne(l.target, l.number, Known', paused')
  <2>1. l.target.rev \in Nat
    BY <1>6 DEF Lines, Targets
  <2>2. \A m \in Known : m.target.scope = l.target.scope /\ m.target.rev = l.target.rev
                           => m.number = l.number
    BY <1>2, <1>6 DEF Confirmed, NamesOne
  <2>3. QED
    BY <1>2, <1>3, <1>6, <2>1, <2>2 DEF NamesOne
<1>7. \A l \in Known' : NamesOne(l.target, l.number, Known', paused')
  BY <1>3, <1>4, <1>5, <1>6 DEF Confirmed
<1>8. QED
  BY <1>5, <1>7 DEF Confirmed

(* What is painted is of the status read.                                  *)
LEMMA PaintsKnown ==
  ASSUME Typed, NEW f \in MaybeFlights, NEW asks \in Targets \cup {NoTarget},
         Painted(f, asks, phase, status), UNCHANGED <<status, reader>>
  PROVE  Known' \subseteq Known \cup {p.line : p \in presses'}
<1>1. \A i \in DOMAIN painted' : painted'[i] # NoLine => painted'[i] \in ReadLines(status)
  BY Paints DEF ReadLines, Typed, ResumeTypeOK
<1> SUFFICES ASSUME NEW l \in Known' PROVE l \in Known \cup {p.line : p \in presses'}
  OBVIOUS
<1>2. \/ l \in ReadLines(status)
      \/ \E s \in Sessions : l \in ReadLines(reader[s].read)
      \/ l # NoLine /\ \E i \in DOMAIN painted' : l = painted'[i]
      \/ \E p \in presses' : l = p.line
  BY InKnown DEF Known
<1>3. QED
  BY <1>1, <1>2, InKnown DEF Known

LEMMA AskConfirmed == Typed /\ Typed' /\ Confirmed /\ Ask => Confirmed'
<1> SUFFICES ASSUME Typed, Typed', Confirmed, Ask PROVE Confirmed'
  OBVIOUS
<1>1. /\ UNCHANGED <<runtimeVars, status, presses, reader, agreed>>
      /\ flight \in MaybeFlights
  BY DEF Ask, threadVars, Typed, ResumeTypeOK, MaybeFlights
<1>2. PICK i \in DOMAIN painted :
        /\ Painted(flight, Picked(i), phase, status)
        /\ asked' = IF painted[i] = NoLine THEN asked ELSE asked \cup {painted[i].number}
  BY DEF Ask
<1>3. Picked(i) \in Targets \cup {NoTarget}
  BY DEF Picked, Typed, ResumeTypeOK, Lines
<1>4. Known' \subseteq Known /\ confirming' \in {Picked(i), NoTarget}
  <2>1. UNCHANGED <<status, reader>> /\ presses' = presses
    BY <1>1
  <2>2. Known' \subseteq Known \cup {p.line : p \in presses}
    BY <1>1, <1>2, <1>3, <2>1, PaintsKnown
  <2>3. {p.line : p \in presses} \subseteq Known
    BY InKnown DEF Known
  <2>4. confirming' \in {Picked(i), NoTarget}
    BY <1>1, <1>2, <1>3, Paints DEF Typed, ResumeTypeOK
  <2>5. QED
    BY <2>2, <2>3, <2>4
<1>5. MovesOn
  BY <1>1 DEF MovesOn, runtimeVars
<1>6. CASE confirming' = NoTarget
  BY <1>1, <1>2, <1>4, <1>5, <1>6, Keeps DEF runtimeVars
<1>7. CASE confirming' # NoTarget
  <2>1. /\ painted[i] \in Known /\ confirming' = painted[i].target
        /\ painted[i].number \in asked' /\ asked \subseteq asked'
    BY <1>2, <1>4, <1>7, InKnown DEF Picked, Known
  <2>2. painted[i].target \in Targets /\ NamesOne(painted[i].target, painted[i].number, Known, paused)
    BY <2>1, KnownAreLines DEF Confirmed, Typed, Lines
  <2>3. NamesOne(painted[i].target, painted[i].number, Known', paused')
    <3> DEFINE t == painted[i].target
               n == painted[i].number
    <3>1. t.rev <= paused'[t.scope].rev /\ (t.rev = paused'[t.scope].rev => paused'[t.scope].number = n)
      BY <1>1, <2>2 DEF NamesOne, runtimeVars
    <3>2. \A l \in Known' : l.target.scope = t.scope /\ l.target.rev = t.rev => l.number = n
      BY <1>4, <2>2 DEF NamesOne
    <3>3. QED
      BY <3>1, <3>2 DEF NamesOne
  <2>4. QED
    BY <1>1, <1>4, <2>1, <2>3 DEF Confirmed, NamesOne, runtimeVars
<1>8. QED
  BY <1>6, <1>7

LEMMA ConfirmConfirmed == Typed /\ Typed' /\ Confirmed /\ Confirm => Confirmed'
<1> SUFFICES ASSUME Typed, Typed', Confirmed, Confirm PROVE Confirmed'
  OBVIOUS
<1>1. UNCHANGED <<runtimeVars, status, asked, reader>> /\ flight \in MaybeFlights
  BY DEF Confirm, Typed, ResumeTypeOK, MaybeFlights
<1>2. MovesOn
  BY <1>1 DEF MovesOn, runtimeVars
<1>3. NoTarget \in Targets \cup {NoTarget} /\ status \in Statuses
  BY DEF Typed, ResumeTypeOK
<1>4. PICK i \in DOMAIN painted :
        \/ /\ ConfirmsOn(i)
           /\ Painted(Flight(painted[i], "sending", "none"), NoTarget, phase, status)
           /\ presses' = presses \cup {[line |-> painted[i], stage |-> "connect"]}
           /\ agreed' = agreed \cup ({painted[i].number} \cap asked)
        \/ /\ \E f \in MaybeFlights : Painted(f, NoTarget, phase, status)
           /\ UNCHANGED <<presses, agreed>>
  <2>1. PICK i \in DOMAIN painted :
          IF ConfirmsOn(i)
          THEN \/ /\ Painted(Flight(painted[i], "sending", "none"), NoTarget, phase, status)
                  /\ presses' = presses \cup {[line |-> painted[i], stage |-> "connect"]}
                  /\ agreed' = agreed \cup ({painted[i].number} \cap asked)
               \/ /\ "spawn" \in Faults
                  /\ Painted(Flight(painted[i], "no_thread", "none"), NoTarget, phase, status)
                  /\ UNCHANGED <<presses, agreed>>
          ELSE /\ Painted(flight, NoTarget, phase, status)
               /\ UNCHANGED <<presses, agreed>>
    BY DEF Confirm
  <2>2. ConfirmsOn(i) => Flight(painted[i], "no_thread", "none") \in MaybeFlights
    BY DEF ConfirmsOn, Flight, MaybeFlights, Flights, Typed, ResumeTypeOK
  <2>3. QED
    BY <1>1, <2>1, <2>2
<1>5. \E f \in MaybeFlights : Painted(f, NoTarget, phase, status)
  <2>1. ConfirmsOn(i) => Flight(painted[i], "sending", "none") \in MaybeFlights
    BY DEF ConfirmsOn, Flight, MaybeFlights, Flights, Typed, ResumeTypeOK
  <2>2. QED
    BY <1>4, <2>1
<1>6. Known' \subseteq Known \cup {p.line : p \in presses'} /\ confirming' = NoTarget
  BY <1>1, <1>3, <1>5, PaintsKnown, Paints DEF Typed
<1>7. \A p \in presses' : p \in presses \/ (p.line = painted[i] /\ ConfirmsOn(i))
  BY <1>4
<1>8. \A p \in presses' : p.line \in Known
  BY <1>7, HoldsKnown DEF ConfirmsOn
<1>9. Known' \subseteq Known /\ agreed \subseteq agreed' /\ late' = late
  BY <1>1, <1>4, <1>6, <1>8 DEF runtimeVars
<1>10. ASSUME NEW p \in presses' PROVE p.line.number \in agreed'
  <2>1. CASE p \in presses
    BY <1>9, <2>1 DEF Confirmed
  <2>2. CASE p \notin presses
    <3>1. /\ ConfirmsOn(i) /\ p.line = painted[i]
          /\ agreed' = agreed \cup ({painted[i].number} \cap asked)
      BY <1>4, <1>7, <2>2
    <3>2. painted[i] \in Known /\ confirming = painted[i].target
      BY <3>1, HoldsKnown DEF ConfirmsOn
    <3>3. painted[i] \in Lines
      BY <3>2, KnownAreLines DEF Typed
    <3>4. confirming # NoTarget
      BY <3>2, <3>3, NothingAssumption DEF Lines
    <3>5. PICK n \in asked : NamesOne(confirming, n, Known, paused)
      BY <3>4 DEF Confirmed
    <3>6. painted[i].number = n
      BY <3>2, <3>5 DEF NamesOne
    <3>7. QED
      BY <3>1, <3>5, <3>6
  <2>3. QED
    BY <2>1, <2>2
<1>11. \A l \in Known : l.target \in Targets
  BY KnownAreLines DEF Typed, Lines
<1>12. ASSUME NEW t \in Targets, NEW n, NamesOne(t, n, Known, paused)
       PROVE  NamesOne(t, n, Known', paused')
  BY <1>2, <1>9, <1>12, TiedKept DEF Typed
<1>13. /\ \A l \in Known' : NamesOne(l.target, l.number, Known', paused')
       /\ \A t \in late' : \E n \in agreed' : NamesOne(t, n, Known', paused')
  BY <1>9, <1>11, <1>12 DEF Confirmed, Typed, ResumeTypeOK
<1>14. QED
  BY <1>6, <1>10, <1>13 DEF Confirmed

LEMMA RuntimeConfirmed == Typed /\ Typed' /\ Confirmed /\ Runtime => Confirmed'
<1> SUFFICES ASSUME Typed, Typed', Confirmed, Runtime PROVE Confirmed'
  OBVIOUS
<1> USE DEF runtimeVars, faceVars, windowVars, threadVars
<1>1. UNCHANGED <<faceVars, windowVars, answers, rereads, reader>>
  BY DEF Runtime, SetPause, OthersLift, Restart, Handle, HandleLate
<1>2. \A c \in Scope : paused[c].rev \in Nat
  BY DEF Typed, ResumeTypeOK, Pauses
<1>3. \A c \in Scope, d \in Scope : Lifted(c)[d] = paused[d] \/ Lifted(c)[d].rev > paused[d].rev
  BY <1>2 DEF Lifted, Typed, ResumeTypeOK, Pauses
<1>4. MovesOn
  <2>1. CASE SetPause
    BY <1>2, <2>1 DEF SetPause, MovesOn, Typed, ResumeTypeOK, Pauses
  <2>2. CASE OthersLift
    BY <1>3, <2>2 DEF OthersLift, MovesOn
  <2>3. CASE Restart
    BY <2>3 DEF Restart, MovesOn
  <2>4. CASE Handle
    <3>1. \A p \in presses : p.line.target.scope \in Scope
      BY DEF Typed, ResumeTypeOK, Press, Lines, Targets
    <3>2. QED
      BY <1>3, <2>4, <3>1 DEF Handle, MovesOn
  <2>5. CASE HandleLate
    <3>1. \A t \in late : t.scope \in Scope
      BY DEF Typed, ResumeTypeOK, Targets
    <3>2. QED
      BY <1>3, <2>5, <3>1 DEF HandleLate, MovesOn
  <2>6. QED
    BY <2>1, <2>2, <2>3, <2>4, <2>5 DEF Runtime
<1>5. (\A p \in presses' : \E q \in presses : p.line = q.line) /\ late' \subseteq late
  <2>1. CASE Handle
    BY <2>1 DEF Handle, Typed, ResumeTypeOK, Press
  <2>2. CASE SetPause \/ OthersLift \/ Restart \/ HandleLate
    BY <2>2 DEF SetPause, OthersLift, Restart, HandleLate
  <2>3. QED
    BY <2>1, <2>2 DEF Runtime
<1>6. Known' \subseteq Known
  BY <1>1, <1>5, HoldsKnown, KnownKept
<1>7. QED
  BY <1>1, <1>4, <1>5, <1>6, Keeps

LEMMA ResumeThreadConfirmed == Typed /\ Typed' /\ Confirmed /\ ResumeThread => Confirmed'
<1> SUFFICES ASSUME Typed, Typed', Confirmed, ResumeThread PROVE Confirmed'
  OBVIOUS
<1> USE DEF runtimeVars, faceVars, windowVars, threadVars
<1>1. UNCHANGED <<epoch, paused, set, faceVars, windowVars, rereads, reader>>
  BY DEF ResumeThread, Send, CannotConnect, Receive, ReceiptLost
<1>2. /\ \A p \in presses' : \E q \in presses : p.line = q.line
      /\ \A t \in late' : t \in late \/ \E p \in presses : t = p.line.target
  <2>1. CASE Send
    BY <2>1 DEF Send, Typed, ResumeTypeOK, Press
  <2>2. CASE CannotConnect \/ Receive \/ ReceiptLost
    BY <2>2 DEF CannotConnect, Receive, ReceiptLost, Answered
  <2>3. QED
    BY <2>1, <2>2 DEF ResumeThread
<1>3. Known' \subseteq Known
  BY <1>1, <1>2, HoldsKnown, KnownKept
<1>4. MovesOn
  BY <1>1 DEF MovesOn
<1>5. QED
  BY <1>1, <1>2, <1>3, <1>4, Keeps

(* What is painted anew, with no press made, is of the status read.        *)
LEMMA RepaintedConfirmed ==
  ASSUME Typed, Typed', Confirmed, NEW f \in MaybeFlights, Painted(f, confirming, phase, status),
         UNCHANGED <<runtimeVars, status, reader, asked, agreed, presses>>
  PROVE  Confirmed'
<1>1. Known' \subseteq Known /\ confirming' \in {confirming, NoTarget}
  <2>1. confirming \in Targets \cup {NoTarget} /\ status \in Statuses /\ ResumeTypeOK
    BY DEF Typed, ResumeTypeOK
  <2>2. Known' \subseteq Known \cup {p.line : p \in presses}
    BY <2>1, PaintsKnown
  <2>3. \A p \in presses : p.line \in Known
    BY HoldsKnown
  <2>4. confirming' \in {confirming, NoTarget}
    BY <2>1, Paints
  <2>5. QED
    BY <2>2, <2>3, <2>4
<1>2. MovesOn
  BY DEF MovesOn, runtimeVars
<1>3. QED
  BY <1>1, <1>2, Keeps DEF runtimeVars

LEMMA LoopConfirmed == Typed /\ Typed' /\ Confirmed /\ Loop => Confirmed'
<1> SUFFICES ASSUME Typed, Typed', Confirmed, Loop PROVE Confirmed'
  OBVIOUS
<1>1. CASE Repaint
  BY <1>1, RepaintedConfirmed DEF Repaint, threadVars, Typed, ResumeTypeOK, MaybeFlights
<1>2. CASE Ask
  BY <1>2, AskConfirmed
<1>3. CASE Confirm
  BY <1>3, ConfirmConfirmed
<1>4. CASE Settle
  <2>1. UNCHANGED <<runtimeVars, status, reader, asked, agreed, presses>>
    BY <1>4 DEF Settle
  <2>2. CASE closed
    <3>1. UNCHANGED <<painted, confirming>>
      BY <1>4, <2>2 DEF Settle
    <3>2. Known' \subseteq Known
      BY <2>1, <3>1, HoldsKnown, KnownKept
    <3>3. MovesOn
      BY <2>1 DEF MovesOn, runtimeVars
    <3>4. QED
      BY <2>1, <3>1, <3>2, <3>3, Keeps DEF runtimeVars
  <2>3. CASE ~closed
    <3>1. PICK a \in answers :
            Painted(Flight(a.line, a.outcome,
                           IF Opens(phase) /\ a.outcome # "not_sent" THEN "asked" ELSE "not_asked"),
                    confirming, phase, status)
      BY <1>4, <2>3 DEF Settle
    <3>2. Flight(a.line, a.outcome,
                 IF Opens(phase) /\ a.outcome # "not_sent" THEN "asked" ELSE "not_asked") \in MaybeFlights
      BY DEF Flight, MaybeFlights, Flights, Typed, ResumeTypeOK
    <3>3. QED
      BY <2>1, <3>1, <3>2, RepaintedConfirmed
  <2>4. QED
    BY <2>2, <2>3
<1>5. CASE Reopen \/ Close
  <2>1. UNCHANGED <<runtimeVars, asked, agreed, presses>> /\ confirming' \in {confirming, NoTarget}
    BY <1>5 DEF Reopen, Close, threadVars
  <2>2. /\ status' = status \/ status' = Nothing
        /\ \A s \in Sessions : reader'[s].read = reader[s].read \/ reader'[s].read = Nothing
        /\ painted' = painted \/ painted' = <<>>
    <3>1. CASE Reopen
      <4>1. Thread("opening").read = Nothing
        BY DEF Thread
      <4>2. reader' = [reader EXCEPT ![session + 1] = Thread("opening")]
        BY <3>1 DEF Reopen
      <4>3. \A s \in Sessions : reader'[s].read = reader[s].read \/ reader'[s].read = Nothing
        BY <4>1, <4>2 DEF Typed, ResumeTypeOK
      <4>4. QED
        BY <3>1, <4>3 DEF Reopen
    <3>2. CASE Close
      BY <3>2 DEF Close, faceVars, threadVars
    <3>3. QED
      BY <1>5, <3>1, <3>2
  <2>3. ReadLines(Nothing) = {}
    BY DEF ReadLines, Nothing
  <2>4. Known' \subseteq Known
    BY <2>1, <2>2, <2>3, HoldsKnown, KnownKept
  <2>5. MovesOn
    BY <2>1 DEF MovesOn, runtimeVars
  <2>6. QED
    BY <2>1, <2>4, <2>5, Keeps DEF runtimeVars
<1>6. QED
  BY <1>1, <1>2, <1>3, <1>4, <1>5 DEF Loop

LEMMA ReaderConfirmed ==
  ASSUME NEW s \in Sessions
  PROVE  Typed /\ Typed' /\ Confirmed /\ ReaderThread(s) => Confirmed'
<1> SUFFICES ASSUME Typed, Typed', Confirmed, ReaderThread(s) PROVE Confirmed'
  OBVIOUS
<1>1. UNCHANGED <<paused, late, painted, presses, confirming, asked, agreed>>
  BY DEF ReaderThread, Open, Publish, Reread, JumpRead, Panic, runtimeVars, windowVars
<1>2. CASE (\E face \in {"online", "offline"} : Reads(s, face, epoch, FALSE)) /\ status' = status
  BY <1>1, <1>2, ReadsConfirmed
<1>3. CASE Reread(s) \/ JumpRead(s)
  BY <1>1, <1>3, ReadsConfirmed DEF Reread, JumpRead, faceVars
<1>4. CASE (\E pc : Goes(s, pc)) /\ status' \in {status, reader[s].read}
  <2>1. \A r \in Sessions : reader'[r].read = reader[r].read
    BY <1>4 DEF Goes, Typed, ResumeTypeOK, ReaderStates
  <2>2. Known' \subseteq Known
    BY <1>1, <1>4, <2>1, HoldsKnown, KnownKept
  <2>3. MovesOn
    BY <1>1 DEF MovesOn
  <2>4. QED
    BY <1>1, <2>2, <2>3, Keeps
<1>5. QED
  <2>1. CASE Open(s)
    BY <1>2, <1>4, <2>1 DEF Open
  <2>2. CASE Publish(s) \/ Panic(s)
    BY <1>4, <2>2 DEF Publish, Panic, faceVars
  <2>3. QED
    BY <1>3, <2>1, <2>2 DEF ReaderThread

LEMMA InitConfirmed == ResumeInit => Confirmed
<1> SUFFICES ASSUME ResumeInit PROVE Confirmed
  OBVIOUS
<1>1. ReadLines(Nothing) = {}
  BY DEF ReadLines, Nothing
<1>2. status = Nothing /\ (\A s \in Sessions : reader[s].read = Nothing) /\ painted = <<>>
  BY DEF ResumeInit, Thread
<1>3. Known = {}
  BY <1>1, <1>2, InKnown DEF Known, ResumeInit
<1>4. QED
  BY <1>3 DEF ResumeInit, Confirmed

LEMMA NextConfirmed == Typed /\ Typed' /\ Confirmed /\ [ResumeNext]_vars => Confirmed'
<1>1. Typed /\ Typed' /\ Confirmed /\ UNCHANGED vars => Confirmed'
  BY DEF Confirmed, Known, NamesOne, vars, runtimeVars, faceVars, windowVars, threadVars
<1>2. QED
  BY <1>1, RuntimeConfirmed, ResumeThreadConfirmed, LoopConfirmed, ReaderConfirmed DEF ResumeNext

LEMMA AlwaysConfirmed == ResumeSpec => [](Typed /\ Confirmed)
<1>1. Typed /\ Confirmed /\ [ResumeNext]_vars => (Typed /\ Confirmed)'
  BY NextTyped, NextConfirmed
<1>2. QED
  BY <1>1, InitTyped, InitConfirmed, PTL DEF ResumeSpec

(* A window's request lifts only a pause on whose own line both presses were *)
(* made, also when its receipt is lost and the Runtime handles it later.   *)
THEOREM LiftsConfirmed == ResumeSpec => LiftsOnlyWhatWasConfirmed
<1> DEFINE Lifts == \A c \in Scope :
                     (paused[c].on /\ ~paused'[c].on /\ <<presses, late>>' # <<presses, late>>)
                       => paused[c].number \in agreed
<1>1. Typed /\ Confirmed /\ [ResumeNext]_vars => [Lifts]_vars
  <2> SUFFICES ASSUME Typed, Confirmed, ResumeNext, NEW c \in Scope, paused[c].on, ~paused'[c].on,
                      <<presses, late>>' # <<presses, late>>
               PROVE  paused[c].number \in agreed
    OBVIOUS
  <2>1. Handle \/ HandleLate
    <3>1. ~SetPause /\ ~OthersLift
      BY DEF SetPause, OthersLift, threadVars, Typed, ResumeTypeOK, Pauses
    <3>2. ~Restart /\ ~ResumeThread
      BY DEF Restart, ResumeThread, Send, CannotConnect, Receive, ReceiptLost, runtimeVars
    <3>3. ~Loop
      BY DEF Loop, Repaint, Ask, Confirm, Settle, Reopen, Close, runtimeVars
    <3>4. \A s \in Sessions : ~ReaderThread(s)
      BY DEF ReaderThread, Open, Publish, Reread, JumpRead, Panic, runtimeVars
    <3>5. QED
      BY <3>1, <3>2, <3>3, <3>4 DEF ResumeNext, Runtime
  <2>2. CASE Handle
    <3>1. PICK p \in presses :
            paused' = IF Names(p.line.target) THEN Lifted(p.line.target.scope) ELSE paused
      BY <2>2 DEF Handle
    <3>2. Names(p.line.target) /\ p.line.target.scope = c
      BY <3>1 DEF Lifted, Typed, ResumeTypeOK
    <3>3. NamesOne(p.line.target, p.line.number, Known, paused) /\ p.line.number \in agreed
      BY HoldsKnown DEF Confirmed
    <3>4. QED
      BY <3>2, <3>3 DEF Names, NamesOne
  <2>3. CASE HandleLate
    <3>1. PICK t \in late : paused' = IF Names(t) THEN Lifted(t.scope) ELSE paused
      BY <2>3 DEF HandleLate
    <3>2. Names(t) /\ t.scope = c
      BY <3>1 DEF Lifted, Typed, ResumeTypeOK
    <3>3. \E n \in agreed : NamesOne(t, n, Known, paused)
      BY DEF Confirmed
    <3>4. QED
      BY <3>2, <3>3 DEF Names, NamesOne
  <2>4. QED
    BY <2>1, <2>2, <2>3
<1>2. QED
  BY <1>1, AlwaysConfirmed, PTL DEF ResumeSpec, LiftsOnlyWhatWasConfirmed

-----------------------------------------------------------------------------
(* What is offered was read after the last answer: from an answer on the   *)
(* window waits for one status read, asked of its reader or just made, and *)
(* offers nothing until it landed.                                         *)

FreshAt(read, n) == \A i \in DOMAIN read.lines : read.lines[i].after = n

WaitsFor(f, landed) == f # NoFlight /\ f.reread = "asked" /\ landed = NoFound

\* The reader's queue and what it just read, while its face is open.
Reading(waits, n, read, queued, thread) ==
  IF waits
    THEN \/ queued = 1 /\ (thread.pc = "publishing" => ~thread.again)
         \/ queued = 0 /\ thread.pc = "publishing" /\ thread.again /\ FreshAt(thread.read, n)
    ELSE /\ queued = 0 /\ FreshAt(read, n)
         /\ thread.pc = "publishing" => ~thread.again /\ FreshAt(thread.read, n)

Lands(f, landed) ==
  /\ landed # NoFound => f # NoFlight /\ f.reread = "asked"
  /\ f # NoFlight /\ f.stage = "sending" => f.reread = "none"

Offers(offers, n) == \A i \in DOMAIN offers : offers[i] # NoLine => offers[i].after = n

UpToDate ==
  /\ Lands(flight, found)
  /\ ~closed =>
       /\ Opens(phase) <=> reader[session].pc # "ended"
       /\ Opens(phase) => Reading(WaitsFor(flight, found), settled, status, rereads[session],
                                  reader[session])
       /\ \A s \in Sessions : s > session => rereads[s] = 0
       /\ Offers(painted, settled)

LEMMA ReadIsFresh ==
  ASSUME NEW face, NEW owner, NEW read \in StatusReads(face, owner)
  PROVE  FreshAt(read, settled)
<1>1. read.lines = <<>> \/ read.lines \in RuntimeLines
  BY DEF StatusReads, Nothing
<1>2. CASE read.lines \in RuntimeLines
  <2>1. PICK on \in InOrder({c \in Scope : paused[c].on}) :
          read.lines = [k \in DOMAIN on |->
            [target |-> [scope |-> on[k], epoch |-> epoch, rev |-> paused[on[k]].rev],
             liftable |-> paused[on[k]].liftable, number |-> paused[on[k]].number,
             after |-> settled]]
    BY <1>2 DEF RuntimeLines
  <2>2. QED
    BY <2>1 DEF FreshAt
<1>3. QED
  BY <1>1, <1>2 DEF FreshAt

(* Painting lands what was read, and offers only when nothing is awaited.  *)
LEMMA PaintsLand ==
  ASSUME Typed, NEW f \in MaybeFlights, NEW asks, Painted(f, asks, phase, status),
         f # NoFlight /\ f.stage = "sending" => f.reread = "none"
  PROVE  /\ found' = NoFound /\ Lands(flight', found')
         /\ WaitsFor(flight', found') <=> WaitsFor(f, found)
         /\ \A i \in DOMAIN painted' : painted'[i] # NoLine =>
               /\ phase = "open" /\ ~WaitsFor(f, found)
               /\ i \in DOMAIN status.lines /\ painted'[i] = status.lines[i]
<1>1. found' = NoFound /\ flight' = LandedFlight(f) /\ painted' = Offer(LandedFlight(f), phase, status)
  BY DEF Painted
<1>2. found \in {"read", "failed", "offline", NoFound}
  BY DEF Typed, ResumeTypeOK
<1>3. CASE f = NoFlight \/ f.reread # "asked" \/ found = NoFound
  <2>1. LandedFlight(f) = f
    BY <1>3 DEF LandedFlight
  <2>2. Lands(flight', found') /\ (WaitsFor(flight', found') <=> WaitsFor(f, found))
    BY <1>1, <1>3, <2>1 DEF Lands, WaitsFor
  <2>3. ASSUME NEW i \in DOMAIN painted', painted'[i] # NoLine
        PROVE  /\ phase = "open" /\ ~WaitsFor(f, found)
               /\ i \in DOMAIN status.lines /\ painted'[i] = status.lines[i]
    BY <1>1, <2>1, <2>3 DEF Offer, Busy, Opens, WaitsFor
  <2>4. QED
    BY <1>1, <2>2, <2>3
<1>4. CASE f # NoFlight /\ f.reread = "asked" /\ found # NoFound
  <2>1. f \in Flights
    BY <1>4 DEF MaybeFlights
  <2>2. LandedFlight(f) = [f EXCEPT !.reread = found]
    BY <1>4 DEF LandedFlight
  <2>3. LandedFlight(f) \in Flights /\ LandedFlight(f).reread = found /\ LandedFlight(f).stage = f.stage
    BY <1>2, <1>4, <2>1, <2>2 DEF Flights
  <2>4. LandedFlight(f).reread # "asked" /\ f.stage # "sending"
    BY <1>2, <1>4, <2>3
  <2>5. Lands(flight', found') /\ ~WaitsFor(flight', found') /\ ~WaitsFor(f, found)
    BY <1>1, <1>4, <2>3, <2>4 DEF Lands, WaitsFor
  <2>6. ASSUME NEW i \in DOMAIN painted', painted'[i] # NoLine
        PROVE  phase = "open" /\ i \in DOMAIN status.lines /\ painted'[i] = status.lines[i]
    BY <1>1, <2>6 DEF Offer
  <2>7. QED
    BY <1>1, <2>5, <2>6
<1>5. QED
  BY <1>3, <1>4

(* Painted again with the flight as it is, or with one that awaits nothing. *)
LEMMA RepaintedUpToDate ==
  ASSUME Typed, UpToDate, ~closed, NEW f \in MaybeFlights, NEW asks, Painted(f, asks, phase, status),
         f # NoFlight /\ f.stage = "sending" => f.reread = "none",
         Opens(phase) => (WaitsFor(f, found) <=> WaitsFor(flight, found)),
         UNCHANGED <<session, phase, status, rereads, reader>>,
         settled' = settled \/ ~Opens(phase)
  PROVE  UpToDate'
<1>1. /\ found' = NoFound /\ Lands(flight', found')
      /\ WaitsFor(flight', found') <=> WaitsFor(f, found)
      /\ \A i \in DOMAIN painted' : painted'[i] # NoLine =>
            /\ phase = "open" /\ ~WaitsFor(f, found)
            /\ i \in DOMAIN status.lines /\ painted'[i] = status.lines[i]
  BY PaintsLand
<1>2. Offers(painted', settled')
  <2> SUFFICES ASSUME NEW i \in DOMAIN painted', painted'[i] # NoLine
               PROVE  painted'[i].after = settled'
    BY DEF Offers
  <2>1. Opens(phase) /\ ~WaitsFor(flight, found) /\ settled' = settled
    BY <1>1 DEF Opens
  <2>2. FreshAt(status, settled)
    BY <2>1 DEF UpToDate, Reading
  <2>3. QED
    BY <1>1, <2>1, <2>2 DEF FreshAt
<1>3. Opens(phase) => Reading(WaitsFor(flight', found'), settled', status, rereads[session],
                              reader[session])
  BY <1>1 DEF UpToDate, Reading
<1>4. QED
  BY <1>1, <1>2, <1>3 DEF UpToDate

LEMMA LoopUpToDate == Typed /\ Typed' /\ UpToDate /\ Loop => UpToDate'
<1> SUFFICES ASSUME Typed, Typed', UpToDate, Loop PROVE UpToDate'
  OBVIOUS
<1>1. flight \in MaybeFlights /\ (flight # NoFlight /\ flight.stage = "sending" => flight.reread = "none")
  BY DEF Typed, ResumeTypeOK, MaybeFlights, UpToDate, Lands
<1>2. CASE Repaint
  BY <1>1, <1>2, RepaintedUpToDate DEF Repaint, threadVars
<1>3. CASE Ask
  BY <1>1, <1>3, RepaintedUpToDate DEF Ask, threadVars
<1>4. CASE Confirm
  <2>1. ~closed /\ UNCHANGED <<session, phase, status, rereads, reader, settled>>
    BY <1>4 DEF Confirm
  <2>6. \A i \in DOMAIN painted, stage \in {"sending", "no_thread"} :
          ConfirmsOn(i) => Flight(painted[i], stage, "none") \in MaybeFlights
    BY DEF ConfirmsOn, Flight, MaybeFlights, Flights, Typed, ResumeTypeOK
  <2>2. PICK i \in DOMAIN painted, f \in MaybeFlights :
          /\ Painted(f, NoTarget, phase, status)
          /\ \/ f = flight
             \/ ConfirmsOn(i) /\ f.reread = "none" /\ f \in {Flight(painted[i], "sending", "none"),
                                                              Flight(painted[i], "no_thread", "none")}
    BY <1>1, <1>4, <2>6 DEF Confirm, Flight
  <2>3. CASE f = flight
    BY <1>1, <2>1, <2>2, <2>3, RepaintedUpToDate
  <2>4. CASE f # flight
    <3>1. painted[i] \in Lines /\ ConfirmsOn(i) /\ f.reread = "none"
      BY <2>2, <2>4 DEF ConfirmsOn, Typed, ResumeTypeOK
    <3>3. ~WaitsFor(f, found) /\ (Opens(phase) => ~WaitsFor(flight, found))
      BY <3>1 DEF WaitsFor, ConfirmsOn, Busy
    <3>4. QED
      BY <2>1, <2>2, <3>1, <3>3, RepaintedUpToDate
  <2>5. QED
    BY <2>3, <2>4
<1>5. CASE Settle
  <2>1. UNCHANGED <<session, phase, status, closed, reader>>
    BY <1>5 DEF Settle
  <2>2. CASE closed
    BY <1>5, <2>1, <2>2 DEF Settle, UpToDate
  <2>3. CASE ~closed
    <3>1. PICK a \in answers :
            LET asks == Opens(phase) /\ a.outcome # "not_sent"
            IN /\ Painted(Flight(a.line, a.outcome, IF asks THEN "asked" ELSE "not_asked"),
                          confirming, phase, status)
               /\ settled' = IF a.outcome = "not_sent" THEN settled ELSE settled + 1
               /\ rereads' = IF asks THEN [rereads EXCEPT ![session] = @ + 1] ELSE rereads
      BY <1>5, <2>3 DEF Settle
    <3>2. flight # NoFlight /\ flight.stage = "sending" /\ flight.reread = "none"
      BY <1>1, <2>3, <3>1 DEF Typed, OneOut, Free
    <3>3. found = NoFound /\ ~WaitsFor(flight, found)
      BY <3>2 DEF UpToDate, Lands, WaitsFor
    <3>4. a.line \in Lines /\ a.outcome \in Outcomes
      BY DEF Typed, ResumeTypeOK
    <3>5. CASE Opens(phase) /\ a.outcome # "not_sent"
      <4> DEFINE f == Flight(a.line, a.outcome, "asked")
      <4>1. f \in MaybeFlights /\ f.stage # "sending" /\ f.reread = "asked" /\ f # NoFlight
        BY <3>4, NothingAssumption DEF Flight, MaybeFlights, Flights, Outcomes
      <4>2. Painted(f, confirming, phase, status) /\ WaitsFor(f, found)
        BY <3>1, <3>3, <3>5, <4>1 DEF WaitsFor
      <4>3. /\ Lands(flight', found') /\ WaitsFor(flight', found')
            /\ \A i \in DOMAIN painted' : painted'[i] = NoLine
        BY <4>1, <4>2, PaintsLand
      <4>4. rereads[session] = 0 /\ (reader[session].pc = "publishing" => ~reader[session].again)
        BY <2>3, <3>3, <3>5 DEF UpToDate, Reading
      <4>5. rereads' = [rereads EXCEPT ![session] = rereads[session] + 1]
        BY <3>1, <3>5
      <4>6. rereads'[session] = 1 /\ \A s \in Sessions : s > session => rereads'[s] = rereads[s]
        BY <4>4, <4>5 DEF Typed, ResumeTypeOK, Sessions
      <4>7. QED
        BY <2>1, <2>3, <3>5, <4>3, <4>4, <4>6 DEF UpToDate, Reading, Offers
    <3>6. CASE ~(Opens(phase) /\ a.outcome # "not_sent")
      <4> DEFINE f == Flight(a.line, a.outcome, "not_asked")
      <4>1. f \in MaybeFlights /\ f.stage # "sending" /\ ~WaitsFor(f, found)
        BY <3>4 DEF Flight, MaybeFlights, Flights, Outcomes, WaitsFor
      <4>2. Painted(f, confirming, phase, status) /\ rereads' = rereads
        BY <3>1, <3>6
      <4>3. settled' = settled \/ ~Opens(phase)
        BY <3>1, <3>6
      <4> HIDE DEF f
      <4>4. QED
        BY <2>1, <2>3, <3>3, <4>1, <4>2, <4>3, RepaintedUpToDate
    <3>7. QED
      BY <3>5, <3>6
  <2>4. QED
    BY <2>2, <2>3
<1>6. CASE Reopen
  <2>1. /\ ~closed /\ phase' = "opening" /\ found' = NoFound /\ painted' = <<>> /\ status' = Nothing
        /\ session' = session + 1 /\ session + 1 \in Sessions /\ session \in Sessions
        /\ UNCHANGED <<rereads, settled, closed>>
        /\ reader' = [reader EXCEPT ![session + 1] = Thread("opening")]
    BY <1>6 DEF Reopen, Sessions, Typed, ResumeTypeOK
  <2>2. Lands(flight', found') /\ ~WaitsFor(flight', found')
    BY <1>1, <1>6, <2>1 DEF Reopen, Lands, WaitsFor
  <2>3. reader'[session'].pc = "opening"
    BY <2>1 DEF Thread, Typed, ResumeTypeOK
  <2>4. rereads'[session'] = 0 /\ \A s \in Sessions : s > session' => rereads'[s] = 0
    BY <2>1 DEF UpToDate, Sessions
  <2>5. FreshAt(status', settled') /\ Offers(painted', settled')
    BY <2>1 DEF FreshAt, Offers, Nothing
  <2>6. QED
    BY <2>1, <2>2, <2>3, <2>4, <2>5 DEF UpToDate, Reading, Opens
<1>7. CASE Close
  BY <1>7 DEF Close, UpToDate, faceVars
<1>8. QED
  BY <1>2, <1>3, <1>4, <1>5, <1>6, <1>7 DEF Loop

(* The reader of the window's own session.                                 *)
LEMMA OwnReaderUpToDate ==
  ASSUME Typed, Typed', UpToDate, ~closed, ReaderThread(session)
  PROVE  UpToDate'
<1>1. /\ UNCHANGED <<session, closed, flight, painted, settled>> /\ session \in Sessions
      /\ InSession(session)
  BY DEF ReaderThread, Open, Publish, Reread, JumpRead, Panic, windowVars, Typed, ResumeTypeOK, InSession
<1> DEFINE s == session
           waits == WaitsFor(flight, found)
<1>2. /\ Opens(phase) <=> reader[s].pc # "ended"
      /\ Opens(phase) => Reading(waits, settled, status, rereads[s], reader[s])
      /\ \A r \in Sessions : r > s => rereads[r] = 0
  BY DEF UpToDate
<1>3. \A pc : Goes(s, pc) => reader'[s] = [reader[s] EXCEPT !.pc = pc]
  BY <1>1 DEF Goes, Typed, ResumeTypeOK
<1>4. CASE (Goes(s, "ended") /\ phase' \in {"unopened", "failed"}) /\ UNCHANGED <<found, rereads>>
  <2>1. reader'[s].pc = "ended"
    BY <1>1, <1>3, <1>4 DEF Typed, ResumeTypeOK, ReaderStates
  <2>2. QED
    BY <1>1, <1>4, <2>1 DEF UpToDate, Opens
<1>5. ASSUME NEW face, NEW owner, NEW again, Reads(s, face, owner, again), UNCHANGED faceVars,
             reader[s].pc \in {"opening", "idle"},
             IF again THEN rereads[s] > 0 /\ rereads' = [rereads EXCEPT ![s] = @ - 1]
                      ELSE rereads' = rereads
      PROVE  UpToDate'
  <2>1. PICK read \in StatusReads(face, owner) :
          reader'[s] = [pc |-> "publishing", epoch |-> owner, face |-> face, read |-> read,
                        again |-> again]
    BY <1>1, <1>5 DEF Reads, Typed, ResumeTypeOK
  <2>2. FreshAt(read, settled)
    BY ReadIsFresh
  <2>3. Opens(phase)
    BY <1>2, <1>5
  <2>4. rereads[s] \in Nat
    BY <1>1 DEF Typed, ResumeTypeOK
  <2>5. Reading(waits, settled, status, rereads'[s], reader'[s])
    <3>1. CASE again = TRUE
      <4>1. waits /\ rereads[s] = 1
        BY <1>2, <1>5, <2>3, <2>4, <3>1 DEF Reading
      <4>2. rereads'[s] = 0
        BY <1>1, <1>5, <3>1, <4>1 DEF Typed, ResumeTypeOK
      <4>3. QED
        BY <2>1, <2>2, <3>1, <4>1, <4>2 DEF Reading
    <3>2. CASE again = FALSE
      BY <1>2, <1>5, <2>1, <2>2, <2>3, <3>2 DEF Reading
    <3>3. again \in BOOLEAN
      BY <1>1, <2>1 DEF Typed, ResumeTypeOK, ReaderStates
    <3>4. QED
      BY <3>1, <3>2, <3>3
  <2>6. \A r \in Sessions : r > s => rereads'[r] = 0
    BY <1>1, <1>2, <1>5 DEF Typed, ResumeTypeOK, Sessions
  <2>7. QED
    BY <1>1, <1>5, <2>1, <2>3, <2>5, <2>6 DEF UpToDate, faceVars
<1>6. CASE Open(s)
  <2>1. CASE (\E face \in {"online", "offline"} : Reads(s, face, epoch, FALSE)) /\ UNCHANGED <<phase, repaint>>
    BY <1>5, <1>6, <2>1 DEF Open, faceVars
  <2>2. CASE Goes(s, "ended") /\ phase' \in {"unopened", "failed"}
    BY <1>4, <1>6, <2>2 DEF Open
  <2>3. QED
    BY <1>1, <1>6, <2>1, <2>2 DEF Open
<1>7. CASE Publish(s)
  <2>1. /\ reader[s].pc = "publishing" /\ Goes(s, "idle") /\ phase' = "open" /\ status' = reader[s].read
        /\ found' = IF reader[s].again THEN reader[s].read.kind ELSE found
        /\ rereads' = rereads
    BY <1>1, <1>7 DEF Publish
  <2>2. reader'[s].pc = "idle"
    BY <1>1, <1>3, <2>1 DEF Typed, ResumeTypeOK, ReaderStates
  <2>3. reader[s].again \in BOOLEAN /\ reader[s].read.kind \in {"read", "failed", "offline"}
    BY <1>1 DEF Typed, ResumeTypeOK, ReaderStates, Statuses
  <2>4. Reading(waits, settled, status, rereads[s], reader[s])
    BY <1>2, <2>1
  <2>5. CASE reader[s].again
    <3>1. waits /\ rereads[s] = 0 /\ FreshAt(status', settled)
      BY <2>1, <2>4, <2>5 DEF Reading
    <3>2. found' # NoFound /\ Lands(flight, found')
      BY <2>1, <2>3, <2>5, <3>1, NothingAssumption DEF WaitsFor, Lands, UpToDate
    <3>3. QED
      BY <1>1, <1>2, <2>1, <2>2, <3>1, <3>2 DEF UpToDate, Opens, Reading, WaitsFor
  <2>6. CASE ~reader[s].again
    <3>1. found' = found
      BY <2>1, <2>6
    <3>2. Reading(waits, settled, status', rereads[s], reader'[s])
      BY <2>1, <2>2, <2>4, <2>6 DEF Reading
    <3>3. QED
      BY <1>1, <1>2, <2>1, <2>2, <3>1, <3>2 DEF UpToDate, Opens
  <2>7. QED
    BY <2>3, <2>5, <2>6
<1>8. CASE Reread(s)
  BY <1>5, <1>8 DEF Reread
<1>9. CASE JumpRead(s)
  BY <1>5, <1>9 DEF JumpRead
<1>10. CASE Panic(s)
  BY <1>1, <1>4, <1>10 DEF Panic
<1>11. QED
  BY <1>6, <1>7, <1>8, <1>9, <1>10 DEF ReaderThread

LEMMA ReaderUpToDate ==
  ASSUME NEW s \in Sessions PROVE Typed /\ Typed' /\ UpToDate /\ ReaderThread(s) => UpToDate'
<1> SUFFICES ASSUME Typed, Typed', UpToDate, ReaderThread(s) PROVE UpToDate'
  OBVIOUS
<1>1. CASE InSession(s)
  BY <1>1, OwnReaderUpToDate DEF InSession
<1>2. CASE ~InSession(s)
  <2>1. UNCHANGED <<windowVars, phase, found, status, rereads>>
    BY <1>2 DEF ReaderThread, Open, Publish, Reread, JumpRead, Panic, faceVars
  <2>2. \A r \in Sessions : r # s => reader'[r] = reader[r]
    BY DEF ReaderThread, Open, Publish, Reread, JumpRead, Panic, Reads, Goes, Typed, ResumeTypeOK
  <2>3. closed \/ reader'[session] = reader[session]
    BY <1>2, <2>2 DEF InSession, Typed, ResumeTypeOK
  <2>4. QED
    BY <2>1, <2>3 DEF UpToDate, windowVars
<1>3. QED
  BY <1>1, <1>2

LEMMA InitUpToDate == ResumeInit => UpToDate
<1> SUFFICES ASSUME ResumeInit PROVE UpToDate
  OBVIOUS
<1>1. 1 \in Sessions
  BY ResumeAssumption DEF Sessions
<1>2. reader[session].pc = "opening" /\ \A s \in Sessions : rereads[s] = 0
  BY <1>1 DEF ResumeInit, Thread
<1>3. Lands(flight, found) /\ ~WaitsFor(flight, found) /\ FreshAt(status, settled) /\ Offers(painted, settled)
  BY DEF ResumeInit, Lands, WaitsFor, FreshAt, Offers, Nothing
<1>4. QED
  BY <1>1, <1>2, <1>3 DEF ResumeInit, UpToDate, Opens, Reading

LEMMA NextUpToDate == Typed /\ Typed' /\ UpToDate /\ [ResumeNext]_vars => UpToDate'
<1>1. UNCHANGED vars => UNCHANGED <<faceVars, windowVars, rereads, reader>>
  BY DEF vars, threadVars
<1>2. Runtime \/ ResumeThread => UNCHANGED <<faceVars, windowVars, rereads, reader>>
  BY DEF Runtime, SetPause, OthersLift, Restart, Handle, HandleLate, ResumeThread, Send, CannotConnect,
         Receive, ReceiptLost, threadVars
<1>3. UpToDate /\ UNCHANGED <<faceVars, windowVars, rereads, reader>> => UpToDate'
  BY DEF UpToDate, faceVars, windowVars
<1>4. QED
  BY <1>1, <1>2, <1>3, LoopUpToDate, ReaderUpToDate DEF ResumeNext

(* No press goes out on a status older than the last answer.               *)
THEOREM PressesOnNews == ResumeSpec => NoPressOnAnOldStatus
<1>1. Typed /\ UpToDate /\ [ResumeNext]_vars =>
        [\A p \in presses' \ presses : p.stage = "connect" => p.line.after = settled]_vars
  <2> SUFFICES ASSUME Typed, UpToDate, ResumeNext, NEW p \in presses' \ presses, p.stage = "connect"
               PROVE  p.line.after = settled
    OBVIOUS
  <2>1. Confirm
    <3>1. ~Runtime
      <4>1. ~Handle
        BY DEF Handle, Typed, ResumeTypeOK, Press
      <4>2. QED
        BY <4>1 DEF Runtime, SetPause, OthersLift, Restart, HandleLate, threadVars
    <3>2. ~ResumeThread
      BY DEF ResumeThread, Send, CannotConnect, Receive, ReceiptLost, Answered, Typed, ResumeTypeOK, Press
    <3>3. ~Repaint /\ ~Ask /\ ~Settle /\ ~Reopen /\ ~Close
      BY DEF Repaint, Ask, Settle, Reopen, Close, threadVars
    <3>4. \A s \in Sessions : ~ReaderThread(s)
      BY DEF ReaderThread, Open, Publish, Reread, JumpRead, Panic
    <3>5. QED
      BY <3>1, <3>2, <3>3, <3>4 DEF ResumeNext, Loop
  <2>2. PICK i \in DOMAIN painted : ConfirmsOn(i) /\ p.line = painted[i] /\ ~closed
    BY <2>1 DEF Confirm
  <2>3. QED
    BY <2>2 DEF ConfirmsOn, UpToDate, Offers
<1>2. Typed /\ UpToDate /\ [ResumeNext]_vars => (Typed /\ UpToDate)'
  BY NextTyped, NextUpToDate
<1>3. QED
  BY <1>1, <1>2, InitTyped, InitUpToDate, PTL DEF ResumeSpec, NoPressOnAnOldStatus
=============================================================================
