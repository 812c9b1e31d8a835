------------------------------- MODULE Reads -------------------------------
(***************************************************************************)
(* The workbench's reads of the running Runtime: the two reading threads   *)
(* (workbench/read.rs), the thread that runs actingctl (workbench/tools.rs) *)
(* and the event loop that takes what they hand over (workbench/mod.rs,     *)
(* workbench/model.rs).                                                     *)
(*                                                                         *)
(* A reading thread begins a read, notes how many writes had landed by     *)
(* then, asks the Runtime, and posts what came back.  Anything may happen  *)
(* between those steps: a write's answer lands, the Runtime restarts, the  *)
(* window is minimized.  The event loop takes what was posted in order.    *)
(*                                                                         *)
(* Of what a read finds, the owner epoch is kept, and the last write it     *)
(* states.  The clocks of read.rs are left open: a read its clock makes    *)
(* may be due at any time the table does not stop it.                       *)
(***************************************************************************)
EXTENDS Naturals, Sequences, FiniteSets

CONSTANTS Windows,      \* the windows checked: each a set of kinds of read and job
          Refusable,    \* the lanes whose thread the system may refuse
          MaxEpoch,     \* bound: the newest owner epoch
          MaxQueue,     \* bound: what one thread posted and the event loop has not taken
          MaxAsks,      \* bound: runs of `watchdog status`
          MaxWrites,    \* bound: writes, and how often one's answer lands
          START_TRIES   \* read.rs: how often a start report is asked for

Read == {"status", "explain", "config", "start"}
Job == {"names", "watchdog"}
Lanes == {"live", "slow"}
Slices == {"explain", "config"}

ASSUME ReadsAssumption ==
    /\ Windows \subseteq SUBSET (Read \cup Job)
    /\ Refusable \subseteq Lanes
    /\ MaxEpoch \in Nat \ {0} /\ MaxQueue \in Nat \ {0}
    /\ MaxAsks \in Nat /\ MaxWrites \in Nat /\ START_TRIES \in Nat \ {0}

VARIABLES kinds,     \* the kinds of read and job this window makes, for good
          runtime,   \* [up, epoch]: the Runtime, outside
          taken,     \* the writes the Runtime is done with, by their order
          lanes,     \* the reading threads
          tools,     \* the thread that runs actingctl
          queue,     \* what was posted to the event loop, oldest first
          written,   \* how many writes have landed
          known,     \* the newest write of those whose answer says it is done
          view       \* the Model, on the event loop only

readsVars == <<kinds, runtime, taken, lanes, tools, queue, written, known, view>>

----------------------------------------------------------------------------
(* The table of reads. *)

LaneOf(read) == IF read = "status" THEN "live" ELSE "slow"
Plan(lane) == {read \in kinds \cap Read : LaneOf(read) = lane}
Clocked(lane) == Plan(lane) \ {"start"}

\* Minimized, only `Status` keeps its clock, and only a named poke reads the start report.
Stopped(read) == ~view.shown /\ read \in Slices
Must(lane, read) == read \in lanes[lane].asked /\ ~Stopped(read)
May(read) == read # "start" /\ ~Stopped(read)

NoRead == "none"
NothingFound == [out |-> "none", epoch |-> 0, facts |-> 0]

\* Reads asked of the threads that are there.
Poke(threads, asks) ==
    [lane \in Lanes |->
        IF threads[lane].lost THEN threads[lane]
        ELSE [threads[lane] EXCEPT !.asked = @ \cup (asks \cap Plan(lane))]]

----------------------------------------------------------------------------
(* The reading threads. *)

\* A due read begins: the ask it answers goes, and how many writes have landed is noted.
\* The reads of a round are begun in any order, and an ask that comes while the round is
\* under way is answered by the read that begins after it.
BeginRead(lane, read) ==
    /\ ~lanes[lane].lost
    /\ lanes[lane].read = NoRead
    /\ read \in Plan(lane)
    /\ Must(lane, read) \/ May(read)
    /\ lanes' = [lanes EXCEPT ![lane].read = read,
                              ![lane].gen = written,
                              ![lane].asked = @ \ {read}]
    /\ UNCHANGED <<kinds, runtime, taken, tools, queue, written, known, view>>

\* The Runtime answers, or something says why not.  A `Status` on a connection that a
\* restart ended is no answer; a slow read asks once more on a new one, and whatever fails
\* it, a panic too, counts the same.
Failure(out) == [NothingFound EXCEPT !.out = out]
Answer == [out |-> "ok", epoch |-> runtime.epoch, facts |-> taken]

Sampled(lane, found, conn) ==
    /\ lanes[lane].read # NoRead
    /\ lanes[lane].found = NothingFound
    /\ lanes' = [lanes EXCEPT ![lane].found = found, ![lane].conn = conn]
    /\ UNCHANGED <<kinds, runtime, taken, tools, queue, written, known, view>>

SampleLive ==
    LET conn == lanes["live"].conn
    IN IF conn # 0 /\ (~runtime.up \/ conn # runtime.epoch)
       THEN Sampled("live", Failure("noanswer"), 0)
       ELSE IF ~runtime.up THEN Sampled("live", Failure("absent"), 0)
       ELSE \/ Sampled("live", Answer, runtime.epoch)
            \/ Sampled("live", Failure("noanswer"), 0)

SampleSlow == (runtime.up /\ Sampled("slow", Answer, 0)) \/ Sampled("slow", Failure("failed"), 0)

\* A panic costs the read and the connection.
PanicLive == Sampled("live", Failure("panic"), 0)

ThreadOf(what) == IF what \in Read THEN LaneOf(what) ELSE "tools"

Posted(what, gen, found) ==
    /\ Cardinality({i \in 1 .. Len(queue) : ThreadOf(queue[i].what) = ThreadOf(what)}) < MaxQueue
    /\ queue' = Append(queue, [what |-> what, gen |-> gen, out |-> found.out,
                               epoch |-> found.epoch, facts |-> found.facts])

\* A mutant: how many writes have landed is noted once the read is made.
PostCounting(lane) ==
    /\ lanes[lane].found # NothingFound
    /\ Posted(lanes[lane].read, written, lanes[lane].found)
    /\ lanes' = [lanes EXCEPT ![lane].read = NoRead, ![lane].gen = 0,
                              ![lane].found = NothingFound]
    /\ UNCHANGED <<kinds, runtime, taken, tools, written, known, view>>

\* What was read goes to the event loop.
Post(lane) ==
    /\ lanes[lane].found # NothingFound
    /\ Posted(lanes[lane].read, lanes[lane].gen, lanes[lane].found)
    /\ lanes' = [lanes EXCEPT ![lane].read = NoRead, ![lane].gen = 0,
                              ![lane].found = NothingFound]
    /\ UNCHANGED <<kinds, runtime, taken, tools, written, known, view>>

----------------------------------------------------------------------------
(* The thread that runs actingctl: each round, what was asked since the last. *)

NoJobs == [names |-> FALSE, watchdog |-> 0]

BeginJobs ==
    /\ tools.round = NoJobs /\ tools.asked # NoJobs
    /\ tools' = [asked |-> NoJobs, round |-> tools.asked]
    /\ UNCHANGED <<kinds, runtime, taken, lanes, queue, written, known, view>>

RunNames ==
    /\ tools.round.names
    /\ \E out \in {"ok", "failed"} : Posted("names", 0, [NothingFound EXCEPT !.out = out])
    /\ tools' = [tools EXCEPT !.round.names = FALSE]
    /\ UNCHANGED <<kinds, runtime, taken, lanes, written, known, view>>

RunWatchdog ==
    /\ ~tools.round.names /\ tools.round.watchdog # 0
    /\ Posted("watchdog", tools.round.watchdog, [NothingFound EXCEPT !.out = "ok"])
    /\ tools' = [tools EXCEPT !.round.watchdog = 0]
    /\ UNCHANGED <<kinds, runtime, taken, lanes, written, known, view>>

AskNames(v, t) ==
    IF "names" \notin kinds THEN <<v, t>>
    ELSE IF v.shown THEN <<[v EXCEPT !.owed = @ \ {"names"}], [t EXCEPT !.asked.names = TRUE]>>
    ELSE <<[v EXCEPT !.owed = @ \cup {"names"}], t>>

\* Not while a run is out; not while minimized, when it is owed.
AskAutostart(v, t) ==
    IF "watchdog" \notin kinds \/ v.auto = "asked" THEN <<v, t>>
    ELSE IF ~v.shown THEN <<[v EXCEPT !.owed = @ \cup {"watchdog"}], t>>
    ELSE <<[v EXCEPT !.owed = @ \ {"watchdog"}, !.auto = "asked", !.asks = @ + 1,
                     !.autoOf = v.restarts],
           [t EXCEPT !.asked.watchdog = v.asks + 1]>>

----------------------------------------------------------------------------
(* The Model: what counts of the reads. *)

NoSlice == [epoch |-> 0, facts |-> 0]
NoStart == [read |-> FALSE, asked |-> FALSE, failures |-> 0]

StartDue(v) ==
    /\ "start" \in kinds
    /\ v.link = "online" /\ ~v.start.read /\ ~v.start.asked
    /\ v.start.failures < START_TRIES

\* `Status` shows another owner epoch: what was read of the old one is let go.
NewEpoch(v, epoch) ==
    IF v.epoch = epoch THEN v
    ELSE [v EXCEPT !.epoch = epoch, !.slice = [read \in Slices |-> NoSlice], !.start = NoStart,
                   !.restarts = IF v.epoch = 0 THEN @ ELSE @ + 1,
                   !.auto = IF v.epoch # 0 /\ @ # "notasked" THEN "letgo" ELSE @,
                   !.names = IF v.link = "unknown" THEN @ ELSE "notasked"]

\* What a `Status` that answered makes of the view, of the reads asked and of the tools.
\* `over`: it showed an unconfirmed switch of backends over, which counts one write more.
OnlineLanded(landing, over) ==
    LET changed == view.epoch # landing.epoch
        connected == view.link # "online"
        online == [NewEpoch(view, landing.epoch) EXCEPT !.link = "online"]
        named == IF changed /\ view.link # "unknown" THEN AskNames(online, tools)
                 ELSE <<online, tools>>
        asksStart == (connected \/ changed) /\ StartDue(online)
        asks == (IF connected \/ changed THEN Clocked("slow") ELSE {})
                \cup (IF asksStart THEN {"start"} ELSE {})
                \cup (IF over THEN Clocked("live") \cup Clocked("slow") ELSE {})
    IN /\ view' = [named[1] EXCEPT !.start.asked = @ \/ asksStart]
       /\ tools' = named[2]
       /\ lanes' = Poke(lanes, asks)
       /\ written' = IF over THEN written + 1 ELSE written
       /\ UNCHANGED known

LiveLanded(landing, over) ==
    \/ landing.out = "ok" /\ OnlineLanded(landing, over)
    \/ /\ landing.out \in {"absent", "noanswer"}
       /\ view' = [view EXCEPT !.link = landing.out]
       /\ UNCHANGED <<lanes, tools, written, known>>

\* A mutant: an answer is taken whatever Runtime gave it.
TakeAny(slice, landing, online) ==
    IF landing.out = "ok" THEN [epoch |-> landing.epoch, facts |-> landing.facts] ELSE slice

\* Slice::take: only of the owner epoch online; a failure keeps what was read.
Take(slice, landing, online) ==
    IF landing.out = "ok" /\ landing.epoch = online
    THEN [epoch |-> landing.epoch, facts |-> landing.facts] ELSE slice

SliceLanded(landing) ==
    /\ view' = [view EXCEPT !.slice[landing.what] =
                                IF view.link = "online" THEN Take(@, landing, view.epoch) ELSE @]
    /\ UNCHANGED <<lanes, tools, written, known>>

\* A mutant: a failed try is not tried again.
StartLandedOnce(landing) ==
    /\ view' = IF landing.out # "ok"
               THEN [view EXCEPT !.start.asked = FALSE, !.start.failures = @ + 1]
               ELSE IF landing.epoch = view.epoch
               THEN [view EXCEPT !.start.asked = FALSE, !.start.read = TRUE] ELSE view
    /\ UNCHANGED <<lanes, tools, written, known>>

\* A start report counts for its own epoch; a failure is one of the epoch's tries.
StartLanded(landing) ==
    /\ view' =
          IF landing.out = "ok"
          THEN IF landing.epoch = view.epoch
               THEN [view EXCEPT !.start.asked = FALSE, !.start.read = TRUE]
               ELSE view
          ELSE [view EXCEPT !.start.asked = FALSE,
                            !.start.failures = IF @ > START_TRIES + 1 THEN @ ELSE @ + 1,
                            !.retries = IF view.start.failures + 1 < START_TRIES THEN TRUE ELSE @]
    /\ UNCHANGED <<lanes, tools, written, known>>

NamesLanded(landing) ==
    /\ view' = [view EXCEPT !.names = IF landing.out = "ok" THEN "ready" ELSE "unreadable"]
    /\ UNCHANGED <<lanes, tools, written, known>>

WatchdogLanded(landing) ==
    /\ view' = IF view.auto = "asked" /\ landing.gen = view.asks
               THEN [view EXCEPT !.auto = "read"] ELSE view
    /\ UNCHANGED <<lanes, tools, written, known>>

\* A read begun before a write landed is let go; a panic and a start report have no age.
LetGo(landing) ==
    /\ landing.what \in Read
    /\ landing.gen < written
    /\ landing.out # "panic" /\ landing.what # "start"

Landed(landing, over) ==
    IF LetGo(landing) THEN UNCHANGED <<lanes, tools, written, known, view>>
    ELSE \/ landing.what = "start" /\ StartLanded(landing)
         \/ landing.what \in Read \ {"start"} /\ landing.out = "panic"
            /\ UNCHANGED <<lanes, tools, written, known, view>>
         \/ landing.what = "status" /\ landing.out # "panic" /\ LiveLanded(landing, over)
         \/ landing.what \in Slices /\ landing.out # "panic" /\ SliceLanded(landing)
         \/ landing.what = "names" /\ NamesLanded(landing)
         \/ landing.what = "watchdog" /\ WatchdogLanded(landing)

Land ==
    /\ queue # <<>>
    /\ \E over \in {FALSE} \cup {written < MaxWrites} : Landed(Head(queue), over)
    /\ queue' = Tail(queue)
    /\ UNCHANGED <<kinds, runtime, taken>>

\* START_RETRY has passed since a start report that failed.
RetryStart ==
    /\ view.retries
    /\ LET due == StartDue(view)
       IN /\ view' = [view EXCEPT !.retries = FALSE, !.start.asked = @ \/ due]
          /\ lanes' = IF due THEN Poke(lanes, {"start"}) ELSE lanes
    /\ UNCHANGED <<kinds, runtime, taken, tools, queue, written, known>>

----------------------------------------------------------------------------
(* The person, and the window. *)

\* Going to the settings reads the fact snapshot and runs `watchdog status`.
ShowPage(page) ==
    /\ view.page # page
    /\ view.asks < MaxAsks /\ "watchdog" \in kinds
    /\ LET shown == [view EXCEPT !.page = page]
           asked == IF page = "settings" THEN AskAutostart(shown, tools) ELSE <<shown, tools>>
       IN /\ view' = asked[1]
          /\ tools' = asked[2]
    /\ lanes' = IF page = "settings" THEN Poke(lanes, {"config"}) ELSE lanes
    /\ UNCHANGED <<kinds, runtime, taken, queue, written, known>>

Minimize ==
    /\ view.shown
    /\ view' = [view EXCEPT !.shown = FALSE]
    /\ UNCHANGED <<kinds, runtime, taken, lanes, tools, queue, written, known>>

\* A window that comes back reads at once, and what was owed is asked.
ComeBack ==
    /\ ~view.shown
    /\ LET back == [view EXCEPT !.shown = TRUE]
           named == IF "names" \in view.owed THEN AskNames(back, tools) ELSE <<back, tools>>
           asked == IF "watchdog" \in named[1].owed /\ view.page = "settings"
                    THEN AskAutostart(named[1], named[2]) ELSE named
       IN /\ view' = asked[1]
          /\ tools' = asked[2]
    /\ lanes' = Poke(lanes, Clocked("live") \cup Clocked("slow"))
    /\ UNCHANGED <<kinds, runtime, taken, queue, written, known>>

----------------------------------------------------------------------------
(* The Runtime, outside. *)

Stop ==
    /\ runtime.up
    /\ runtime' = [runtime EXCEPT !.up = FALSE]
    /\ UNCHANGED <<kinds, taken, lanes, tools, queue, written, known, view>>

Start ==
    /\ ~runtime.up
    /\ runtime.epoch < MaxEpoch
    /\ runtime' = [up |-> TRUE, epoch |-> runtime.epoch + 1]
    /\ UNCHANGED <<kinds, taken, lanes, tools, queue, written, known, view>>

\* The Runtime is done with a write: what it states from then on is of after it.
TakeWrite ==
    /\ runtime.up /\ taken < MaxWrites
    /\ taken' = taken + 1
    /\ UNCHANGED <<kinds, runtime, lanes, tools, queue, written, known, view>>

\* wrote: a write's answer landed, which says that its write is done or leaves that open.
\* What was begun before no longer counts, and every read is made now.
Wrote ==
    /\ written < MaxWrites
    /\ written' = written + 1
    /\ known' \in known .. taken
    /\ lanes' = Poke(lanes, Clocked("live") \cup Clocked("slow"))
    /\ UNCHANGED <<kinds, runtime, taken, tools, queue, view>>

----------------------------------------------------------------------------
FirstLane(lane, refused) ==
    [lost |-> lane \in refused, asked |-> Clocked(lane),
     read |-> NoRead, gen |-> 0, found |-> NothingFound, conn |-> 0]

FirstView(refused) ==
    [link |-> IF "live" \in refused THEN "failed" ELSE "unknown",
     epoch |-> 0, slice |-> [read \in Slices |-> NoSlice], start |-> NoStart, retries |-> FALSE,
     shown |-> TRUE, page |-> "main", owed |-> {}, restarts |-> 0,
     auto |-> "notasked", autoOf |-> 0, asks |-> 0, names |-> "notasked"]

Init ==
    /\ kinds \in Windows
    /\ runtime \in {[up |-> FALSE, epoch |-> 0], [up |-> TRUE, epoch |-> 1]}
    /\ taken = 0
    /\ \E refused \in SUBSET Refusable :
          /\ lanes = [lane \in Lanes |-> FirstLane(lane, refused)]
          /\ view = FirstView(refused)
    /\ tools = [asked |-> [NoJobs EXCEPT !.names = "names" \in kinds], round |-> NoJobs]
    /\ queue = <<>>
    /\ written = 0 /\ known = 0

LaneWork(lane) ==
    \/ (lane = "live" /\ SampleLive) \/ (lane = "slow" /\ SampleSlow) \/ Post(lane)
    \/ \E read \in Plan(lane) : BeginRead(lane, read)
LaneStep == PanicLive \/ \E lane \in Lanes : LaneWork(lane)
ToolStep == BeginJobs \/ RunNames \/ RunWatchdog
WindowStep == Minimize \/ ComeBack \/ \E page \in {"main", "settings"} : ShowPage(page)
RuntimeStep == Stop \/ Start \/ TakeWrite

Next == LaneStep \/ ToolStep \/ Land \/ RetryStart \/ Wrote \/ WindowStep \/ RuntimeStep

\* The threads and the event loop go on; the person and the Runtime need not.  A reading
\* thread goes through its table each round, so a start report that is asked gets its turn.
Fairness ==
    /\ \A lane \in Lanes : WF_readsVars(LaneWork(lane))
    /\ SF_readsVars(BeginRead("slow", "start"))
    /\ WF_readsVars(ToolStep) /\ WF_readsVars(Land) /\ WF_readsVars(RetryStart)

Spec == Init /\ [][Next]_readsVars /\ Fairness
----------------------------------------------------------------------------
(* Properties. *)

Links == {"unknown", "online", "absent", "noanswer", "failed"}
Epochs == 0 .. MaxEpoch
Outs == {"none", "ok", "absent", "noanswer", "panic", "failed"}
Found == [out : Outs, epoch : Epochs, facts : Nat]
Threads == [lost : BOOLEAN, asked : SUBSET Read, read : Read \cup {NoRead}, gen : Nat,
            found : Found, conn : Epochs]
Rounds == [names : BOOLEAN, watchdog : Nat]
Landings == [what : Read \cup Job, gen : Nat, out : Outs, epoch : Epochs, facts : Nat]
Views == [link : Links, epoch : Epochs, slice : [Slices -> [epoch : Epochs, facts : Nat]],
          start : [read : BOOLEAN, asked : BOOLEAN, failures : Nat], retries : BOOLEAN,
          shown : BOOLEAN, page : {"main", "settings"}, owed : SUBSET Job, restarts : Nat,
          auto : {"notasked", "asked", "read", "letgo"}, autoOf : Nat, asks : Nat,
          names : {"notasked", "ready", "unreadable"}]

\* Every variable has its type.
TypeOK ==
    /\ kinds \in Windows
    /\ runtime \in [up : BOOLEAN, epoch : Epochs]
    /\ lanes \in [Lanes -> Threads]
    /\ tools \in [asked : Rounds, round : Rounds]
    /\ queue \in Seq(Landings)
    /\ view \in Views
    /\ taken \in Nat /\ written \in Nat /\ known \in 0 .. taken

\* What the window shows of the fact snapshot and the configuration was read of
\* the Runtime whose epoch it shows: nothing of a Runtime that is gone stays, and
\* an answer that comes late from it is not taken (Slice::take, apply_online).
SliceIsOfTheEpoch ==
    \A slice \in Slices : view.slice[slice].epoch \in {0, view.epoch}

\* A read that counts states every write whose answer had said it was done: one begun
\* before a write landed may say what it changed, and is let go (super::wrote).
NoReadFromBeforeAWrite ==
    [][\A slice \in Slices : view'.slice[slice] \notin {view.slice[slice], NoSlice}
                               => view'.slice[slice].facts >= known]_readsVars

\* Where a read of this kind is on its way: asked, in its thread's hands, or posted.
OnItsWay(read) ==
    LET lane == LaneOf(read)
    IN \/ read \in lanes[lane].asked
       \/ lanes[lane].read = read
       \/ \E i \in 1 .. Len(queue) : queue[i].what = read

\* A start report the window waits for is on its way, unless the thread that
\* reads it was refused, or the Runtime that was asked is no more the one shown.
StartAskIsOut ==
    view.link = "online" /\ view.start.asked =>
        OnItsWay("start") \/ lanes["slow"].lost \/ runtime.epoch # view.epoch

\* An answer of `watchdog status` the settings page waits for is on its way, and
\* one it shows was asked under the Runtime that is shown: a restart between the
\* ask and the answer lets it go.
AutostartIsOfThisStart ==
    /\ view.auto = "asked" =>
          \/ view.asks \in {tools.asked.watchdog, tools.round.watchdog}
          \/ \E i \in 1 .. Len(queue) : queue[i].what = "watchdog" /\ queue[i].gen = view.asks
    /\ view.auto \in {"asked", "read"} => view.autoOf = view.restarts

\* While the window is shown nothing is owed that its page shows.
NothingOwedWhileShown ==
    view.shown => "names" \notin view.owed /\ ~("watchdog" \in view.owed /\ view.page = "settings")

\* A window connected to a Runtime ends up with its start report, or with all its
\* tries spent, unless the Runtime goes or its reading thread was refused.
StartReportSettles ==
    view.link = "online" /\ "start" \in kinds ~>
        \/ view.start.read \/ view.start.failures >= START_TRIES \/ lanes["slow"].lost
        \/ view.link # "online" \/ runtime.epoch # view.epoch
=============================================================================
