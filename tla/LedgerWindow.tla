----------------------------- MODULE LedgerWindow -----------------------------
(***************************************************************************)
(* One ledger window: the event loop's side (crates/acui-app/src/ledger/   *)
(* mod.rs) and its reader threads (ledger/worker.rs), which share the      *)
(* window's state (ledger/state.rs) under one lock.                        *)
(*                                                                         *)
(* Every control only changes the state and hands the reader a request     *)
(* tagged with the session and generation it is for; the reader checks the *)
(* tag before it starts, before each page and before it leaves anything.   *)
(* One step here is one handler of the event loop, or on the reader what   *)
(* it does from one take of the lock to just before the next: a read and   *)
(* the lock taken on its answer are one step, since the reader is the only *)
(* one that reads.                                                         *)
(***************************************************************************)
EXTENDS ViewModel, FiniteSets

CONSTANTS
  NoView,          \* no face opened yet: there is no view model
  DefaultFilter,   \* the tab and filters a new window starts from
  FILL_WINDOWS,    \* windows one fill reads at most (16 in the code)
  MaxHead,         \* bound: the Runtime appends up to this position
  MaxSession,      \* bound: reopens
  MaxGeneration,   \* bound: a person's superseding changes
  MaxQueue,        \* bound: requests waiting on one reader
  Controls,        \* the controls a run uses
  Faults           \* what a run lets go wrong

ControlNames ==
  {"filter", "cursor", "earlier", "jump", "follow", "unfollow", "reopen", "close"}
FaultNames == {"open", "thread", "panic", "read", "poll", "repin"}

ASSUME LedgerAssumption ==
  /\ DefaultFilter \in Filters
  /\ NoView \notin View
  /\ FILL_WINDOWS \in Nat \ {0}
  /\ MaxHead \in Nat /\ MaxSession \in Nat \ {0}
  /\ MaxGeneration \in Nat /\ MaxQueue \in Nat
  /\ Controls \subseteq ControlNames
  /\ Faults \subseteq FaultNames

VARIABLES
  head,          \* the Runtime's latest ledger position
  session, generation,   \* the window's request tag
  closed,        \* the person closed the window
  phase,         \* whether the read face is open
  follows,       \* the open face can follow: it is the online one
  view,          \* the view model, once a face opened
  busy,          \* the busy line is set
  effects,       \* what the reader left for the next paint
  following,     \* the follow timer runs, and its box is ticked
  resting,       \* the cursor moved and its rest timer runs
  handle,        \* where the time cursor's handle stands
  repaint,       \* a repaint is handed over and has not run
  tickInFlight,  \* the flag that keeps follow ticks from piling up
  queue,         \* per session, the requests handed to its reader
  reader,        \* per session, its reader thread
  pin            \* per session, the read face's own pin

tagVars == <<session, generation>>
loopVars == <<following, resting, handle, tickInFlight, closed>>
vars == <<head, session, generation, closed, phase, follows, view, busy, effects,
          following, resting, handle, repaint, tickInFlight, queue, reader, pin>>

Sessions == 1..MaxSession
Phases == {"opening", "open", "unopened", "failed"}
Ops == {"reload", "earlier", "jump", "follow", "tick"}
Command == [op : Ops, gen : Nat]
EffectNames == {"cursor_top", "follow_halted"}

(* The reader thread.  pc names what it does next; window, bound, read and *)
(* moved are its locals; halted is the request whose follow read failed    *)
(* (0: none).  carry is the tab and filters its session starts from.       *)
PCs == {"none", "open", "publish", "idle", "plan", "begin", "next", "read",
        "repin", "repinned", "atpin", "span", "poll", "polled", "tickplan",
        "ticknext", "tickread", "tickspan", "tickend", "ended"}
NoWindow == [from |-> 1, to |-> 1, query |-> [filter |-> DefaultFilter, bound |-> NoBound]]
Reader == [pc : PCs, op : Ops, gen : Nat, window : Window, bound : TimeBounds,
           read : Nat, moved : BOOLEAN, halted : Nat, carry : Filters]
Thread(pc, carry) ==
  [pc |-> pc, op |-> "reload", gen |-> 0, window |-> NoWindow, bound |-> NoBound,
   read |-> 0, moved |-> FALSE, halted |-> 0, carry |-> carry]

Live == phase = "open" /\ view # NoView
\* Mutant: the window's session is not looked at.
InAnySession(s) == s \in Sessions

InSession(s) == s = session
Current(s) == s = session /\ reader[s].gen = generation

TypeOK ==
  /\ head \in Nat
  /\ session \in Nat \ {0} /\ generation \in Nat \ {0}
  /\ closed \in BOOLEAN /\ follows \in BOOLEAN /\ busy \in BOOLEAN
  /\ phase \in Phases
  /\ view = NoView \/ view \in View
  /\ effects \subseteq EffectNames
  /\ following \in BOOLEAN /\ resting \in BOOLEAN /\ repaint \in BOOLEAN
  /\ handle \in TimeBounds
  /\ tickInFlight \in BOOLEAN
  /\ queue \in [Sessions -> Seq(Command)]
  /\ reader \in [Sessions -> Reader]
  /\ pin \in [Sessions -> Nat]

-----------------------------------------------------------------------------
(* LedgerHandle::new and its first start.                                  *)
Init ==
  /\ head \in 0..MaxHead
  /\ session = 1 /\ generation = 1
  /\ closed = FALSE /\ phase = "opening" /\ follows = FALSE
  /\ view = NoView /\ busy = FALSE /\ effects = {}
  /\ following = FALSE /\ resting = FALSE /\ handle = NoBound
  /\ repaint = FALSE /\ tickInFlight = FALSE
  /\ queue = [s \in Sessions |-> <<>>]
  /\ reader = [s \in Sessions |-> Thread(IF s = 1 THEN "open" ELSE "none", DefaultFilter)]
  /\ pin = [s \in Sessions |-> 0]

(* The Runtime appends to the ledger.                                      *)
Append1 ==
  /\ head < MaxHead
  /\ head' = head + 1
  /\ UNCHANGED <<tagVars, loopVars, phase, follows, view, busy, effects, repaint,
                 queue, reader, pin>>

-----------------------------------------------------------------------------
(* The event loop.  A handler that changes the state repaints the window   *)
(* before it returns, and that paint first does what the reader left.      *)

(* refresh and apply: the effects left so far, over the handler's own      *)
(* changes of the follow timer and the cursor's handle.                    *)
Refreshed(following1, handle1) ==
  /\ effects' = {}
  /\ following' = (following1 /\ "follow_halted" \notin effects)
  /\ handle' = IF "cursor_top" \in effects THEN NoBound ELSE handle1

(* send: to the session's reader, or, with that thread gone, the session   *)
(* fails.                                                                  *)
Sent(op, gen) ==
  IF reader[session].pc \notin {"none", "ended"}
    THEN /\ Len(queue[session]) < MaxQueue
         /\ queue' = [queue EXCEPT ![session] = Append(@, [op |-> op, gen |-> gen])]
         /\ UNCHANGED <<phase, busy, repaint>>
    ELSE /\ phase' = "failed" /\ busy' = FALSE /\ repaint' = TRUE
         /\ UNCHANGED queue

Uses(control) == control \in Controls /\ ~closed /\ session <= MaxSession

(* A person's change moves the generation on, within the bound.            *)
Superseding == generation < MaxGeneration /\ generation' = generation + 1

(* supersede, then the request the change starts over with.                *)
Restarted(v, op, following1, handle1) ==
  /\ Live
  /\ view' = v
  /\ Superseding
  /\ Sent(op, generation')
  /\ resting' = FALSE
  /\ Refreshed(following1, handle1)
  /\ UNCHANGED <<head, session, closed, follows, tickInFlight, reader, pin>>

(* A tab or a filter box: restart.                                         *)
PickFilter ==
  /\ Uses("filter") /\ Live
  /\ \E f \in Filters \ {view.filter} :
       Restarted([view EXCEPT !.filter = f], "reload", following, handle)

(* jump_latest: offered by the online face.                                *)
JumpLatest ==
  /\ Uses("jump") /\ follows
  /\ Restarted(view, "jump", following, handle)

(* set_following(true).                                                    *)
FollowOn ==
  /\ Uses("follow") /\ follows /\ ~following
  /\ Restarted([view EXCEPT !.followError = FALSE], "follow", TRUE, handle)

(* stop_following: the generation moves and no request is sent.            *)
Stopped(v, handle1) ==
  /\ generation' = generation + 1
  /\ view' = [v EXCEPT !.followError = FALSE]
  /\ Refreshed(FALSE, handle1)

(* set_following(false).                                                   *)
FollowOff ==
  /\ Uses("unfollow") /\ Live /\ following
  /\ generation < MaxGeneration
  /\ Stopped(view, handle)
  /\ UNCHANGED <<head, session, closed, phase, follows, busy, resting, repaint,
                 tickInFlight, queue, reader, pin>>

(* cursor_moved: the bound follows the handle at once; a bound supersedes  *)
(* (stop_following), the reload waits for cursor_rested.                   *)
CursorMoved ==
  /\ Uses("cursor") /\ Live
  /\ \E h \in TimeBounds \ {handle} :
       LET bound == IF view.span THEN h ELSE NoBound
           moved == [view EXCEPT !.bound = bound]
       IN IF bound # NoBound
            THEN generation < MaxGeneration /\ Stopped(moved, h)
            ELSE view' = moved /\ Refreshed(following, h) /\ UNCHANGED generation
  /\ resting' = TRUE
  /\ UNCHANGED <<head, session, closed, phase, follows, busy, repaint, tickInFlight,
                 queue, reader, pin>>

(* cursor_rested: the rest timer of a live view starts it over.            *)
CursorRested ==
  /\ ~closed /\ resting
  /\ IF Live
       THEN Restarted(view, "reload", following, handle)
       ELSE /\ resting' = FALSE
            /\ Refreshed(following, handle)
            /\ UNCHANGED <<head, session, generation, closed, phase, follows, view, busy,
                           repaint, tickInFlight, queue, reader, pin>>

(* load_more, offered while earlier positions are unread: a bound the      *)
(* cursor set and has not applied goes first.                              *)
LoadMore ==
  /\ Uses("earlier") /\ Live /\ HasEarlier(view)
  /\ IF resting
       THEN Restarted(view, "reload", following, handle)
       ELSE /\ Sent("earlier", generation)
            /\ Refreshed(following, handle)
            /\ UNCHANGED <<head, session, generation, closed, follows, view, resting,
                           tickInFlight, reader, pin>>

(* follow_tick of the event loop: the follow timer fired.                  *)
FollowTimerStops ==
  /\ ~closed /\ following /\ Live /\ view.bound # NoBound
  /\ Stopped(view, handle)
  /\ UNCHANGED <<head, session, closed, phase, follows, busy, resting, repaint,
                 tickInFlight, queue, reader, pin>>

FollowTimerTicks ==
  /\ ~closed /\ following /\ Live /\ view.bound = NoBound
  /\ ~tickInFlight
  /\ tickInFlight' = TRUE
  /\ Sent("tick", generation)
  /\ UNCHANGED <<head, session, generation, closed, follows, view, effects, following,
                 resting, handle, reader, pin>>

(* reopen: offered for a face that did not open, that failed, whose last   *)
(* read may have reached another Runtime, or that reads offline.           *)
ReopenOffered ==
  \/ phase \in {"unopened", "failed"}
  \/ Live /\ (view.queryError \/ view.followError \/ ~follows)

Reopen ==
  /\ Uses("reopen") /\ ReopenOffered
  /\ session < MaxSession
  /\ session' = session + 1
  /\ Superseding
  /\ LET carry == IF view = NoView THEN DefaultFilter ELSE view.filter
     IN \/ /\ phase' = "opening" /\ repaint' = repaint
           /\ reader' = [reader EXCEPT ![session + 1] = Thread("open", carry)]
        \/ /\ "thread" \in Faults   \* the system refuses the thread
           /\ phase' = "failed" /\ repaint' = TRUE
           /\ UNCHANGED reader
  /\ view' = NoView /\ busy' = FALSE /\ effects' = {} /\ follows' = FALSE
  /\ following' = FALSE /\ resting' = FALSE /\ handle' = NoBound
  /\ tickInFlight' = FALSE
  /\ UNCHANGED <<head, closed, queue, pin>>

(* close: the session is let go, and nothing is painted or sent any more.  *)
Close ==
  /\ Uses("close")
  /\ closed' = TRUE
  /\ session' = session + 1 /\ generation' = generation + 1
  /\ following' = FALSE /\ resting' = FALSE
  /\ UNCHANGED <<head, phase, follows, view, busy, effects, handle, repaint,
                 tickInFlight, queue, reader, pin>>

(* repaint: one the reader handed over.                                    *)
PostedRepaint ==
  /\ ~closed /\ repaint
  /\ repaint' = FALSE
  /\ Refreshed(following, handle)
  /\ UNCHANGED <<head, session, generation, closed, phase, follows, view, busy, resting,
                 tickInFlight, queue, reader, pin>>

-----------------------------------------------------------------------------
(* The reader of session s.                                                *)

At(s, pc) == reader[s].pc = pc

Goes(s, pc) == reader' = [reader EXCEPT ![s] = [@ EXCEPT !.pc = pc]]

(* The reader between requests: of a request's locals only the read that   *)
(* stopped the following outlives it.                                      *)
Rests(s, pc, halted) ==
  reader' = [reader EXCEPT ![s] = [Thread(pc, DefaultFilter) EXCEPT !.halted = halted]]

\* Mutant: the busy line is left set.
OverBusy(s) ==
  /\ Rests(s, IF reader[s].op = "tick" THEN "tickend" ELSE "idle", reader[s].halted)
  /\ UNCHANGED busy

(* A request over, run to its end or superseded: settle, idle.             *)
Over(s) ==
  /\ Rests(s, IF reader[s].op = "tick" THEN "tickend" ELSE "idle", reader[s].halted)
  /\ busy' = (busy /\ (session # s \/ reader[s].op = "tick"))

loopOnly == <<head, tagVars, loopVars, follows, pin, queue>>

(* Session::open, and what is read before anything is left in the state.   *)
OpenRefused(s) ==
  /\ At(s, "open") /\ "open" \in Faults
  /\ Rests(s, "ended", 0)
  /\ IF InSession(s)
       THEN phase' \in {"failed", "unopened"} /\ repaint' = TRUE /\ busy' = FALSE
       ELSE UNCHANGED <<phase, repaint, busy>>
  /\ UNCHANGED <<loopOnly, view, effects>>

Opened(s) ==
  /\ At(s, "open")
  /\ IF InSession(s)
       THEN /\ Goes(s, "publish") /\ busy' = TRUE
            /\ pin' = [pin EXCEPT ![s] = head]
       ELSE Rests(s, "ended", 0) /\ UNCHANGED <<busy, pin>>
  /\ UNCHANGED <<head, tagVars, loopVars, follows, queue, phase, view, effects, repaint>>

Publish(s) ==
  /\ At(s, "publish")
  /\ IF InSession(s)
       THEN /\ phase' = "open" /\ follows' \in BOOLEAN /\ repaint' = TRUE
            /\ \E span \in {pin[s] > 0} \cup (IF "read" \in Faults THEN {FALSE} ELSE {}) :
                 view' = NewView(pin[s], span, reader[s].carry)
            /\ reader' = [reader EXCEPT ![s] = [Thread("plan", DefaultFilter)
                                                  EXCEPT !.gen = generation]]
       ELSE Rests(s, "ended", 0) /\ UNCHANGED <<phase, follows, repaint, view>>
  /\ UNCHANGED <<head, tagVars, loopVars, pin, queue, busy, effects>>

(* The next request of the queue, and the check before it starts.          *)
Start(op) ==
  CASE op = "reload"  -> "plan"
    [] op = "earlier" -> "next"
    [] op = "tick"    -> "poll"
    [] OTHER          -> "repin"

Take(s) ==
  /\ At(s, "idle") /\ queue[s] # <<>>
  /\ LET c == Head(queue[s])
     IN reader' = [reader EXCEPT ![s] = [@ EXCEPT !.pc = Start(c.op), !.op = c.op,
                                                  !.gen = c.gen, !.read = 0]]
  /\ queue' = [queue EXCEPT ![s] = Tail(@)]
  /\ UNCHANGED <<head, tagVars, loopVars, follows, pin, phase, view, busy, effects, repaint>>

(* The window let the session go: the sender is dropped.                   *)
LetGo(s) ==
  /\ At(s, "idle") /\ queue[s] = <<>> /\ s < session
  /\ Rests(s, "ended", 0)
  /\ UNCHANGED <<loopOnly, phase, view, busy, effects, repaint>>

(* A check that finds the request superseded: nothing is left.             *)
Superseded(s) ==
  /\ reader[s].pc \in {"plan", "begin", "next", "read", "repin", "atpin", "span", "poll",
                       "tickplan", "ticknext", "tickread", "tickspan"}
  /\ ~Current(s)
  /\ Over(s)
  /\ UNCHANGED <<loopOnly, phase, view, effects, repaint>>

(* reload: the bound and the query it starts over with.                    *)
Plan(s) ==
  /\ At(s, "plan") /\ Current(s)
  /\ reader' = [reader EXCEPT ![s] = [@ EXCEPT !.pc = "begin", !.bound = view.bound]]
  /\ busy' = TRUE
  /\ UNCHANGED <<loopOnly, phase, view, effects, repaint>>

(* The view starts over from the pin, or, under a bound, from wherever the *)
(* probes put it at or below the pin.                                      *)
BeginView(s) ==
  /\ At(s, "begin") /\ Current(s)
  /\ \E upper \in 0..pin[s] :
       /\ reader[s].bound = NoBound => upper = pin[s]
       /\ view' = Begin(view, upper)
  /\ reader' = [reader EXCEPT ![s] = [@ EXCEPT !.pc = "next", !.bound = NoBound]]
  /\ repaint' = TRUE
  /\ UNCHANGED <<loopOnly, phase, busy, effects>>

ProbeFails(s) ==
  /\ At(s, "begin") /\ Current(s) /\ reader[s].bound # NoBound /\ "read" \in Faults
  /\ view' = [Begin(view, 0) EXCEPT !.queryError = TRUE]
  /\ Over(s)
  /\ repaint' = TRUE
  /\ UNCHANGED <<loopOnly, phase, effects>>

(* The next window down, unless enough rows show or the budget has passed; *)
(* a fill reads at least one.                                              *)
NextDown(s) ==
  /\ At(s, "next") /\ Current(s)
  /\ view' = [view EXCEPT !.queryError = IF reader[s].read = 0 THEN FALSE ELSE @]
  /\ HasEarlier(view) /\ reader[s].read < FILL_WINDOWS
  /\ reader' = [reader EXCEPT ![s] = [@ EXCEPT !.pc = "read", !.window = NextWindow(view)]]
  /\ busy' = TRUE
  /\ UNCHANGED <<loopOnly, phase, effects, repaint>>

Filled(s) ==
  /\ At(s, "next") /\ Current(s)
  /\ reader[s].read > 0 \/ ~HasEarlier(view)
  /\ view' = [view EXCEPT !.queryError = IF reader[s].read = 0 THEN FALSE ELSE @]
  /\ Over(s)
  /\ UNCHANGED <<loopOnly, phase, effects, repaint>>

LandDown(s) ==
  /\ At(s, "read") /\ Current(s)
  /\ \E density \in Densities : view' = ApplyWindow(view, reader[s].window, density)
  /\ reader' = [reader EXCEPT ![s] = [@ EXCEPT !.pc = "next", !.window = NoWindow,
                                               !.read = reader[s].read + 1]]
  /\ repaint' = TRUE
  /\ UNCHANGED <<loopOnly, phase, busy, effects>>

ReadFails(s) ==
  /\ At(s, "read") /\ Current(s) /\ "read" \in Faults
  /\ view' = [view EXCEPT !.queryError = TRUE]
  /\ Over(s)
  /\ repaint' = TRUE
  /\ UNCHANGED <<loopOnly, phase, effects>>

(* jump_latest and follow_on: the pin to the Runtime's latest position.    *)
Repin(s) ==
  /\ At(s, "repin") /\ Current(s)
  /\ pin' = [pin EXCEPT ![s] = head]
  /\ Goes(s, "repinned")
  /\ busy' = TRUE
  /\ UNCHANGED <<head, tagVars, loopVars, follows, queue, phase, view, effects, repaint>>

RepinFails(s) ==
  /\ At(s, "repin") /\ Current(s) /\ "repin" \in Faults
  /\ view' = [view EXCEPT !.queryError = TRUE]
  /\ IF reader[s].op = "follow"
       THEN /\ effects' = effects \cup {"follow_halted"}
            /\ Rests(s, "idle", reader[s].gen)
       ELSE Rests(s, "idle", reader[s].halted) /\ UNCHANGED effects
  /\ busy' = FALSE /\ repaint' = TRUE
  /\ UNCHANGED <<loopOnly, phase>>

(* repinned: the model takes the face's pin for the whole session,         *)
(* whatever request is current.                                            *)
Repinned(s) ==
  /\ reader[s].pc \in {"repinned", "polled"}
  /\ IF InSession(s)
       THEN /\ view' = IF At(s, "repinned") \/ reader[s].moved
                         THEN SetPin(view, pin[s]) ELSE view
            /\ phase' = "open"
            /\ Goes(s, IF At(s, "repinned") THEN "atpin" ELSE "tickplan")
            /\ UNCHANGED busy
       ELSE Over(s) /\ UNCHANGED <<view, phase>>
  /\ UNCHANGED <<loopOnly, effects, repaint>>

(* start_at_pin: no time bound, the cursor back at the top at the next     *)
(* paint; then the span's end is read, and the view starts over.           *)
StartAtPin(s) ==
  /\ At(s, "atpin") /\ Current(s)
  /\ view' = [view EXCEPT !.bound = NoBound]
  /\ effects' = effects \cup {"cursor_top"}
  /\ Goes(s, "span")
  /\ busy' = TRUE
  /\ UNCHANGED <<loopOnly, phase, repaint>>

(* set_span: a ledger with events has a span; a read that fails leaves it. *)
SpanSet(s) ==
  \/ view' = [view EXCEPT !.span = (pin[s] > 0)]
  \/ "read" \in Faults /\ view' = view

SpanRead(s) ==
  /\ At(s, "span") /\ Current(s)
  /\ SpanSet(s)
  /\ Goes(s, "plan")
  /\ UNCHANGED <<loopOnly, phase, busy, effects, repaint>>

(* follow_tick of the reader: one poll, which moves the pin only up; a     *)
(* tick behind the read that stopped the following is not run.             *)
TickHalted(s) ==
  /\ At(s, "poll") /\ reader[s].halted = reader[s].gen
  /\ Over(s)
  /\ UNCHANGED <<loopOnly, phase, view, effects, repaint>>

Poll(s) ==
  /\ At(s, "poll") /\ Current(s) /\ reader[s].halted # reader[s].gen
  /\ reader' = [reader EXCEPT ![s] = [@ EXCEPT !.pc = "polled", !.moved = (head > pin[s])]]
  /\ pin' = [pin EXCEPT ![s] = IF head > @ THEN head ELSE @]
  /\ busy' = TRUE
  /\ UNCHANGED <<head, tagVars, loopVars, follows, queue, phase, view, effects, repaint>>

PollFails(s) ==
  /\ At(s, "poll") /\ Current(s) /\ reader[s].halted # reader[s].gen
  /\ "poll" \in Faults
  /\ view' = [view EXCEPT !.followError = TRUE]
  /\ Over(s)
  /\ repaint' = TRUE
  /\ UNCHANGED <<loopOnly, phase, effects>>

TickPlan(s) ==
  /\ At(s, "tickplan") /\ Current(s)
  /\ view' = [view EXCEPT !.followError = FALSE]
  /\ IF reader[s].moved \/ HasNewer(view)
       THEN Goes(s, "ticknext") /\ repaint' = TRUE /\ UNCHANGED busy
       ELSE Over(s) /\ repaint' = (repaint \/ view.followError)
  /\ UNCHANGED <<loopOnly, phase, effects>>

TickNext(s) ==
  /\ At(s, "ticknext") /\ Current(s)
  /\ HasNewer(view) /\ reader[s].read < FILL_WINDOWS
  /\ reader' = [reader EXCEPT ![s] = [@ EXCEPT !.pc = "tickread",
                                               !.window = NextNewerWindow(view)]]
  /\ busy' = TRUE
  /\ UNCHANGED <<loopOnly, phase, view, effects, repaint>>

TickFilled(s) ==
  /\ At(s, "ticknext") /\ Current(s)
  /\ reader[s].read > 0 \/ ~HasNewer(view)
  /\ IF reader[s].moved THEN Goes(s, "tickspan") /\ UNCHANGED busy ELSE Over(s)
  /\ UNCHANGED <<loopOnly, phase, view, effects, repaint>>

(* The span's end follows the pin a poll moved.                            *)
TickSpan(s) ==
  /\ At(s, "tickspan") /\ Current(s)
  /\ SpanSet(s)
  /\ Over(s)
  /\ repaint' = TRUE
  /\ UNCHANGED <<loopOnly, phase, effects>>

LandNewer(s) ==
  /\ At(s, "tickread") /\ Current(s)
  /\ view' = ApplyNewerWindow(view, reader[s].window)
  /\ reader' = [reader EXCEPT ![s] = [@ EXCEPT !.pc = "ticknext", !.window = NoWindow,
                                               !.read = reader[s].read + 1]]
  /\ repaint' = TRUE
  /\ UNCHANGED <<loopOnly, phase, busy, effects>>

TickReadFails(s) ==
  /\ At(s, "tickread") /\ Current(s) /\ "read" \in Faults
  /\ view' = [view EXCEPT !.followError = TRUE]
  /\ effects' = effects \cup {"follow_halted"}
  /\ Rests(s, "tickend", reader[s].gen)
  /\ repaint' = TRUE
  /\ UNCHANGED <<loopOnly, phase, busy>>

(* The end of every tick, whatever session the reader belongs to.          *)
TickEnd(s) ==
  /\ At(s, "tickend")
  /\ tickInFlight' = FALSE
  /\ Goes(s, "idle")
  /\ busy' = (busy /\ session # s)
  /\ UNCHANGED <<head, tagVars, following, resting, handle, closed, follows, pin, queue,
                 phase, view, effects, repaint>>

\* Mutant: a thread that panicked ends, and the window does not hear of it.
PanicUnheard(s) ==
  /\ "panic" \in Faults /\ reader[s].pc \notin {"none", "idle", "ended"}
  /\ Rests(s, "ended", 0)
  /\ UNCHANGED <<loopOnly, phase, view, busy, effects, repaint>>

(* The thread panics while it runs a request, or as it opens.              *)
Panic(s) ==
  /\ "panic" \in Faults /\ reader[s].pc \notin {"none", "idle", "ended"}
  /\ Rests(s, "ended", 0)
  /\ IF InSession(s)
       THEN phase' = "failed" /\ busy' = FALSE /\ repaint' = TRUE
       ELSE UNCHANGED <<phase, busy, repaint>>
  /\ UNCHANGED <<loopOnly, view, effects>>

-----------------------------------------------------------------------------
Opening(s) == OpenRefused(s) \/ Opened(s) \/ Publish(s)

Reloading(s) ==
  \/ Plan(s) \/ BeginView(s) \/ ProbeFails(s)
  \/ NextDown(s) \/ Filled(s) \/ LandDown(s) \/ ReadFails(s)

Repinning(s) == Repin(s) \/ RepinFails(s) \/ Repinned(s) \/ StartAtPin(s) \/ SpanRead(s)

Ticking(s) ==
  \/ TickHalted(s) \/ Poll(s) \/ PollFails(s) \/ TickPlan(s) \/ TickNext(s)
  \/ TickFilled(s) \/ LandNewer(s) \/ TickReadFails(s) \/ TickSpan(s) \/ TickEnd(s)

Reads(s) ==
  Opening(s) \/ Take(s) \/ LetGo(s) \/ Superseded(s) \/ Reloading(s) \/ Repinning(s)
    \/ Ticking(s)

Pressed ==
  \/ PickFilter \/ JumpLatest \/ FollowOn \/ FollowOff \/ CursorMoved \/ LoadMore
  \/ Reopen \/ Close

Timers == CursorRested \/ FollowTimerStops \/ FollowTimerTicks

Next ==
  \/ Append1 \/ Pressed \/ Timers \/ PostedRepaint
  \/ \E s \in Sessions : Reads(s) \/ Panic(s)

Spec == Init /\ [][Next]_vars

(* A reader thread runs on, and the event loop runs what is posted to it   *)
(* and the timers that are due; nothing makes a person press anything.     *)
Fairness ==
  /\ \A s \in Sessions : WF_vars(Reads(s))
  /\ WF_vars(PostedRepaint)
  /\ WF_vars(CursorRested)
  /\ WF_vars(FollowTimerStops \/ FollowTimerTicks)

FairSpec == Spec /\ Fairness

-----------------------------------------------------------------------------
(* What must hold.                                                         *)

\* The windows loaded in the view are read whole and once each: no gap, no
\* position twice, in ledger order, never past the pin, and exactly what the
\* top bar states, whichever of earlier reads, follow ticks, failures and
\* restarts came in between (ViewModel::apply_window, apply_newer_window).
WindowsContiguous == view # NoView => Contiguous(view)

\* Every pin a page or a frame read uses is the model's: outside the step
\* between a read that moves the face's pin and `repinned`, the two are one,
\* also when the request that moved it was superseded meanwhile.
PinInStep ==
  (~closed /\ phase = "open" /\ reader[session].pc \notin {"repinned", "polled"})
    => view.pin = pin[session]

\* A window that says its face is opening or open has a reader to send to: the
\* send that finds none (LedgerFailure::Gone) is never reached, whatever
\* panicked, was refused or was reopened.
OpenWindowHasReader ==
  (~closed /\ phase \in {"opening", "open"})
    => reader[session].pc \notin {"none", "ended"}

\* No newer window lands on the top of a view under a time bound, although the
\* bound may be set while that window is being read: such a view does not read
\* down from the pin.
NoNewerUnderBound ==
  [][\A s \in Sessions :
       (At(s, "tickread") /\ reader'[s].pc = "ticknext") => view.bound = NoBound]_vars

\* A reader whose session the window let go leaves nothing in the window: not
\* its failure, its view, its busy line, nor an effect, though it runs on.
OldReaderLeavesNothing ==
  [][\A s \in Sessions :
       (reader'[s] # reader[s] /\ s # session /\ session' = session)
         => UNCHANGED <<phase, view, busy, effects, follows, handle>>]_vars

\* Every request ends and the busy line with it, whatever was reopened,
\* superseded or failed meanwhile; a closed window shows none.
BusyEnds == busy ~> (~busy \/ closed)

\* Following brings the view to the ledger's end while it stays on, or the window says
\* that its reads or its polls fail.
FollowingCatchesUp ==
  (following /\ Live /\ view.upper < head)
    ~> (~following \/ ~Live \/ view.queryError \/ view.followError \/ view.upper = head)
-----------------------------------------------------------------------------
(* The inductive invariant: what holds between any two steps and makes the *)
(* invariants above hold after the next one.                               *)

Serves(s) == reader[s].pc \notin {"none", "open", "publish", "ended"}

\* No request is of a generation yet to come: one superseded stays so.
TagsPast ==
  \A s \in Sessions :
    /\ reader[s].gen <= generation
    /\ \A i \in 1..Len(queue[s]) : queue[s][i].gen <= generation

ReadersPast == \A s \in Sessions : s > session => reader[s].pc = "none"

PinsReached == \A s \in Sessions : pin[s] <= head

\* A reader that serves has its view, and the view its pin: behind the face's
\* only from the read that moves it to `repinned`.
PinServed(s) ==
  Serves(s) =>
    /\ view # NoView
    /\ view.pin <= pin[s]
    /\ \/ view.pin = pin[s]
       \/ reader[s].pc = "repinned"
       \/ reader[s].pc = "polled" /\ reader[s].moved

\* A window being read is still the next one, unless its request was
\* superseded.
WindowPlanned(s) ==
  /\ (reader[s].pc = "read" /\ Current(s)) =>
       /\ HasEarlier(view)
       /\ reader[s].window.to = Top(view)
       /\ reader[s].window.from <= reader[s].window.to
  /\ (reader[s].pc = "tickread" /\ Current(s)) =>
       /\ view.bound = NoBound
       /\ reader[s].window.from = view.upper + 1
       /\ reader[s].window.from <= reader[s].window.to
       /\ reader[s].window.to <= view.pin

PhaseServed ==
  ~closed =>
    /\ session \in Sessions
    /\ phase = "open" => Serves(session)
    /\ phase = "opening" => reader[session].pc \in {"open", "publish"}

IInv ==
  /\ TypeOK /\ WindowsContiguous
  /\ TagsPast /\ ReadersPast /\ PinsReached /\ PhaseServed
  /\ session \in Sessions => PinServed(session) /\ WindowPlanned(session)
=============================================================================
