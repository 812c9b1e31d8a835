------------------------------ MODULE Preview ------------------------------
(***************************************************************************)
(* The workbench's live picture: the picture thread                        *)
(* (acui-app workbench/preview.rs) over its connection to the Runtime       *)
(* (acui-source workbench/preview.rs), and what the event loop keeps of it  *)
(* (workbench/picture.rs, model.rs), with a person's refresh of one frame   *)
(* (workbench/refresh.rs).                                                  *)
(*                                                                         *)
(* The event loop orders the thread to follow one account, or none, each    *)
(* order under a generation.  The thread looks the newest frame up, polls   *)
(* the records after it, reads the newest frame not shown yet, and posts    *)
(* what it found; orders and posts cross, records come, and the Runtime may *)
(* be another one between any two exchanges.                                *)
(*                                                                         *)
(* A frame is the position of its record, which also names it (FrameKey):   *)
(* positions count on from what a lookup no longer reaches.  Paces, gaps    *)
(* and settle times are left open: what is due may begin at any time.       *)
(***************************************************************************)
EXTENDS Naturals, Sequences, FiniteSets, FiniteSetsExt

CONSTANTS Accounts,   \* the aliases every `Status` lists
          Desks,      \* the desks checked; each bounds what may happen on it:
                      \*   its accounts, the kinds of record taken, how many records,
                      \*   epochs, turns of the person, presses, mishaps, and whether a
                      \*   `Status` may state no head of the ledger
          MaxPosts    \* bound: what the thread posted and the event loop has not taken

VARIABLES desk,      \* the desk this behaviour is on, for good
          mishaps,   \* how many things have gone wrong
          epoch,     \* the owner epoch of the Runtime that runs, outside
          ledger,    \* its records of frames and of marks on them
          orders,    \* what the event loop told the thread and it has not taken
          line,      \* Line: following one account
          thread,    \* where the thread is, its connection, the frames it does not read again
          posts,     \* what the thread posted, oldest first
          slot,      \* the frame handed over and not taken: only the newest waits
          win,       \* Pictures and what of the Model it goes by
          asks       \* the refreshes whose threads run

vars == <<desk, mishaps, epoch, ledger, orders, line, thread, posts, slot, win, asks>>

\* What a record is of: a frame somebody observed or a task took, or a mark on a task's.
Kinds == {"seen", "task", "mark"}

ASSUME PreviewAssumption ==
    /\ "none" \notin Accounts /\ MaxPosts \in Nat
    /\ Desks \subseteq [accounts : SUBSET Accounts, kinds : SUBSET Kinds, records : Nat,
                        epochs : Nat \ {0}, turns : Nat, presses : Nat, mishaps : Nat,
                        headless : BOOLEAN]

----------------------------------------------------------------------------
(* The Runtime's ledger, outside. *)

FramesOf(a, upTo) == {p \in 1 .. upTo : ledger[p].account = a /\ ledger[p].kind # "mark"}
Newest(a, upTo) == Max({0} \cup FramesOf(a, upTo))
MarksOf(f, upTo) == {p \in 1 .. upTo : ledger[p].kind = "mark" /\ ledger[p].of = f}
IsTask(f) == f # 0 /\ ledger[f].kind = "task"

Mishap == mishaps < desk.mishaps /\ mishaps' = mishaps + 1

Recorded(a, kind, of) ==
    /\ Len(ledger) < desk.records
    /\ ledger' = Append(ledger, [account |-> a, kind |-> kind, of |-> of])

\* A frame a task or somebody's observation took, or what a task recognized on its frame.
Record ==
    /\ \E a \in desk.accounts :
          \/ \E kind \in desk.kinds \ {"mark"} : Recorded(a, kind, 0)
          \/ "mark" \in desk.kinds /\ \E f \in FramesOf(a, Len(ledger)) :
                                       IsTask(f) /\ Recorded(a, "mark", f)
    /\ UNCHANGED <<desk, mishaps, epoch, orders, line, thread, posts, slot, win, asks>>

Restart ==
    /\ epoch < desk.epochs
    /\ epoch' = epoch + 1
    /\ UNCHANGED <<desk, mishaps, ledger, orders, line, thread, posts, slot, win, asks>>

----------------------------------------------------------------------------
(* What the thread follows. *)

NoLine == [generation |-> 0, account |-> "none", epoch |-> 0, stated |-> FALSE,
           looked |-> FALSE, after |-> 0, newest |-> 0, shown |-> 0, waiting |-> 0, owed |-> 0,
           marks |-> {}, told |-> {}, failing |-> FALSE]

\* Line::offer: a frame newer than the one shown and the one waiting waits to be read.
Offered(l, f) ==
    [l EXCEPT !.newest = Max({@, f}), !.waiting = IF f > l.shown /\ f > @ THEN f ELSE @]

\* Line::new.  The marks of a task's frame the order carried are owed while it waits.
LineOf(order) ==
    LET fresh == [NoLine EXCEPT
                    !.generation = order.generation, !.account = order.account,
                    !.epoch = order.epoch, !.stated = order.stated,
                    !.looked = order.what = "known", !.after = order.after,
                    !.newest = order.shown, !.shown = order.shown]
        offered == Offered(fresh, order.frame)
    IN [offered EXCEPT !.owed = IF @ = 0 /\ offered.waiting # 0 /\ IsTask(order.frame)
                                THEN order.frame ELSE 0]

Taken(order) ==
    CASE order.what \in {"lookup", "known"} -> LineOf(order)
      [] order.what = "stop" -> NoLine
      [] order.what = "offer" ->
            IF line.generation = order.generation THEN Offered(line, order.frame) ELSE line

\* Orders are taken between rounds, all that are there.
TakeOrder ==
    /\ thread.at = "rest" /\ orders # <<>>
    /\ line' = Taken(Head(orders))
    /\ orders' = Tail(orders)
    /\ UNCHANGED <<desk, mishaps, epoch, ledger, thread, posts, slot, win, asks>>

Ready == thread.at = "rest" /\ orders = <<>> /\ line # NoLine

----------------------------------------------------------------------------
(* One exchange with the Runtime, and how a round stops short. *)

Seen(what, frame, after, marks) ==
    [what |-> what, generation |-> line.generation, account |-> line.account,
     epoch |-> line.epoch, frame |-> frame, after |-> after, marks |-> marks]

Posted(seen) == Len(posts) + Len(seen) <= MaxPosts /\ posts' = posts \o seen

Resting(lane) == [thread EXCEPT !.at = "rest", !.frame = 0, !.upTo = 0, !.lane = lane]

\* Line::failed, with what the event loop hears of it.
Halts(lanes, seen) ==
    /\ \E lane \in lanes : thread' = Resting(lane)
    /\ Posted(seen)
    /\ line' = [line EXCEPT !.failing = TRUE]
    /\ UNCHANGED slot

\* A page: a kept connection that ended is made anew and asked again.  One of another owner
\* epoch is let go without a word; a page that does not come, or a panic, is told.
Exchange(answered) ==
    \/ epoch = line.epoch /\ answered /\ UNCHANGED mishaps
    \/ epoch # line.epoch /\ Halts({0}, <<>>) /\ UNCHANGED mishaps
    \/ Mishap /\ Halts({0, thread.lane}, <<Seen("interrupted", 0, 0, {})>>)
    \/ Mishap /\ Halts({0}, <<Seen("panicked", 0, 0, {})>>)

OfThread == UNCHANGED <<desk, epoch, ledger, orders, win, asks>>

----------------------------------------------------------------------------
(* Line::round: a lookup until one went well, then polls. *)

Overlay(l, f) == {p \in l.marks : ledger[p].of = f}

\* Line::tell_marks: what is told of the frame shown, and what is kept.
Kept(l) == [l EXCEPT !.marks = {p \in @ : ledger[p].of \in {l.shown, l.waiting}}]
Told(l) == Kept(IF l.shown = 0 THEN l ELSE [l EXCEPT !.told = Overlay(l, l.shown)])
Telling(l) ==
    IF l.shown # 0 /\ Overlay(l, l.shown) # l.told
    THEN <<Seen("marks", l.shown, 0, Overlay(l, l.shown))>> ELSE <<>>

\* A task's frame a lookup found asks for its marks when it is shown or to be read.
AsksMarks(f) == IsTask(f) /\ f >= line.shown

Goes(at, f, upTo) ==
    /\ thread' = [thread EXCEPT !.at = at, !.frame = f, !.upTo = upTo, !.lane = epoch]
    /\ UNCHANGED <<line, posts, slot>>

LookedUp(f, head, marks) ==
    LET l == Offered([line EXCEPT !.looked = TRUE, !.after = head,
                                  !.marks = @ \cup marks, !.failing = FALSE], f)
    IN /\ line' = Told(l)
       /\ Posted(<<Seen("looked", f, head, {})>> \o Telling(l))
       /\ thread' = Resting(epoch)
       /\ UNCHANGED slot

\* An order without a head asks nothing: the round went well, and the line stays as it is.
LookUpNothing ==
    /\ Ready /\ ~line.looked /\ ~line.stated
    /\ line' = [line EXCEPT !.failing = FALSE]
    /\ UNCHANGED <<mishaps, thread, posts, slot>> /\ OfThread

LookUp ==
    /\ Ready /\ ~line.looked /\ line.stated
    /\ LET f == Newest(line.account, line.after)
       IN Exchange(IF AsksMarks(f) THEN Goes("found", f, line.after)
                   ELSE LookedUp(f, line.after, {}))
    /\ OfThread

MarkPage ==
    /\ thread.at = "found"
    /\ Exchange(LookedUp(thread.frame, thread.upTo, MarksOf(thread.frame, thread.upTo)))
    /\ OfThread

\* What came of the frame the order carried, before the first poll.
OwedPage ==
    /\ Ready /\ line.looked /\ line.owed # 0
    /\ LET l == [line EXCEPT !.marks = @ \cup MarksOf(line.owed, line.after), !.owed = 0]
       IN Exchange(/\ line' = Told(l)
                   /\ Posted(Telling(l))
                   /\ thread' = [thread EXCEPT !.at = "poll", !.lane = epoch]
                   /\ UNCHANGED slot)
    /\ OfThread

\* The rest of Line::poll: a new frame is offered, and told like the first good round after
\* ones that failed.
Polled(newest, snapshot, marks) ==
    LET fresh == IF newest > line.newest THEN newest ELSE 0
        l == [Offered([line EXCEPT !.after = snapshot], fresh)
                 EXCEPT !.marks = @ \cup marks, !.failing = FALSE]
        news == IF fresh # 0 \/ line.failing THEN <<Seen("polled", fresh, snapshot, {})>> ELSE <<>>
    IN /\ line' = Told(l)
       /\ Posted(Telling(l) \o news)
       /\ thread' = Resting(epoch)
       /\ UNCHANGED slot

\* Every mark after `after` comes with a whole page.
Poll ==
    /\ thread.at = "poll" \/ (Ready /\ line.looked /\ line.owed = 0)
    /\ LET marks == UNION {MarksOf(f, Len(ledger)) : f \in FramesOf(line.account, Len(ledger))}
           news == FramesOf(line.account, Len(ledger)) \ 1 .. line.after
       IN \/ Exchange(Polled(Max({0} \cup news), Len(ledger), marks \ 1 .. line.after))
          \/ /\ epoch = line.epoch /\ Mishap
             /\ Goes("cut", 0, Len(ledger))
    /\ OfThread

\* A page that was not whole is let go, and the newest frame looked up where it was read.
PollAgain ==
    /\ thread.at = "cut"
    /\ LET f == Newest(line.account, thread.upTo)
       IN Exchange(IF AsksMarks(f) THEN Goes("foundCut", f, thread.upTo)
                   ELSE Polled(f, thread.upTo, {}))
    /\ OfThread

MarkPageAgain ==
    /\ thread.at = "foundCut"
    /\ Exchange(Polled(thread.frame, thread.upTo, MarksOf(thread.frame, thread.upTo)))
    /\ OfThread

----------------------------------------------------------------------------
(* Line::read: the waiting frame, on the connection there is or a new one. *)

\* A mutant: a read that finds no Runtime lets the frame go.
BeginReadLosing ==
    /\ Ready /\ line.waiting # 0 /\ ~line.failing /\ line.waiting \notin thread.failed
    /\ \/ /\ thread' = [Resting(IF thread.lane = 0 THEN epoch ELSE thread.lane)
                           EXCEPT !.at = "reading", !.frame = line.waiting]
          /\ line' = [line EXCEPT !.waiting = 0]
          /\ UNCHANGED <<mishaps, posts, slot>>
       \/ /\ Mishap /\ Posted(<<Seen("interrupted", 0, 0, {})>>)
          /\ line' = [line EXCEPT !.waiting = 0, !.failing = TRUE]
          /\ UNCHANGED <<thread, slot>>
    /\ OfThread

\* A frame that could not be read before is not asked for again; one whose connection is
\* not there stays waiting.
BeginRead ==
    /\ Ready /\ line.waiting # 0 /\ ~line.failing
    /\ \/ /\ line.waiting \in thread.failed
          /\ line' = [line EXCEPT !.waiting = 0]
          /\ UNCHANGED <<mishaps, thread, posts, slot>>
       \/ /\ line.waiting \notin thread.failed
          /\ thread' = [Resting(IF thread.lane = 0 THEN epoch ELSE thread.lane)
                           EXCEPT !.at = "reading", !.frame = line.waiting]
          /\ line' = [line EXCEPT !.waiting = 0]
          /\ UNCHANGED <<mishaps, posts, slot>>
       \/ /\ line.waiting \notin thread.failed /\ thread.lane = 0
          /\ Mishap /\ Halts({0}, <<Seen("interrupted", 0, 0, {})>>)
    /\ OfThread

NoFrame == [what |-> "none", generation |-> 0, account |-> "none", epoch |-> 0, frame |-> 0,
            after |-> 0, marks |-> {}]

\* hand_over: the slot takes the place of one not taken yet.
HandedOver(frame, overlay) ==
    /\ slot' = Seen("frame", frame, 0, overlay)
    /\ Posted(IF slot = NoFrame THEN <<Seen("slot", 0, 0, {})>> ELSE <<>>)

Shows(frame) ==
    LET shown == [line EXCEPT !.shown = frame, !.told = Overlay(line, frame)]
    IN /\ line' = Kept(shown)
       /\ HandedOver(frame, Overlay(line, frame))
       /\ thread' = Resting(thread.lane)

Unreadable(frame, lanes) ==
    /\ \E lane \in lanes : thread' = [Resting(lane) EXCEPT !.failed = @ \cup {frame}]
    /\ Posted(<<Seen("unreadable", frame, 0, {})>>)
    /\ UNCHANGED <<line, slot>>

\* Nothing to show: the event loop ordered otherwise meanwhile.
Superseded ==
    /\ line.generation # win.generation
    /\ thread' = Resting(thread.lane)
    /\ UNCHANGED <<line, posts, slot>>

\* The connection reaches another owner epoch: the frame waits on.
ReadElsewhere ==
    /\ thread' = Resting(0)
    /\ line' = [line EXCEPT !.waiting = thread.frame, !.failing = TRUE]
    /\ UNCHANGED <<posts, slot>>

ReadPanics ==
    /\ thread' = [Resting(0) EXCEPT !.lost = @ \cup {thread.frame}]
    /\ Posted(<<Seen("panicked", 0, 0, {})>>)
    /\ line' = [line EXCEPT !.failing = TRUE]
    /\ UNCHANGED slot

\* How a read ends.  On a kept connection that ended it fails, and is not asked again.
EndRead ==
    /\ thread.at = "reading"
    /\ \/ thread.lane # line.epoch /\ ReadElsewhere /\ UNCHANGED mishaps
       \/ /\ thread.lane = line.epoch
          /\ \/ thread.lane = epoch /\ Shows(thread.frame) /\ UNCHANGED mishaps
             \/ thread.lane # epoch /\ Unreadable(thread.frame, {0}) /\ UNCHANGED mishaps
             \/ thread.lane = epoch /\ Mishap /\ Unreadable(thread.frame, {0, thread.lane})
             \/ Superseded /\ UNCHANGED mishaps
       \/ Mishap /\ ReadPanics
    /\ OfThread

----------------------------------------------------------------------------
(* The event loop: whom the thread is to follow (Pictures::sync). *)

NoPicture == [account |-> "none", epoch |-> 0, frame |-> 0, marks |-> {}]
NoTarget == [account |-> "none", epoch |-> 0]
NoAsk == [ticket |-> 0, generation |-> 0]
Unknown == [epoch |-> 0, looked |-> FALSE, after |-> 0, newest |-> 0, unreadable |-> 0,
            out |-> NoAsk, cooling |-> 0]

\* preview_target: the account picked, while the window shows and the Runtime answers.
Target(w) ==
    IF w.visible /\ w.online # 0 THEN [account |-> w.selected, epoch |-> w.online] ELSE NoTarget

\* Another account than the one shown lets go of the frame.
LetGo(w) == IF w.picture.account = w.selected THEN w ELSE [w EXCEPT !.picture = NoPicture]

\* What was looked up and polled in another owner epoch counts no more.
OfEpoch(known, e) ==
    IF known.epoch = e THEN known
    ELSE [known EXCEPT !.epoch = e, !.looked = FALSE, !.after = 0]

Order(what, generation) ==
    [what |-> what, generation |-> generation, account |-> "none", epoch |-> 0, stated |-> FALSE,
     after |-> 0, frame |-> 0, shown |-> 0]

\* An account looked up within LOOKUP_AGAIN in this owner epoch polls on, how long ago that
\* was being left open; else it is looked up down from the head the last `Status` stated,
\* which may be any head since, or none.
FollowOrders(w, known) ==
    LET order(what) == [Order(what, w.generation) EXCEPT
                           !.account = w.selected, !.epoch = w.online, !.stated = w.stated,
                           !.shown = w.picture.frame]
    IN {[order("lookup") EXCEPT !.after = head] : head \in IF w.stated THEN 0 .. Len(ledger) ELSE {0}}
       \cup IF known.looked
            THEN {[order("known") EXCEPT !.after = known.after, !.frame = known.newest]} ELSE {}

\* The event loop's state w brought up to what it shows, and what it orders.  The same
\* account in the same owner epoch is no new order, whatever head was stated since
\* (Target::same).
Synced(w) ==
    LET kept == LetGo(w)
        target == Target(w)
        known == OfEpoch(w.known[w.selected], w.online)
        next == [kept EXCEPT !.generation = @ + 1, !.sent = target]
        following(what) == [next EXCEPT !.known[w.selected] = known,
                               !.follow = IF what = "known" THEN "following" ELSE "looking"]
    IN IF w.sent = target THEN {<<kept, <<>>>>}
       ELSE IF target = NoTarget
       THEN {<<[next EXCEPT !.follow = "idle"], <<Order("stop", next.generation)>>>>}
       ELSE {<<following(order.what), <<order>>>> : order \in FollowOrders(next, known)}

Syncs(w) ==
    \E synced \in Synced(w) :
       /\ win' = synced[1]
       /\ orders' = orders \o synced[2]

OfLoop == UNCHANGED <<desk, epoch, ledger, line, thread>>

\* `Status` answered (live_landed): no refresh out holds across a restart.
Restarted(known) ==
    IF known.out = NoAsk THEN known
    ELSE [known EXCEPT !.out = NoAsk, !.cooling = known.out.ticket]

StatusLands ==
    /\ \E stated \in BOOLEAN :
       /\ stated \/ desk.headless
       /\ Syncs([win EXCEPT !.online = epoch, !.epoch = epoch, !.stated = stated,
                            !.known = IF win.epoch = epoch THEN @
                                      ELSE [a \in Accounts |-> Restarted(win.known[a])]])
    /\ UNCHANGED <<mishaps, posts, slot, asks>> /\ OfLoop

StatusFails ==
    /\ win.online # 0 /\ Mishap
    /\ Syncs([win EXCEPT !.online = 0, !.stated = FALSE])
    /\ UNCHANGED <<posts, slot, asks>> /\ OfLoop

\* A card picked, another page gone to, the window minimized or back.
Pick(a) ==
    /\ a # win.selected /\ win.turns < desk.turns
    /\ Syncs([win EXCEPT !.selected = a, !.turns = @ + 1])
    /\ UNCHANGED <<mishaps, posts, slot, asks>> /\ OfLoop

ShowOrHide ==
    /\ win.turns < desk.turns
    /\ Syncs([win EXCEPT !.visible = ~@, !.turns = @ + 1])
    /\ UNCHANGED <<mishaps, posts, slot, asks>> /\ OfLoop

----------------------------------------------------------------------------
(* What the thread posted lands (preview::landed). *)

Resumed(w) == IF w.follow = "idle" THEN w ELSE [w EXCEPT !.follow = "following"]

\* What is known of an account whose frame was seen.
Saw(known, frame) == [known EXCEPT !.newest = Max({@, frame})]
Showed(known, frame) == [known EXCEPT !.unreadable = IF @ <= frame THEN 0 ELSE @]

LookedLands(w, seen) ==
    Resumed([w EXCEPT !.known[seen.account] =
                Saw([@ EXCEPT !.looked = TRUE, !.after = seen.after], seen.frame)])

PolledLands(w, seen) ==
    Resumed([w EXCEPT !.known[seen.account] = Saw([@ EXCEPT !.after = seen.after], seen.frame)])

ShownOf(w, a) == IF w.picture.account = a THEN w.picture.frame ELSE 0

FrameLands(w, seen) ==
    IF ShownOf(w, seen.account) >= seen.frame THEN w
    ELSE Resumed([w EXCEPT
            !.known[seen.account] = Showed(Saw(@, seen.frame), seen.frame),
            !.picture = [account |-> seen.account, epoch |-> seen.epoch,
                         frame |-> seen.frame, marks |-> seen.marks]])

MarksLand(w, seen) ==
    IF w.picture.account = seen.account /\ w.picture.frame = seen.frame
    THEN [w EXCEPT !.picture.marks = seen.marks] ELSE w

UnreadableLands(w, seen) ==
    IF ShownOf(w, seen.account) >= seen.frame THEN w
    ELSE [w EXCEPT !.known[seen.account].unreadable = Max({@, seen.frame})]

OfAccount == {"looked", "polled", "frame", "marks", "unreadable"}

Taking(w, seen) ==
    CASE seen.what = "looked" -> LookedLands(w, seen)
      [] seen.what = "polled" -> PolledLands(w, seen)
      [] seen.what = "frame" -> FrameLands(w, seen)
      [] seen.what = "marks" -> MarksLand(w, seen)
      [] seen.what = "unreadable" -> UnreadableLands(w, seen)
      [] seen.what \in {"interrupted", "panicked"} -> [w EXCEPT !.follow = seen.what]

\* A mutant: what lands counts whichever order it was read for.
LandedAnyOrder(w, seen) ==
    IF seen.what \in OfAccount /\ seen.epoch # w.online THEN w ELSE Taking(w, seen)

\* One of another generation, or of another owner epoch than the one online, is let go; a
\* panic is no finding about an account.
Landed(w, seen) ==
    IF \/ seen.generation # w.generation /\ seen.what # "panicked"
       \/ seen.what \in OfAccount /\ seen.epoch # w.online
    THEN w ELSE Taking(w, seen)

Land ==
    /\ posts # <<>>
    /\ LET taken == Head(posts).what = "slot"
       IN /\ win' = Landed(win, IF taken THEN slot ELSE Head(posts))
          /\ slot' = IF taken THEN NoFrame ELSE slot
    /\ posts' = Tail(posts)
    /\ UNCHANGED <<mishaps, orders, asks>> /\ OfLoop

----------------------------------------------------------------------------
(* A person's refresh of the account shown (refresh.rs). *)

Press ==
    LET a == win.selected
        ticket == win.pressed + 1
    IN /\ Target(win) # NoTarget
       /\ win.known[a].out = NoAsk /\ win.known[a].cooling = 0
       /\ win.pressed < desk.presses
       /\ win' = [win EXCEPT !.pressed = ticket,
                             !.known[a].out = [ticket |-> ticket, generation |-> win.generation]]
       /\ asks' = asks \cup {[account |-> a, ticket |-> ticket, done |-> FALSE, frame |-> 0]}
       /\ UNCHANGED <<mishaps, orders, posts, slot>> /\ OfLoop

\* The Runtime captured a frame, and its record came back or not; or captured none, or
\* nothing says what became of it.
Observe ==
    /\ \E ask \in asks :
       LET answered(frame) ==
              asks' = (asks \ {ask}) \cup {[ask EXCEPT !.done = TRUE, !.frame = frame]}
       IN /\ ~ask.done
          /\ \/ Recorded(ask.account, "seen", 0) /\ (answered(Len(ledger) + 1) \/ answered(0))
             \/ answered(0) /\ UNCHANGED ledger
    /\ UNCHANGED <<desk, mishaps, epoch, orders, line, thread, posts, slot, win>>

\* preview::offer: only while the thread follows that account under that generation still.
Offers(ask) ==
    /\ ask.frame # 0
    /\ win.known[ask.account].out.generation = win.generation
    /\ win.sent.account = ask.account

OfferOf(ask) == [frame |-> ask.frame, generation |-> win.generation]

\* An answer whose ticket a restart let go counts for nothing.
RefreshLands ==
    /\ \E ask \in asks :
       /\ ask.done
       /\ asks' = asks \ {ask}
       /\ LET counts == win.known[ask.account].out.ticket = ask.ticket
              offers == counts /\ Offers(ask)
              settled == [win.known[ask.account] EXCEPT !.out = NoAsk, !.cooling = ask.ticket]
          IN /\ win' = IF counts
                       THEN [win EXCEPT !.known[ask.account] = settled,
                                        !.offered = IF offers THEN @ \cup {OfferOf(ask)} ELSE @]
                       ELSE win
             /\ orders' = IF offers
                          THEN Append(orders, [Order("offer", win.generation) EXCEPT !.frame = ask.frame])
                          ELSE orders
    /\ UNCHANGED <<mishaps, posts, slot>> /\ OfLoop

CoolsDown ==
    /\ \E a \in Accounts :
       /\ win.known[a].cooling # 0
       /\ win' = [win EXCEPT !.known[a].cooling = 0]
    /\ UNCHANGED <<mishaps, orders, posts, slot, asks>> /\ OfLoop

----------------------------------------------------------------------------
Init ==
    /\ desk \in Desks
    /\ mishaps = 0 /\ epoch = 1
    /\ ledger = <<>> /\ orders = <<>> /\ posts = <<>> /\ slot = NoFrame /\ asks = {}
    /\ line = NoLine
    /\ thread = [at |-> "rest", frame |-> 0, upTo |-> 0, lane |-> 0, failed |-> {}, lost |-> {}]
    /\ \E a \in desk.accounts :
          win = [selected |-> a, visible |-> TRUE, online |-> 0, epoch |-> 0, stated |-> FALSE,
                 picture |-> NoPicture, follow |-> "idle", known |-> [b \in Accounts |-> Unknown],
                 sent |-> NoTarget, generation |-> 0, turns |-> 0, pressed |-> 0, offered |-> {}]

ThreadStep ==
    \/ TakeOrder
    \/ LookUpNothing \/ LookUp \/ MarkPage \/ OwedPage \/ Poll \/ PollAgain \/ MarkPageAgain
    \/ BeginRead \/ EndRead

LoopStep ==
    \/ StatusLands \/ StatusFails \/ ShowOrHide \/ \E a \in desk.accounts : Pick(a)
    \/ Land \/ Press \/ RefreshLands \/ CoolsDown

Next == Record \/ Restart \/ Observe \/ ThreadStep \/ LoopStep

\* The thread goes on, the event loop takes what is posted, and a `Status` read on its clock
\* finds the Runtime that runs.
StatusFinds == win.online # epoch /\ StatusLands
Fairness == WF_vars(ThreadStep) /\ WF_vars(Land) /\ WF_vars(StatusFinds)

Spec == Init /\ [][Next]_vars /\ Fairness

----------------------------------------------------------------------------
(* Properties. *)

\* What each variable is made of, in a ledger of n records.
Names == Accounts \cup {"none"}
Records == [account : Accounts, kind : Kinds, of : Nat]
Orders(n) ==
    [what : {"lookup", "known", "stop", "offer"}, generation : Nat, account : Names, epoch : Nat,
     stated : BOOLEAN, after : 0 .. n, frame : 0 .. n, shown : 0 .. n]
Lines(n) ==
    [generation : Nat, account : Names, epoch : Nat, stated : BOOLEAN, looked : BOOLEAN,
     after : 0 .. n, newest : 0 .. n, shown : 0 .. n, waiting : 0 .. n, owed : 0 .. n, marks : SUBSET (1 .. n),
     told : SUBSET (1 .. n), failing : BOOLEAN]
Threads(n) ==
    [at : {"rest", "found", "cut", "foundCut", "poll", "reading"}, frame : 0 .. n, upTo : 0 .. n,
     lane : Nat, failed : SUBSET (0 .. n), lost : SUBSET (0 .. n)]
Seens(n) ==
    [what : OfAccount \cup {"none", "slot", "interrupted", "panicked"}, generation : Nat,
     account : Names, epoch : Nat, frame : 0 .. n, after : 0 .. n, marks : SUBSET (1 .. n)]
Knowns(n) ==
    [epoch : Nat, looked : BOOLEAN, after : 0 .. n, newest : 0 .. n, unreadable : 0 .. n,
     out : [ticket : Nat, generation : Nat], cooling : Nat]
Windows(n) ==
    [selected : Accounts, visible : BOOLEAN, online : Nat, epoch : Nat, stated : BOOLEAN,
     picture : [account : Names, epoch : Nat, frame : 0 .. n, marks : SUBSET (1 .. n)],
     follow : {"idle", "looking", "following", "interrupted", "panicked"},
     known : [Accounts -> Knowns(n)], sent : [account : Names, epoch : Nat], generation : Nat,
     turns : Nat, pressed : Nat, offered : SUBSET [frame : 0 .. n, generation : Nat]]
Asks(n) == [account : Accounts, ticket : Nat, done : BOOLEAN, frame : 0 .. n]

\* Every variable has its type, and names no record that is not there.
TypeOK ==
    LET n == Len(ledger)
    IN /\ desk \in Desks /\ mishaps \in 0 .. desk.mishaps /\ epoch \in 1 .. desk.epochs
       /\ ledger \in Seq(Records) /\ n <= desk.records
       /\ orders \in Seq(Orders(n)) /\ posts \in Seq(Seens(n)) /\ Len(posts) <= MaxPosts
       /\ line \in Lines(n) /\ thread \in Threads(n) /\ slot \in Seens(n)
       /\ win \in Windows(n) /\ asks \subseteq Asks(n)

\* The picture shown is a frame of the account picked, and what is drawn on it was
\* recognized on that very frame: whatever was picked, restarted or refreshed while its
\* bytes were on their way (landed, marks_landed, sync).
PictureIsItsOwn ==
    win.picture # NoPicture =>
        /\ win.picture.account = win.selected
        /\ win.picture.frame \in FramesOf(win.selected, Len(ledger))
        /\ win.picture.marks \subseteq MarksOf(win.picture.frame, Len(ledger))

\* The account shown has no frame, its newest is shown, or that one's read failed or panicked.
NewestIsShown ==
    LET newest == Newest(win.selected, Len(ledger))
    IN newest = 0 \/ win.picture.frame = newest \/ newest \in thread.failed \cup thread.lost

\* The newest frame was a refresh's, offered to the thread under an order that is over.
OfferedBefore ==
    \E o \in win.offered : o.frame = Newest(win.selected, Len(ledger)) /\ o.generation # win.generation

\* The thread was given where a lookup starts down from, or what one had found.
Headed == line.looked \/ line.stated

\* Once the window goes on showing an account the thread can look up, its newest frame shows
\* again and again, whatever was turned to, lost or restarted before; a refresh's frame does
\* unless the thread was ordered otherwise after it was offered.
NewestShows == <>[](win.visible /\ Headed) => []<>(NewestIsShown \/ OfferedBefore)

\* A frame a refresh captured is shown like one a poll found (Order::Offer), also after the
\* window was hidden or another account turned to.
OfferedShows == <>[](win.visible /\ Headed) => []<>NewestIsShown
=============================================================================
