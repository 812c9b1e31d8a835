------------------------------- MODULE Wizard -------------------------------
(***************************************************************************)
(* The install wizard's window (acui-setup main.rs, ui/setup.slint): its   *)
(* pages on the event loop, the one worker thread behind them, the         *)
(* closures a worker leaves for the event loop, the question a worker      *)
(* waits on, the close button, and the log whose first lost line stops the *)
(* run.                                                                    *)
(*                                                                         *)
(* A worker runs the script of its job, one phase a step.  What a phase    *)
(* changes on the disk is told as far as the wizard's own promises go:     *)
(* the slots, generations and programs of an upgrade are the module        *)
(* Install's, and closing and starting the Runtime is Lifecycle's.  A      *)
(* phase may succeed, fail, lose its line of the log, or panic.            *)
(***************************************************************************)
EXTENDS Naturals, Sequences, FiniteSets, Functions

CONSTANTS Desks,  \* the desks checked
          Older,  \* the releases published before the installed one
          Newer,  \* the others
          NoRelease

Files == {"launcher", "menu", "desktop"}
Jobs == {"release", "install", "resources", "options", "discover", "bundle",
         "instances", "settle"}

\* A desk: what the wizard is run for; the release it carries, the ones a lookup may find and the
\* ones the folder may hold; the associations asked and the binding conflicts; the files of the
\* options there before; and its bounds: the faults, and the workers a person may begin after.
DeskTypes == [kind : {"fresh", "upgrade", "resources"},
              carried : Older \cup Newer \cup {NoRelease},
              online : SUBSET (Older \cup Newer \cup {NoRelease}),
              folder : SUBSET (Older \cup Newer), asks : Nat, rows : Nat,
              before : SUBSET Files, mishaps : Nat, tries : Nat]

ASSUME WizardAssumption ==
    /\ Desks \subseteq DeskTypes
    /\ NoRelease \notin Older \cup Newer /\ Older \cap Newer = {}

VARIABLES desk,    \* the desk of this behaviour, for good
          page,    \* the window's properties, on the event loop only
          st,      \* the State behind its lock
          work,    \* the worker thread
          posted,  \* the closures left for the event loop, oldest first
          hand,    \* a question's sender between its taking and its send
          window,  \* the window: open, closing, gone
          disk,    \* what the wizard writes, and whether a Runtime runs
          count    \* the faults, questions and workers so far

vars == <<desk, page, st, work, posted, hand, window, disk, count>>

Upgrading == desk.kind = "upgrade"
NoWork == [job |-> "none", at |-> "none", question |-> 0, mail |-> <<>>, left |-> 0, why |-> "ok",
           release |-> NoRelease, ticks |-> {}, written |-> {}, kept |-> FALSE, was |-> <<>>]
NoHand == [question |-> 0, answer |-> <<>>]

----------------------------------------------------------------------------
(* The jobs: the phases of each, and those the window must not close in. *)

InstallPhases ==
    IF Upgrading
    THEN <<"begin", "fetch", "verify", "agree", "ask", "resolve", "place", "switch", "clean">>
    ELSE <<"begin", "fetch", "verify", "agree", "lay", "configure", "clean">>
ResourcesPhases == <<"begin", "lock", "check", "ask", "resolve", "place", "switch", "clean">>
OptionsPhases == <<"begin", "back", "launcher", "menu", "desktop", "keep">>
DiscoverPhases == <<"begin", "pin", "start", "list", "bundles">>
\* A mutant: the Runtime is closed before the conflicts are answered.
StopsFirst == <<"begin", "prepare", "plan", "stop", "resolve", "place", "switch", "clean", "restart">>
InstancesPhases ==
    <<"begin", "prepare", "plan", "resolve", "stop", "place", "switch", "clean", "restart">>

Script(job) ==
    CASE job = "install" -> InstallPhases
      [] job = "resources" -> ResourcesPhases
      [] job = "options" -> OptionsPhases
      [] job = "discover" -> DiscoverPhases
      [] job = "instances" -> InstancesPhases
      [] job = "release" -> <<"begin", "look">>
      [] job = "bundle" -> <<"begin", "read">>
      [] job = "settle" -> <<"begin", "settle", "told">>
After(job, at) == Script(job)[1 + CHOOSE i \in DOMAIN Script(job) : Script(job)[i] = at]

\* The phases under a Held, a question's wait among them.
HeldPhases(job) ==
    CASE job = "install" -> {"agree", "ask", "resolve", "wait", "over", "place", "switch",
                             "lay", "configure"}
      [] job = "discover" -> {"pin", "start", "list"}
      [] job \in {"resources", "options", "instances"} ->
           (Range(Script(job)) \cup {"wait", "over", "restore"}) \ {"begin"}
      [] OTHER -> {}

Guarded == work.job # "none" /\ work.at \in HeldPhases(work.job)

----------------------------------------------------------------------------
(* The steps shared: a fault, a closure left, the end of a worker. *)

Spend(n) == count.mishaps + n <= desk.mishaps /\ count' = [count EXCEPT !.mishaps = @ + n]
Post(closures) == posted' = posted \o closures
Failed == [do |-> "failed"]

\* A worker begun for a press; `was` is what the disk held then (history).
Worker(job) == [NoWork EXCEPT !.job = job, !.at = "begin", !.was = disk]

\* A worker ends and leaves its last closures.
EndsWith(closures) == work' = NoWork /\ Post(closures)

\* A mutant: a line lost before is forgotten.
RetryableAnyway == EndsWith(<<[do |-> "notDone"]>>) /\ UNCHANGED <<st, count>>

\* retryable: the page may be used again, unless a line of the log was lost, then or before.
Retryable ==
    \/ ~st.lost /\ EndsWith(<<[do |-> "notDone"]>>) /\ UNCHANGED <<st, count>>
    \/ ~st.lost /\ EndsWith(<<Failed>>) /\ st' = [st EXCEPT !.lost = TRUE] /\ Spend(1)
    \/ st.lost /\ EndsWith(<<Failed>>) /\ UNCHANGED <<st, count>>

\* What needs the person's word: a release published before the one installed.
Note(release) == IF Upgrading /\ release \in Older THEN release ELSE NoRelease

\* A mutant: the tick stays under another note.
ConfirmedOnce(p, note) == [p EXCEPT !.downgradeNote = note]

\* confirm_downgrade: another note takes the tick away.
Confirmed(p, note) ==
    IF p.downgradeNote = note THEN p
    ELSE [p EXCEPT !.downgradeNote = note, !.downgradeOk = FALSE]
MayGoOn(p) == p.downgradeNote = NoRelease \/ p.downgradeOk

----------------------------------------------------------------------------
(* The event loop's part of a job: its guards and what it shows, before the *)
(* thread is spawned.                                                       *)

\* The failure page.  What the event loop leaves to itself lands before the next press.
FailedPage(p) == [p EXCEPT !.busy = FALSE, !.failed = TRUE]

\* The worker begun, or the thread refused; `queue` is what is posted before.
Spawn(w, p, queue) ==
    /\ posted' = queue
    /\ \/ /\ page' = [p EXCEPT !.busy = TRUE]
          /\ work' = w
          /\ count' = [count EXCEPT !.begun = @ + 1]
       \/ page' = FailedPage(p) /\ Spend(1) /\ UNCHANGED work

FindRelease(p) ==
    /\ Spawn(Worker("release"), [p EXCEPT !.canNext = FALSE, !.releaseFailed = FALSE], posted)
    /\ UNCHANGED st

\* begin_discover: what an earlier discovery listed is taken away first.
BeginDiscover(p, queue) ==
    /\ Spawn(Worker("discover"), [p EXCEPT !.discovered = FALSE, !.ready = FALSE], queue)
    /\ st' = [st EXCEPT !.discoverTried = TRUE]

Finish(p) == [p EXCEPT !.step = 4, !.canNext = FALSE]

SettleAndFinish(p, queue) ==
    /\ IF st.discoverTried
       THEN Spawn(Worker("settle"), p, queue)
       ELSE page' = Finish(p) /\ posted' = queue /\ UNCHANGED <<work, count>>
    /\ UNCHANGED st

\* A line of the log on the event loop: written, or lost and the run fails.
Logs(then) ==
    \/ then
    \/ /\ Spend(1)
       /\ st' = [st EXCEPT !.lost = TRUE]
       /\ page' = FailedPage(page)
       /\ UNCHANGED <<work, posted>>

\* offline_toggled: a folder is judged when Install is pressed, the online release as looked up.
OfflineToggled(p) ==
    LET judged == Confirmed(p, IF p.offline THEN NoRelease ELSE Note(st.release))
    IN IF p.offline \/ st.release # NoRelease
       THEN page' = [judged EXCEPT !.canNext = TRUE] /\ UNCHANGED <<st, work, posted, count>>
       ELSE FindRelease(judged)

\* enter_get, enter_carried: the root checked, the root and the log made.
EnterGet ==
    Logs(LET p == [page EXCEPT !.step = 1]
         IN IF desk.carried # NoRelease
            THEN /\ page' = [Confirmed(p, Note(desk.carried)) EXCEPT !.canNext = TRUE]
                 /\ UNCHANGED <<st, work, posted, count>>
            ELSE OfflineToggled(p))

EnterResources ==
    Logs(page' = [page EXCEPT !.step = 7, !.canNext = TRUE] /\ UNCHANGED <<st, work, posted, count>>)

\* begin_install: the release it would install, judged once more.
BeginInstall ==
    LET release == IF desk.carried # NoRelease THEN desk.carried
                   ELSE IF page.offline THEN page.folder ELSE st.release
        judged == Confirmed(page, Note(release))
        begins == /\ Spawn([Worker("install") EXCEPT !.release = release, !.left = desk.asks],
                           [judged EXCEPT !.installing = TRUE, !.canNext = FALSE], posted)
                  /\ UNCHANGED st
    IN /\ release # NoRelease
       /\ IF ~MayGoOn(judged)
          THEN page' = judged /\ UNCHANGED <<st, work, posted, count>>
          ELSE IF page.offline /\ desk.carried = NoRelease THEN Logs(begins) ELSE begins

\* apply_options: the options as they are ticked when pressed.
ApplyOptions ==
    Spawn([Worker("options") EXCEPT !.ticks = page.ticks], page, posted) /\ UNCHANGED st

BeginApply ==
    ~st.problems /\ page.ready /\ Spawn(Worker("instances"), page, posted) /\ UNCHANGED st

BeginResources ==
    /\ Spawn([Worker("resources") EXCEPT !.left = desk.asks], [page EXCEPT !.canNext = FALSE], posted)
    /\ UNCHANGED st

BeginAddBundle == Spawn(Worker("bundle"), page, posted) /\ UNCHANGED st

----------------------------------------------------------------------------
(* What a person does.  The buttons of a page answer while it is not busy,  *)
(* those of a question always; the failure page has its own button only.    *)

Loop == window = "open" /\ hand = NoHand
Person == Loop /\ ~page.failed /\ \A i \in DOMAIN posted : posted[i].do # "expired"
AtRest == Person /\ ~page.busy /\ count.begun < desk.tries

NextPressed ==
    /\ AtRest /\ page.canNext /\ (page.step = 1 => MayGoOn(page))
    /\ CASE page.step = 0 /\ desk.kind = "resources" -> EnterResources
         [] page.step = 0 /\ desk.kind # "resources" -> EnterGet
         [] page.step = 1 -> BeginInstall
         [] page.step = 2 -> ApplyOptions
         [] page.step = 3 -> BeginApply
         [] page.step = 7 -> BeginResources
         [] OTHER -> FALSE
    /\ UNCHANGED <<desk, hand, window, disk>>

RetryRelease ==
    /\ AtRest /\ page.step = 1 /\ page.releaseFailed /\ ~page.offline
    /\ FindRelease(page)
    /\ UNCHANGED <<desk, hand, window, disk>>

Discover ==
    AtRest /\ page.step = 3 /\ BeginDiscover(page, posted) /\ UNCHANGED <<desk, hand, window, disk>>

AddBundle ==
    AtRest /\ page.step = 3 /\ BeginAddBundle /\ UNCHANGED <<desk, hand, window, disk>>

SkipInstances ==
    /\ AtRest /\ page.step = 3
    /\ Logs(SettleAndFinish(page, posted))
    /\ UNCHANGED <<desk, hand, window, disk>>

\* The fields and boxes of a page; `sworn` is the note shown when the person ticked (history).
Edits ==
    /\ AtRest
    /\ \/ /\ page.step = 1 /\ desk.carried = NoRelease
          /\ OfflineToggled([page EXCEPT !.offline = ~@])
       \/ /\ page.step = 1 /\ page.offline
          /\ \E release \in desk.folder :
                page' = [page EXCEPT !.folder = release, !.downgradeNote = NoRelease,
                                     !.downgradeOk = FALSE]
          /\ UNCHANGED <<st, work, posted, count>>
       \/ /\ page.step = 1 /\ page.downgradeNote # NoRelease
          /\ page' = [page EXCEPT !.downgradeOk = ~@,
                                  !.sworn = IF page.downgradeOk THEN NoRelease ELSE page.downgradeNote]
          /\ UNCHANGED <<st, work, posted, count>>
       \/ /\ page.step = 2
          /\ \E f \in Files : page' = [page EXCEPT !.ticks = (@ \ {f}) \cup ({f} \ @)]
          /\ UNCHANGED <<st, work, posted, count>>
       \/ /\ page.step = 3 /\ page.discovered /\ ~page.ready
          /\ page' = [page EXCEPT !.ready = TRUE]
          /\ UNCHANGED <<st, work, posted, count>>
    /\ UNCHANGED <<desk, hand, window, disk>>

\* The boxes of a question's page.  conflict_toggle: a side checked clears the other;
\* conflict_header_toggle: every row on a side, or none when all were.
Rows == 1 .. desk.rows
Choose(choice) ==
    Person /\ page.step = 5 /\ choice \in 1 .. 2 /\ page' = [page EXCEPT !.choice = choice]
        /\ UNCHANGED <<desk, st, work, posted, hand, window, disk, count>>

ConflictToggle(row, side) ==
    /\ Person /\ page.step = 6
    /\ page' = [page EXCEPT !.rows[row] = IF @ = side THEN 0 ELSE side]
    /\ UNCHANGED <<desk, st, work, posted, hand, window, disk, count>>

ConflictHeaderToggle(side) ==
    /\ Person /\ page.step = 6
    /\ page' = [page EXCEPT !.rows = [r \in Rows |-> IF \A q \in Rows : page.rows[q] = side
                                                     THEN 0 ELSE side]]
    /\ UNCHANGED <<desk, st, work, posted, hand, window, disk, count>>

\* A mutant: the page stays on the question answered.
DecideStays(accepted) ==
    /\ Person /\ page.step \in {5, 6}
    /\ accepted => IF page.step = 5 THEN page.choice > 0 ELSE \A r \in Rows : page.rows[r] > 0
    /\ hand' = IF st.slot = 0 THEN NoHand
               ELSE [question |-> st.slot, answer |-> <<page.question, accepted>>]
    /\ st' = [st EXCEPT !.slot = 0]
    /\ page' = [page EXCEPT !.busy = TRUE]
    /\ UNCHANGED <<desk, work, posted, window, disk, count>>

\* decide, decide_conflicts: the sender is taken, the page goes back; the answer is sent after.
Decide(accepted) ==
    /\ Person /\ page.step \in {5, 6}
    /\ accepted => IF page.step = 5 THEN page.choice > 0 ELSE \A r \in Rows : page.rows[r] > 0
    /\ hand' = IF st.slot = 0 THEN NoHand
               ELSE [question |-> st.slot, answer |-> <<page.question, accepted>>]
    /\ st' = [st EXCEPT !.slot = 0]
    /\ page' = [page EXCEPT !.step = page.back, !.busy = TRUE]
    /\ UNCHANGED <<desk, work, posted, window, disk, count>>

\* The send, once the sender was taken: to the worker that waits, into a channel nobody reads any
\* more, or to no receiver at all, and the run fails.
Send ==
    /\ window = "open" /\ hand # NoHand /\ hand' = NoHand
    /\ IF work.question = hand.question
       THEN work' = [work EXCEPT !.mail = hand.answer] /\ UNCHANGED posted
       ELSE Post(<<[do |-> "expired"]>>) /\ UNCHANGED work
    /\ UNCHANGED <<desk, page, st, window, disk, count>>

\* The close button (close_requested): refused under a Held; said once while a Runtime started
\* here may run on.  A window let go though a worker is held is `letGo` (history).
Goes == window' = IF Guarded THEN "letGo" ELSE "closing"

\* A mutant: the close button asks nobody.
CloseAnyway ==
    Loop /\ Goes /\ UNCHANGED <<desk, page, st, work, posted, hand, disk, count>>

CloseRequested ==
    /\ Loop /\ ~Guarded
    /\ IF st.started /\ ~st.settled /\ ~st.closeWarned /\ ~page.failed
       THEN st' = [st EXCEPT !.closeWarned = TRUE] /\ UNCHANGED window
       ELSE Goes /\ UNCHANGED st
    /\ UNCHANGED <<desk, page, work, posted, hand, disk, count>>

\* The buttons Close of the failure page and Done of the finish page.
CloseWizard ==
    /\ Loop /\ (page.failed \/ page.step = 4)
    /\ Goes
    /\ UNCHANGED <<desk, page, st, work, posted, hand, disk, count>>

OpenConsole ==
    /\ Person /\ page.step = 4
    /\ \/ Goes /\ UNCHANGED <<st, count>>
       \/ Spend(1) /\ st' = [st EXCEPT !.lost = TRUE] /\ UNCHANGED window
    /\ UNCHANGED <<desk, page, work, posted, hand, disk>>

\* The event loop has ended: the process goes, its worker with it.
Leaves ==
    /\ window \in {"closing", "letGo"} /\ window' = "gone"
    /\ UNCHANGED <<desk, page, st, work, posted, hand, disk, count>>

----------------------------------------------------------------------------
(* The closures a worker left, run by the event loop in their order. *)

Rest(p) == [p EXCEPT !.busy = FALSE]
Shows(p) == page' = p /\ UNCHANGED <<st, work, count>>

Land ==
    /\ Loop /\ posted # <<>>
    /\ LET c == Head(posted)
       IN \/ /\ c.do \in {"failed", "expired"}
             /\ Shows(FailedPage(page)) /\ posted' = Tail(posted)
          \/ /\ c.do = "show"
             /\ Shows([page EXCEPT !.back = page.step, !.step = c.step, !.question = c.question,
                                   !.choice = 0, !.rows = [r \in Rows |-> 0]])
             /\ posted' = Tail(posted)
          \/ /\ c.do = "hide"
             /\ Shows(IF page.step = c.step THEN [page EXCEPT !.step = page.back] ELSE page)
             /\ posted' = Tail(posted)
          \/ /\ c.do = "looked"
             /\ LET judged == IF page.offline THEN page ELSE Confirmed(page, Note(c.release))
                    found == c.release # NoRelease
                IN Shows([Rest(judged) EXCEPT !.canNext = found \/ page.offline,
                                              !.releaseFailed = ~found])
             /\ posted' = Tail(posted)
          \/ /\ c.do = "installed"
             /\ Shows(IF Upgrading THEN Finish(Rest(page))
                      ELSE [Rest(page) EXCEPT !.step = 2, !.canNext = TRUE])
             /\ posted' = Tail(posted)
          \/ /\ c.do = "discovered"
             /\ \E ready \in BOOLEAN :
                   Shows([Rest(page) EXCEPT !.discovered = TRUE, !.ready = ready])
             /\ posted' = Tail(posted)
          \/ /\ c.do \in {"notDone", "bundleAdded"}
             /\ Shows(Rest(page)) /\ posted' = Tail(posted)
          \/ /\ c.do = "finished"
             /\ Shows(Finish(Rest(page))) /\ posted' = Tail(posted)
    /\ UNCHANGED <<desk, hand, window, disk>>

\* The closures that begin the next worker.
LandAndBegin ==
    /\ Loop /\ posted # <<>>
    /\ \/ /\ Head(posted).do = "optionsDone"
          /\ BeginDiscover([Rest(page) EXCEPT !.step = 3, !.canNext = TRUE], Tail(posted))
       \/ Head(posted).do = "applied" /\ SettleAndFinish(page, Tail(posted))
    /\ UNCHANGED <<desk, hand, window, disk>>

----------------------------------------------------------------------------
(* The worker: what a phase changes, and where a fault leads. *)

Alive == window # "gone" /\ work.job # "none"

\* What a phase that ends well has changed.
Changed(d) ==
    LET at == work.at
    IN CASE at = "lay" -> [d EXCEPT !.program = "half"]
         [] at = "configure" -> [d EXCEPT !.program = "new", !.config = "new"]
         [] at = "place" /\ work.job = "install" -> [d EXCEPT !.program = "half"]
         [] at = "place" /\ work.job # "install" -> [d EXCEPT !.packs = TRUE]
         [] at = "switch" /\ work.job = "install" -> [d EXCEPT !.program = "new", !.config = "new"]
         [] at = "switch" /\ work.job # "install" -> [d EXCEPT !.config = "new"]
         [] at \in {"start", "restart"} -> [d EXCEPT !.runtime = TRUE]
         [] at = "stop" -> [d EXCEPT !.runtime = FALSE]
         [] OTHER -> d

\* What one failing or panicking midway midway may have left.
Midway(d) ==
    {d, Changed(d)} \cup
    (IF work.at \in {"switch", "start", "restart"}
     THEN {[d EXCEPT !.runtime = FALSE], [Changed(d) EXCEPT !.runtime = FALSE]} ELSE {})

\* The phases with an action of their own.
Special == Files \cup {"look", "ask", "resolve", "back", "keep", "pin", "bundles", "read",
                       "settle", "told", "restart", "restore", "retry", "clean", "wait", "over"}

Moves(at) == work' = [work EXCEPT !.at = at]

\* The phase an error leads to; a lock refused, a restart failed and a lost question end the run.
ErrorTo ==
    CASE work.job = "install" -> "clean"
      [] work.job = "resources" -> "clean"
      [] work.job = "options" -> "keep"
      [] work.job = "discover" -> "bundles"
      [] work.job = "instances" -> IF work.at \in {"place", "switch"} THEN "restore" ELSE "clean"
Stops(why) == work' = [work EXCEPT !.at = ErrorTo, !.why = why]

\* A fault of a phase: an error, or its line of the log lost.
Faults(why) ==
    /\ Spend(1) /\ why \in {"error", "lost"}
    /\ st' = [st EXCEPT !.lost = @ \/ why = "lost"]

\* A phase that ends well: a start that ended well is remembered.
Works ==
    /\ Alive /\ work.at \notin Special
    /\ Moves(After(work.job, work.at))
    /\ disk' = Changed(disk)
    /\ st' = [st EXCEPT !.started = @ \/ work.at = "start"]
    /\ UNCHANGED <<desk, page, posted, hand, window, count>>

\* One that fails; a selection switched before the error may or may not be in the transaction's
\* hands (Transaction::commit).
Breaks ==
    /\ Alive /\ work.at \notin Special \cup {"begin", "lock"}
    /\ disk' \in Midway(disk)
    /\ \E why \in {"error", "lost"}, kept \in BOOLEAN :
          /\ kept => work.at = "switch" /\ disk'.config # disk.config
          /\ Faults(why)
          /\ work' = [work EXCEPT !.at = ErrorTo, !.why = why, !.kept = kept]
    /\ UNCHANGED <<desk, page, posted, hand, window>>

LockRefused ==
    /\ Alive /\ work.at = "lock"
    /\ \E why \in {"error", "lost"} : Faults(why)
    /\ EndsWith(<<Failed>>)
    /\ UNCHANGED <<desk, page, hand, window, disk>>

\* A mutant: a panic nobody guards.
PanicsUnseen ==
    /\ Alive /\ work.at \notin {"wait", "over"} /\ Spend(1)
    /\ disk' \in Midway(disk)
    /\ EndsWith(<<>>)
    /\ UNCHANGED <<desk, page, st, hand, window>>

\* A panic anywhere: the Held is dropped, then the PanicGuard fails the run.
Panics ==
    /\ Alive /\ work.at \notin {"wait", "over"} /\ Spend(1)
    /\ disk' \in Midway(disk)
    /\ EndsWith(<<Failed>>)
    /\ UNCHANGED <<desk, page, st, hand, window>>

\* find_release: a release found, or none; the line lost fails the run.
Look ==
    /\ Alive /\ work.at = "look"
    /\ \/ \E release \in desk.online :
             /\ st' = [st EXCEPT !.release = release]
             /\ EndsWith(<<[do |-> "looked", release |-> release]>>)
             /\ UNCHANGED count
       \/ Faults("lost") /\ EndsWith(<<Failed>>)
    /\ UNCHANGED <<desk, page, hand, window, disk>>

----------------------------------------------------------------------------
(* ask, resolve_page: the worker leaves its sender, shows its question and  *)
(* waits half an hour for the answer.                                       *)

Asks(step) ==
    LET q == count.asked + 1
    IN /\ count' = [count EXCEPT !.asked = q]
       /\ st' = [st EXCEPT !.slot = q]
       /\ work' = [work EXCEPT !.at = "wait", !.question = q]
       /\ Post(<<[do |-> "show", step |-> step, question |-> q]>>)

Ask ==
    /\ Alive /\ work.at = "ask"
    /\ IF work.left > 0 THEN Asks(5)
       ELSE Moves("resolve") /\ UNCHANGED <<st, posted, count>>
    /\ UNCHANGED <<desk, page, hand, window, disk>>

Resolve ==
    /\ Alive /\ work.at = "resolve"
    /\ IF desk.rows > 0 THEN Asks(6)
       ELSE Moves(After(work.job, "resolve")) /\ UNCHANGED <<st, posted, count>>
    /\ UNCHANGED <<desk, page, hand, window, disk>>

\* The associations are asked before the conflicts.
StepAsked == IF work.left > 0 THEN 5 ELSE 6
Answered == [work EXCEPT !.question = 0, !.mail = <<>>]

\* The answer read: Cancel is the run's error, as an expired question is.
Receive ==
    /\ Alive /\ work.at = "wait" /\ work.mail # <<>>
    /\ st' = [st EXCEPT !.slot = 0]
    /\ Post(<<[do |-> "hide", step |-> StepAsked]>>)
    /\ work' = IF ~work.mail[2] THEN [Answered EXCEPT !.at = ErrorTo, !.why = "cancelled"]
               ELSE IF StepAsked = 5 THEN [Answered EXCEPT !.at = "ask", !.left = @ - 1]
               ELSE [Answered EXCEPT !.at = After(work.job, "resolve")]
    /\ UNCHANGED <<desk, page, hand, window, disk, count>>

\* recv_timeout gives up, and only then is the sender's place cleared and the receiver dropped.
TimesOut ==
    /\ Alive /\ work.at = "wait" /\ work.mail = <<>>
    /\ work' = [work EXCEPT !.at = "over", !.why = "expired"]
    /\ UNCHANGED <<desk, page, st, posted, hand, window, disk, count>>

Expire ==
    /\ Alive /\ work.at = "over"
    /\ st' = [st EXCEPT !.slot = 0]
    /\ Post(<<[do |-> "hide", step |-> StepAsked]>>)
    /\ work' = [Answered EXCEPT !.at = ErrorTo]
    /\ UNCHANGED <<desk, page, hand, window, disk, count>>

----------------------------------------------------------------------------
(* The options: what an earlier attempt wrote goes first, then the options  *)
(* as ticked.  A file of the wizard's is "ours", one it left half written   *)
(* "stub"; one that was there before is "theirs".                           *)

Removed(files) == [disk EXCEPT !.files = [f \in Files |-> IF f \in files THEN "none" ELSE @[f]]]

\* take_back: all of them, or those before the one that cannot be removed.
TakeBack ==
    /\ Alive /\ work.at = "back"
    /\ \/ Moves("launcher") /\ disk' = Removed(st.written) /\ UNCHANGED <<st, count>>
       \/ \E why \in {"error", "lost"}, files \in SUBSET st.written :
             Faults(why) /\ Stops(why) /\ disk' = Removed(files)
    /\ UNCHANGED <<desk, page, posted, hand, window>>

\* autostart, shortcuts: a file asked for is written over what is there; one not asked for is
\* left alone.
WriteOption ==
    /\ Alive /\ work.at \in Files
    /\ LET f == work.at
           next == After("options", f)
           puts(content) == disk' = [disk EXCEPT !.files[f] = content]
       IN \/ f \in work.ticks /\ puts("ours") /\ UNCHANGED <<st, count>>
             /\ work' = [work EXCEPT !.at = next, !.written = @ \cup {f}]
          \/ f \in work.ticks /\ puts("ours") /\ Faults("lost")
             /\ work' = [work EXCEPT !.at = "keep", !.why = "lost", !.written = @ \cup {f}]
          \/ f \in work.ticks /\ (puts("stub") \/ UNCHANGED disk) /\ Faults("error") /\ Stops("error")
          \/ f \notin work.ticks /\ Moves(next) /\ UNCHANGED <<disk, st, count>>
          \/ f \notin work.ticks /\ Faults("lost") /\ Stops("lost") /\ UNCHANGED disk
    /\ UNCHANGED <<desk, page, posted, hand, window>>

\* What a retry takes back: what still exists of an earlier attempt's, and this one's.
KeepOptions ==
    /\ Alive /\ work.at = "keep"
    /\ st' = [st EXCEPT !.written = {f \in @ : disk.files[f] # "none"} \cup work.written]
    /\ IF work.why = "ok"
       THEN EndsWith(<<[do |-> "optionsDone"]>>) /\ UNCHANGED count
       ELSE work' = [work EXCEPT !.at = "retry"] /\ UNCHANGED <<posted, count>>
    /\ UNCHANGED <<desk, page, hand, window, disk>>

----------------------------------------------------------------------------
(* The rest of the instances page's jobs, and the ends of the others. *)

\* start: the folder found is pinned, unless it is already.
Pin ==
    /\ Alive /\ work.at = "pin"
    /\ \/ Moves("start") /\ disk' \in {disk, [disk EXCEPT !.config = "pinned"]} /\ UNCHANGED <<st, count>>
       \/ \E why \in {"error", "lost"} :
             Faults(why) /\ Stops(why) /\ disk' \in {disk, [disk EXCEPT !.config = "pinned"]}
    /\ UNCHANGED <<desk, page, posted, hand, window>>

\* The release's bundles are read once, whatever came of the discovery.  One that cannot be read is
\* warned of, as is a line lost while they are read; only a warning lost fails the run.
ReadBundles ==
    /\ Alive /\ work.at = "bundles"
    /\ LET goesOn == IF work.why = "ok" THEN EndsWith(<<[do |-> "discovered"]>>)
                     ELSE work' = [work EXCEPT !.at = "retry"] /\ UNCHANGED posted
       IN \/ /\ st' = [st EXCEPT !.bundlesRead = TRUE]
             /\ UNCHANGED count
             /\ goesOn
          \/ /\ ~st.bundlesRead
             /\ \E lost \in BOOLEAN :
                   st' = [st EXCEPT !.bundlesRead = TRUE, !.problems = TRUE, !.lost = @ \/ lost]
             /\ Spend(1)
             /\ goesOn
          \/ /\ ~st.bundlesRead
             /\ st' = [st EXCEPT !.bundlesRead = TRUE, !.lost = TRUE]
             /\ Spend(1)
             /\ EndsWith(<<Failed>>)
    /\ UNCHANGED <<desk, page, hand, window, disk>>

\* begin_add_bundle: unreadable, of a game offered already, or offered from here on.
ReadBundle ==
    /\ Alive /\ work.at = "read"
    /\ \/ EndsWith(<<[do |-> "bundleAdded"]>>) /\ UNCHANGED <<st, count>>
       \/ work' = [work EXCEPT !.at = "retry", !.why = "refused"] /\ UNCHANGED <<st, posted, count>>
       \/ Faults("lost") /\ work' = [work EXCEPT !.at = "retry", !.why = "lost"] /\ UNCHANGED posted
    /\ UNCHANGED <<desk, page, hand, window, disk>>

\* retryable: logged and said on the page; a line lost, now or before, fails the run instead.
Retry ==
    /\ Alive /\ work.at = "retry"
    /\ Retryable
    /\ UNCHANGED <<desk, page, hand, window, disk>>

\* Transaction::restore: the selection put back when the transaction holds it, else the old
\* file compared, which is what it was.  A failure leaves the configuration as it is.
Restore ==
    /\ Alive /\ work.at = "restore"
    /\ \/ /\ disk' = IF work.kept THEN [disk EXCEPT !.config = work.was.config] ELSE disk
          /\ Moves("clean") /\ UNCHANGED <<st, count>>
       \/ /\ work' = [work EXCEPT !.at = "clean", !.why = "torn"]
          /\ Faults("error") /\ UNCHANGED disk
    /\ UNCHANGED <<desk, page, posted, hand, window>>

\* The run's own staging goes, whatever its outcome; then it goes on, may be tried again, or failed.
Clean ==
    /\ Alive /\ work.at = "clean"
    /\ \/ /\ UNCHANGED count
          /\ CASE work.why = "ok" /\ work.job = "instances" ->
                    Moves("restart") /\ UNCHANGED <<st, posted>>
               [] work.why = "ok" /\ work.job # "instances" ->
                    /\ st' = [st EXCEPT !.laidOut = TRUE]
                    /\ EndsWith(<<[do |-> IF work.job = "install" THEN "installed" ELSE "finished"]>>)
               [] work.job = "instances" /\ work.why \notin {"ok", "torn"} ->
                    Moves("retry") /\ UNCHANGED <<st, posted>>
               [] OTHER -> EndsWith(<<Failed>>) /\ UNCHANGED st
       \/ Faults("lost") /\ EndsWith(<<Failed>>)
    /\ UNCHANGED <<desk, page, hand, window, disk>>

\* restart: the Runtime on the configuration committed, or it is not confirmed and the run fails.
Restart ==
    /\ Alive /\ work.at = "restart"
    /\ \/ /\ disk' = Changed(disk) /\ st' = [st EXCEPT !.started = TRUE]
          /\ EndsWith(<<[do |-> "applied"]>>) /\ UNCHANGED count
       \/ /\ disk' \in Midway(disk)
          /\ \E why \in {"error", "lost"} : Faults(why)
          /\ EndsWith(<<Failed>>)
    /\ UNCHANGED <<desk, page, hand, window>>

\* settle: how the Runtime stands; a line lost on the way stops the run even when it is told.
Settle ==
    /\ Alive /\ work.at = "settle"
    /\ \/ UNCHANGED <<st, count>> /\ Moves("told")
       \/ Faults("lost") /\ Moves("told")
       \/ Faults("error") /\ work' = [work EXCEPT !.at = "told", !.why = "error"]
    /\ UNCHANGED <<desk, page, posted, hand, window, disk>>

Told ==
    /\ Alive /\ work.at = "told"
    /\ IF work.why # "ok" \/ st.lost
       THEN EndsWith(<<Failed>>) /\ UNCHANGED st
       ELSE st' = [st EXCEPT !.settled = TRUE] /\ EndsWith(<<[do |-> "finished"]>>)
    /\ UNCHANGED <<desk, page, hand, window, disk, count>>

----------------------------------------------------------------------------

Init ==
    /\ desk \in Desks
    /\ page = [step |-> 0, back |-> 0, busy |-> FALSE, canNext |-> TRUE, failed |-> FALSE,
               installing |-> FALSE, offline |-> FALSE, releaseFailed |-> FALSE,
               folder |-> NoRelease, downgradeNote |-> NoRelease, downgradeOk |-> FALSE,
               sworn |-> NoRelease, ticks |-> {"menu"}, discovered |-> FALSE, ready |-> FALSE,
               question |-> 0, choice |-> 0, rows |-> [r \in Rows |-> 0]]
    /\ st = [lost |-> FALSE, release |-> NoRelease, laidOut |-> FALSE, discoverTried |-> FALSE,
             started |-> FALSE, settled |-> FALSE, closeWarned |-> FALSE, problems |-> FALSE,
             bundlesRead |-> FALSE, written |-> {}, slot |-> 0]
    /\ work = NoWork /\ posted = <<>> /\ hand = NoHand /\ window = "open"
    /\ disk = [program |-> IF desk.kind = "fresh" THEN "none" ELSE "old",
               config |-> IF desk.kind = "fresh" THEN "none" ELSE "old", packs |-> FALSE,
               files |-> [f \in Files |-> IF f \in desk.before THEN "theirs" ELSE "none"],
               runtime |-> desk.kind # "fresh"]
    /\ count = [mishaps |-> 0, asked |-> 0, begun |-> 0]

Presses ==
    \/ NextPressed \/ RetryRelease \/ Discover \/ AddBundle \/ SkipInstances \/ Edits
    \/ \E choice \in 1 .. 2 : Choose(choice)
    \/ \E row \in Rows, side \in 1 .. 2 : ConflictToggle(row, side)
    \/ \E side \in 1 .. 2 : ConflictHeaderToggle(side)
    \/ \E accepted \in BOOLEAN : Decide(accepted)
    \/ CloseRequested \/ CloseWizard \/ OpenConsole

LoopSteps == Send \/ Land \/ LandAndBegin
WorkerSteps ==
    \/ Works \/ Breaks \/ LockRefused \/ Panics \/ Look \/ Ask \/ Resolve \/ Receive \/ TimesOut
    \/ Expire \/ TakeBack \/ WriteOption \/ KeepOptions \/ Pin \/ ReadBundles \/ ReadBundle \/ Retry
    \/ Restore \/ Clean \/ Restart \/ Settle \/ Told

Next == Presses \/ LoopSteps \/ Leaves \/ WorkerSteps
Spec == Init /\ [][Next]_vars

\* The event loop runs what is posted, a worker's phases end, and its half hour passes.
FairSpec == Spec /\ WF_vars(LoopSteps) /\ WF_vars(WorkerSteps)

----------------------------------------------------------------------------
(* What the wizard promises. *)

Releases == Older \cup Newer \cup {NoRelease}
Pages == [step : 0 .. 7, back : 0 .. 7, busy : BOOLEAN, canNext : BOOLEAN, failed : BOOLEAN,
          installing : BOOLEAN, offline : BOOLEAN, releaseFailed : BOOLEAN, folder : Releases,
          downgradeNote : Releases, downgradeOk : BOOLEAN, sworn : Releases, ticks : SUBSET Files,
          discovered : BOOLEAN, ready : BOOLEAN, question : Nat, choice : 0 .. 2,
          rows : [Rows -> 0 .. 2]]
States == [lost : BOOLEAN, release : Releases, laidOut : BOOLEAN, discoverTried : BOOLEAN,
           started : BOOLEAN, settled : BOOLEAN, closeWarned : BOOLEAN, problems : BOOLEAN,
           bundlesRead : BOOLEAN, written : SUBSET Files, slot : Nat]
Disks == [program : {"none", "old", "half", "new"}, config : {"none", "old", "pinned", "new"},
          packs : BOOLEAN, files : [Files -> {"none", "theirs", "stub", "ours"}], runtime : BOOLEAN]
Stages(job) ==
    CASE job = "install" -> Range(InstallPhases) \cup (IF Upgrading THEN {"wait", "over"} ELSE {})
      [] job = "resources" -> Range(ResourcesPhases) \cup {"wait", "over"}
      [] job = "options" -> Range(OptionsPhases) \cup {"retry"}
      [] job = "discover" -> Range(DiscoverPhases) \cup {"retry"}
      [] job = "instances" -> Range(InstancesPhases) \cup {"wait", "over", "restore", "retry"}
      [] job = "release" -> {"begin", "look"}
      [] job = "bundle" -> {"begin", "read", "retry"}
      [] job = "settle" -> {"begin", "settle", "told"}
      [] job = "none" -> {"none"}
Phases == {"none", "begin", "fetch", "verify", "agree", "lay", "configure", "lock", "check", "prepare",
           "plan", "ask", "resolve", "wait", "over", "stop", "place", "switch", "clean", "restart",
           "restore", "retry", "back", "launcher", "menu", "desktop", "keep", "pin", "start", "list",
           "bundles", "look", "read", "settle", "told"}
Whys == {"ok", "error", "lost", "refused", "torn", "cancelled", "expired"}
Answers == {<<>>} \cup (Nat \X BOOLEAN)
Workers == [job : Jobs \cup {"none"}, at : Phases, question : Nat, mail : Answers, left : Nat,
            why : Whys, release : Releases, ticks : SUBSET Files, written : SUBSET Files,
            kept : BOOLEAN, was : Disks \cup {<<>>}]
Closures == [do : {"failed", "expired", "notDone", "installed", "discovered", "bundleAdded",
                   "finished", "optionsDone", "applied"}]
            \cup [do : {"show"}, step : {5, 6}, question : Nat] \cup [do : {"hide"}, step : {5, 6}]
            \cup [do : {"looked"}, release : Releases]

Counts == [mishaps : Nat, asked : Nat, begun : Nat]
Hands == [question : Nat, answer : Answers]

\* Every variable has its type, and a worker is in a phase of its job.
TypeOK ==
    /\ desk \in Desks /\ page \in Pages /\ st \in States
    /\ work \in Workers
    /\ \A job \in Jobs \cup {"none"} : work.job = job => work.at \in Stages(job)
    /\ posted \in Seq(Closures) /\ hand \in Hands
    /\ window \in {"open", "closing", "letGo", "gone"} /\ disk \in Disks
    /\ count \in Counts

\* An answer the worker takes was given on the page of the question it asked (decide: "one
\* explicit resource association").
AnswerIsOfItsQuestion == work.mail # <<>> => work.mail[1] = work.question

\* A window that goes while a worker holds it open goes only from the failure page, and the
\* worker has then given up: nothing it was still to change is cut off.
LetGoOnlyWhenGivenUp ==
    window = "letGo" => page.failed /\ (work.job = "none" \/ work.why # "ok")

\* A plan cancelled, or left half an hour, has changed nothing: the programs, the configuration,
\* the resources and the Runtime are as they were when the button was pressed (setup.slint:
\* "Cancel drops this configuration plan and leaves the installation as it is").
CancelChangesNothing == work.why \in {"cancelled", "expired"} => disk = work.was

\* Nothing goes on after a line of the log was lost (State.log_error): no worker that installs,
\* updates or configures does, and once it is done and its closures are run the page is the failure
\* page.  One loss stops nothing by itself: a line lost while the release's bundles are read leaves
\* the instances page, with the bundles' problems on it, where Apply is refused.
Settled == work.job = "none" /\ posted = <<>> /\ hand = NoHand
LostLineStops ==
    st.lost =>
        /\ work.job \notin {"none", "discover", "bundle", "settle"} => work.why # "ok"
        /\ Settled /\ page.step # 4 => page.failed \/ (page.step = 3 /\ st.problems)

\* An older release goes over an installed one only when the person ticked the box under that
\* very release's note.
DowngradeConfirmed ==
    work.job = "install" /\ Note(work.release) # NoRelease => page.sworn = work.release

\* A retry of the options starts from what was there before this run (apply_options): a file that
\* was there is there still.
RetryStartsFromBefore == work.at = "launcher" => \A f \in desk.before : disk.files[f] # "none"

\* A page left busy comes back, fails or finishes: no answer lost, no panic and no question left
\* alone keeps it busy for good.
PageComesBack == page.busy /\ window = "open" ~> ~page.busy \/ window # "open"
=============================================================================
