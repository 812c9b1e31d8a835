# ActingCommand UI: a verification development

TLA+ models of the parts of ActingCommand UI where steps of several actors can
meet in an order nobody wrote a test for, the TLC runs that check them on small
instances, and proofs checked by TLAPS for every value of the constants.
`PROJECT.json` maps each definition to the lines it stands for.

Contents: the system; the modules; the runs, their bounds and fairness; the
proofs; where the code and its documents disagree; what is not modelled.

## The system

The repository has two programs and an installer.

* The **console** (`crates/acui-app`, with `acui-source`, `acui-model`,
  `acui-rows`): a Slint event loop with windows that talk to a *Runtime* (another
  program) over local connections. A ledger window shows the Runtime's event
  ledger; the workbench shows and changes instances, accounts and settings; the
  launcher starts and watches the Runtime.
* The **model tool** (`model/src/acmodel`, Python): runs engines in worker
  processes, caches their results, watches a model's files, and computes plans.
* The **setup** (`crates/acui-setup`, `acui-installation`): a wizard that installs
  generations side by side, selects one, rolls back, and upgrades tools at the
  root.

### Components

| Component | State it keeps | Operations | What is hard | What makes it correct |
|---|---|---|---|---|
| Ledger view model (`acui-model/src/lib.rs`) | filters, bound, pin, upper end, loaded windows, width | begin, next window down, apply, next newer, set pin | window arithmetic at the ledger's ends; windows landing after a restart | the windows are contiguous and read once |
| Ledger window (`acui-app/src/ledger/mod.rs`, `state.rs`) | session, generation, phase, busy, effects, three timers | tab, filter, cursor, read earlier, jump, follow, reopen, close | every control races the reader; superseded requests; timers that fire late | rows are those of the controls; nothing of an old session shows |
| Ledger reader thread (`ledger/worker.rs`) | its face, its queue, the read that stopped following | reload, earlier, jump, follow, tick, refresh, reread | lock released during each read; a panic mid request | it leaves only what is current; every request ends |
| Frame pane (`ledger/frame.rs`) | request, generation, material reader | request, clear, read, rebuild | slow reads; a superseded read that finds the connection dead | it shows the frame it asked for |
| Conditional resume (`ledger/resume.rs`) | confirming, flight | ask, confirm, settle, reread, reopen | lost receipts; lines that move between two presses | it lifts the pause confirmed, at most once |
| Online read face (`acui-source/src/lib.rs`) | three connections, owner epoch | open, pin, query, poll, material, reconnect | Runtime restarts between any two calls; retry after a timeout | all answers are of one Runtime |
| Launcher (`launcher.rs`) | newest probe, starting, shutting down, unlocking | probe, start, unlock, shutdown | a late probe over a newer one; start while unlocking; closing under an unlock | an unlock runs alone; a line ends with its request |
| Workbench reads (`workbench/read.rs`, `tools.rs`, `mod.rs`, `model.rs`) | two lanes, an asked queue, the owner epoch, write generations | begin, ask, post, take, let go, show and hide | a read and a write in flight; a restart between two landings | a value shown is of the Runtime shown and of every write known |
| Workbench actions (`workbench/actions.rs`) | a ticket and a state per control | press, send, answer, confirm by a later read | lost answers, other programs' changes, two keys of one setting | nothing is said not done that was; every write ends |
| Workbench preview (`workbench/preview.rs`, `picture.rs`, `refresh.rs`) | generation, known newest, marks, overlay | follow, look up, poll, read, refresh | orders cross posts; the newest frame may be known and not readable | the picture is its account's; the newest shows |
| Device operations (`workbench/rescue.rs`) | a slot and a cooldown per device, a question | press, confirm, settle, take back | an answer lost; a restart while a thread runs; a question that outlives its ground | one work out of a device; a destructive one as asked |
| Setup generations, root tools, lifecycle (`acui-setup/generations.rs`, `maintenance.rs`, `install.rs`, `lifecycle.rs`, `migrate.rs`) | selection, generation files, slots, root tools, a Host transition | acquire, prepare, commit, restore, rollback, drain, start | a crash between any two file operations; a Runtime started meanwhile | a selection always loads; what is said restored is |
| Setup wizard (`acui-setup/main.rs`) | page, worker, question, log | install, retry, look up, ask, close | closing under a worker; answers that come late; a log line lost | a worker's answer is its question's; a cancelled plan changes nothing |
| Engine pool (`engine/pool.py`, `worker.py`) | workers, batches, restarts | warm, call, verify, close | processes that die or hang at any step | each request one outcome |
| Model watcher (`watch/`) | what it saw, the window, watch.json, candidates | scan, refresh, stage, save, restart | a write between any two reads; a crash between stage and save | a change is never lost |
| Model cache (`cache/`) | index, blobs | begin, get, put, evict, gc | two processes; a crash between blob and trace | what is reused is what would be computed |
| Host gate (`host/gate.py`) | held or not | check | start and hold thresholds | part of the watch |
| Algorithms (`core/`, `expr/`, `check/`, `export/`) | none | flow, search, graph, intervals, thresholds | numeric edges | they meet their definition (not modelled) |
| Rows, overlays, strings, skin, glass | none | projections, wording, window decoration | none a model checker reaches | unit tests |

The parts talk as follows. The event loop never blocks: a control changes the
window's state under its lock and hands a request, tagged with session and
generation, to the reader thread (a channel). The reader takes the lock only
between reads, compares the tag, leaves rows and effects in the state and hands
the event loop a repaint. Workbench reads, writes, pictures, frame workers and
resume threads hand their results to the event loop as closures, which run in
the order they were posted. The pool talks to each worker over one connection
with at most one batch in it. Two acsetup processes meet at the writer lock; the
console, acsetup and the Runtime meet in the installation's files and in the
Host's transition. The Runtime, its client library, the operating system and
Slint are external.

## Modules

| Module | Models | State and actions against the code |
|---|---|---|
| `ViewModel` | the arithmetic of the view model as operators on a record | `Begin`, `NextWindow`, `ApplyWindow`, `NextNewerWindow`, `ApplyNewerWindow`, `SetPin` are the methods of those names. Pages of one window are merged |
| `LedgerWindow` | a ledger window with the reader threads of its sessions; composes `ViewModel` | an action per control, timer and repaint; on the reader, an action for what it does from one take of the lock to just before the next, with `pc` naming what comes next |
| `TimeBound` | `upper_for_time`, `checked_upper`: where a view under a time bound starts | one action per probe; all ledgers of a size, in any order of times |
| `FrameSlot` | the frame pane, its workers, the material connection and its rebuild | `Painted` is what every paint does (`update_frame`); a worker waits for the slot, reads, and hands over; `handed` is the event loop's queue |
| `Resume` | the conditional resume with the status reread | `Ask`, `Confirm`, `Settle`, `Reopen`, `Painted` are the handlers and `resume::paint`; the thread of a press sends once |
| `OnlineSource` | the connections of an online face and the one retry | `Reconnected` is `reconnect`, `Ask`/`Backoff` are `exchange`, `Called` is the call with the mark a fatal failure leaves |
| `Launcher` | start, shutdown, unlock, the lamp, the close that waits for an unlock | one action per thread step; `posts` is the event loop's queue of words, `Take` what the loop does with one |
| `Reads` | the reading threads, the tools thread, what the loop takes and lets go, the start report's tries | `BeginRead`, `AskRead`, `PostRead` are a lane's steps, `Land` the loop's, `written` counts writes whose answers landed |
| `Writes` | presets, numbers, switches of backends, rules, pauses, from press to confirmation | one call record per press; `Land...` per kind of answer; the readings that settle a call are `ReadStep`s; a request of any kind whose sender gave it up may still come to the Runtime (`Fail`, `ComeLate`) |
| `Preview` | the picture thread, its orders, lookups, polls, reads, a person's refresh | the thread's steps between two exchanges, `Land` per kind of post; a frame is its record's position |
| `Device` | operations, refreshes and switches of a device and the question before the destructive ones | `slots`, `pictures`, `switch` are the three places that make a device busy; `Operate`, `LandWork` a work's thread and answer |
| `Lifecycle` | closing and starting a Runtime and the Host's transition | the calls of lifecycle.rs, each of which may be lost before or after it was taken |
| `Install` | acsetup's transactions on one root; extends `Lifecycle` | a transaction is a list of stages; each stage is one step that may succeed, fail, or be the last the process ran; `Undo...` takes back what was placed |
| `Wizard` | the setup window | pages and workers; a worker runs the script of its job, a phase a step; `handed` closures are the loop's |
| `EngineCall` | what a pool call promises: each request one outcome that stays | the abstract specification |
| `EnginePool` | the pool's loop and its worker processes | one action per pass of a loop of `_run` or worker handled in it; `Raised` is `close` and the exception; implements `EngineCall` (`ImplementsCalls`) |
| `Watch` | `acmodel watch` | one action per file scanned, loaded, staged; the end of the process anywhere |
| `Cache` | runs on one index and one folder of blobs | a run's steps per node and per blob; a commit of the index is one step |
| `LedgerWindow_proofs`, `WindowParts_proofs`, `ReadsAndResume_proofs`, `Preview_proofs`, `Writes_proofs`, `Install_proofs`, `Wizard_proofs`, `ModelTool_proofs` | the proofs | `WindowParts_proofs`: `OnlineSource`, `TimeBound`, `FrameSlot`, `Launcher`, `Device`. `ModelTool_proofs`: `EnginePool`, `Cache`, `Watch` |
| `MC...` | instances for TLC | `MCWindowParts` and `MCModelTool` hold several modules, each in behaviours of its own while the others rest |

How the modules fit: a read, poll or repin that fails in `LedgerWindow` is a
fault there; `OnlineSource` models what is behind it. `BeginView` takes any
start up to the pin; `TimeBound` models which. `LedgerWindow` has the effects
`cursor_top` and `follow_halted`, `FrameSlot` has `forget_frame` and `Resume`
the status read again; each effect is with the part that reads it. `Resume`
leaves out the send to a reader that is gone while the window says open:
`OpenWindowHasReader` shows there is none. `Reads` has the queue a workbench
read waits in; `Writes` has one slot for it, and any age of what it brings.
`Device` has a switch of backends only as out or lost; `Writes` has its stages.
`Wizard` takes `Install`'s transactions as phases that succeed or fail.

Abstractions worth knowing:

* A handler of the event loop is one step: it holds the thread (and, in the
  ledger, the lock).
* A ledger is its latest position; rows are the windows they came from. What
  rows say is not modelled, nor the port a scope carries over a reopen. A query
  that is invalid fails as a read does. `NextDown` reads at least one window, as
  a fill does, and may stop after any: density and budget are open.
* The ratio in `upper_for_time` is a float in the code; here it is an integer
  division, which rounds the same way for the sizes checked.
* In `FrameSlot` a reconnect fails at the bound `MaxConnection`.
* In `EnginePool` a deadline passes at any moment at which nothing can be
  received; which worker is recycled is open; `private_mib` of a process that is
  gone may raise.
* `Writes`: a request given up comes to the Runtime it was sent to or never: that
  Runtime's end ends its connections. `runtime.missed` names the requests that
  came after the read that judges them was answered. A `Status` answered during
  a switch's claim wait lands before `switch_wait` passes; a version of the
  settings survives a restart; `PresetGone` and "switch with no target held" are
  left out.
* `Device`: the gate (`halted`) is open; an answer is given or lost, its words
  are left out.
* `Preview`: where the ledger's head stands is left out, but not whether it was
  stated: a target has `stated`, which is not compared (`Target::same`), and a
  line not stated asks nothing (`LookUpNothing`). Paces and gaps, the closed
  gate, capped lookups, evicted and too large frames, failed captures and a
  picture thread that did not start are left out.
* `Wizard`: what the event loop posts to itself lands before the next press; the
  folder's files do not change between the press and the verification; `Older`
  includes releases whose date proves no order; conflict rows on a fresh root
  stand for bindings another program wrote. The `writer.commit` error after the
  rename is the wizard's (`Breaks`, `kept`); in `Install` a commit that fails has
  not selected anything.
* `Watch`: one model file and the snapshot; `debounce_ms` is at least 1, so that a
  window never ends in the poll that opens it. `Cache`: every value has one size;
  `runs/<id>/outputs.json` and rows that do not read are left out.

## Runs

Twelve runs, each a question of its own; three of them show a disagreement of the
code with its documents.

| Run | Bounds | What it asks, and shows |
|---|---|---|
| `ledger_windows` | 2 sessions, 2 filters, 1 time bound, 3 generations, a ledger of 2, windows up to 2 wide, 2 per fill, a queue of 2; opens and threads refused, panics, failed reads, polls and repins; fair | With every control against every step of both readers, are the loaded windows contiguous and read once, has a window that says open a reader, does an old reader leave nothing, does every request end, and does following catch up? Yes |
| `window_parts` | *exchange*: 3 Runtimes, 4 asks. *bound*: every ledger of 5 positions and 3 times, slack 1, 2 probes. *frame*: 2 events, 2 sessions, 4 generations, 2 connections, 1 reload. *launcher*: 4 presses, 1 turn, 2 attempts. *device*: 2 devices, four bars | Are all answers of one Runtime; does the start under a bound leave out nothing that would show; does the pane show what it asked for; does a line that says a request is under way end with it; is one work out of a device, a destructive one only as its question said? Yes |
| `resume_presses` | 2 scopes, 2 pauses, 2 sessions, 2 Runtimes, 2 presses, 4 turns shared by the others; every fault; fair | Does a press lift only what both presses confirmed, go out only on a status read since the last answer, and do the entries come back? Yes |
| `reads_window` | four windows with `Status` and one other read or job, 2 Runtimes, 1 write, 1 ask queued; one lane may be refused; fair | Is what is shown of the Runtime shown and of every write known of, and is a start report read or its tries spent? Yes |
| `writes_desks` | eight desks (top bar, a number, backends, rules of one and of two accounts, quiet times pressed twice, quiet times beside other tools, pausing), two quiet times, each desk with its presses, restarts, versions, other tools' changes and outages; fair | Is nothing said not done that was taken, or is taken later; a rule taken as pressed or not at all, also from rows that are behind; and does every write come back? Yes, but for a request that came only after the read it is judged by |
| `preview_pictures` | eight desks (turning between accounts, back again, a task's marks with 4 records, again, mishaps, a refresh, a refresh and turns, a `Status` that states no head), 2 posts in flight; fair | Is the picture and its marks the account's and the frame's, and does the newest readable frame come to show? Yes, where the thread was given a place to look up from, and of a refreshed frame unless it was ordered otherwise after the offer |
| `preview_offered` | the desk with a refresh and turns | The last without its exception. No: see below |
| `wizard_pages` | five desks (fresh, looking up, upgrade, carried downgrade, resources), up to 2 mishaps, 2 questions, 5 tries; fair | Does an answer reach only its question, the window go only from a worker that gave up, a plan cancelled or expired change nothing, a lost log line stop the run (or, lost while the carried bundles are read, leave the instances page with apply refused), an older release go in only under its own tick, and does a busy page come back? Yes |
| `wizard_retry` | one fresh desk with a launcher in the Startup folder | Does a retry start from what was there before? No: see below |
| `install_desks` | five desks (first migration, fresh, upgrade, rollback and edit, resources), 4 releases, up to 3 mishaps, 8 generations, 8 Runtimes; fair | Does the selection always load, is what was taken back as it was, is nothing of the root lost, is a switch cold, and does an upgrade asked for again settle? Yes |
| `model_tool` | *pool*: 2 workers, 2 calls, 3 requests, batches of 2, 2 restarts, every fault. *cache*: 2 runs at once; 3 in a row with a damaged blob; with more room. *watch*: 2 edits and 1 end; 1 edit, 2 ends and warm workers; fair | Does each batch live in one place and each call keep its promise and end; is what the cache serves what would be computed, has a trace its blob; is no change lost and every export staged? Yes |
| `watch_undone` | the watch alone | Are the outputs those of the files, always? No: see below |

Why these bounds are enough to be of use: two of anything (filters, sessions,
events, scopes, workers, devices, accounts, runs) is what a confusion needs; two
windows make a gap, an overlap and a clamped end possible; three generations are
a change, one that supersedes it and one that supersedes that while both are in
flight; a queue of two is a request behind one that fails; two restarts are one
used and the last. Desks (bars, settings, windows) are chosen once at the start
of a behaviour and bound what may happen in it, so that each run explores
several different small worlds instead of one large one. Every bound is a
constant named in the module that uses it, or a `Room` in the MC module:

* `MCLedgerWindow!Room`: a reopened window sees a ledger of one, and so does a
  third generation.
* `MCResume!Room`: the people, the other tools and the Runtime share `MaxTurns`.
* `MCReads!Room`: a write lands only in the window that shows the configuration,
  while it is shown, of its first Runtime and with both threads running; it never
  keeps a fair action from its turn.
* `Install!Room` bounds a desk's generations and Runtimes.

`CHECK_DEADLOCK FALSE` is set where the system really stops: a person may press
nothing, a ledger grow no more, a window close, and the bounds themselves end
behaviours. `install_desks` checks deadlock: a root with no transaction rests by
`Idle`.

Each property has a mutant in the module it is about: the same definition with a
plausible mistake (`\* Mutant:`), under which the run must find it violated.

### Fairness

* `LedgerWindow`: each reader thread's next step, the posted repaint, and the
  timers that are due are weakly fair: threads run on, a read has a timeout,
  Slint runs what is posted. Nothing makes a person press anything, the ledger
  grow or a fault happen.
* `Resume`: the press's thread (its wait is bounded), the Runtime's handling, the
  posted repaint and answer, and the reader. The reread is strongly fair
  because the reader's channel is first in first out: jumps queued before it are
  finitely many, while as actions they interrupt it again and again.
* `Reads`: both lanes, the tools thread, what is posted and the retry timer. The
  start report's read is strongly fair: its lane takes asked reads in turn,
  while here the choice among several due is open.
* `Writes`: a call's steps and answer, the `Status` read and the snapshot's. A
  desk bounds the outages, so weak fairness is enough.
* `Preview`: the picture thread, what is posted, `Status`.
* `Wizard`: what the loop does of itself and what a worker does; not the person.
* `Install`: acsetup's stages, the beginning of what is wished for, the Host's own
  steps; strongly, that a person in the end clears a leftover, repairs what a
  message asks for and stops a Runtime in the way. These are what
  `UpgradeSettles` says an upgrade may need, and it promises nothing without
  them. It is stated for the desks where only crashes are added to the upgrade.
* `EnginePool`: only the host's own thread. Its waits have deadlines, so the
  workers need none: a call ends whatever they do.

The other modules (`OnlineSource`, `TimeBound`, `FrameSlot`, `Launcher`, `Device`,
`Cache`, `Watch`) have safety properties only and state no fairness.

## Proofs

For every value of the constants (any ledger, window size, number of sessions,
Runtimes, presses, accounts, nodes, files, queue lengths and sets of faults; of
desks, any set of them):

| Module | Theorems | What they say |
|---|---|---|
| `LedgerWindow_proofs` | `TypeCorrect`, `Contiguity`, `PinStaysInStep`, `ReaderIsThere`, `OldReaderIsSilent`, `BoundKeepsNewerOut` | the loaded windows are contiguous, read once and never past the pin; the model's pin is the face's; an open window has a reader; a reader let go leaves nothing; no newer window lands under a bound |
| `WindowParts_proofs` | `OneRuntimeAnswers`, `LatchedIsNeverAsked`, `RetriedOnce` | all answers are of one Runtime; no request on a latched connection; a page is asked again once at most |
| | `StartIsSafe` | the start chosen under a time bound leaves nothing above it that would show |
| | `FrameIsOfItsRequest` | the frame on the pane is the one its request is for |
| | `UnlocksRunAlone`, `LinesEnd`, `OneRequestOfAKind` | the launcher's requests |
| | `OneWorkGoesOut`, `DestructiveGoesAsAsked` | the device's works |
| `ReadsAndResume_proofs` | `TypesHold`, `SlicesOfTheEpoch`, `ReadsSinceTheLastWrite`, `NothingOwed`, `AutostartIsOut`, `StartIsOut` | of the workbench's reads: what is shown is of the Runtime shown and of every write known; what is waited for is on its way |
| | `ResumeTypesHold`, `OnePress`, `LiftsConfirmed`, `PressesOnNews` | every safety property of the conditional resume |
| `Preview_proofs` | `TypesHold`, `PicturesAreTheirOwn` | the frame and the marks shown are of the account selected and of the epoch shown; the marks are on that frame |
| `Writes_proofs` | `TypesHold`, `UndoneHolds`, `TakenAsPressed` | a change said not to be done is not done and never will be, also when its request comes late; but for a "not applied" judged by a read that was answered before the request came; a rule taken changes what was pressed |
| `Install_proofs` | `InstallTyped`, `SelectionAlwaysLoads`, `NothingIsLost`, `RestoredAlwaysOriginal`, `SwitchAlwaysCold` | of acsetup's operations on one root, whichever stages fail and wherever the process ends: what is selected loads; nothing of the root is lost; what was taken back is as it was (the tools where their undo ran); nothing is changed under the Runtime met |
| `Wizard_proofs` | `TypesHold`, `AnswersOfTheirQuestions`, `LetGoOnlyByTheFailed`, `CancelledLeavesAll`, `LostLineFails`, `DowngradesAreSworn` | every safety property of the wizard |
| `ModelTool_proofs` | `PoolTypes`, `PoolAnswersOwnBatch`, `PoolComesToRest`, `PoolHoldsEachBatchOnce`, `PoolRunsAgainOnlyAfterCrash`, `PoolStuckOnlyAfterLostIdle`, `PoolImplementsCalls` | every safety property of the pool, and that it implements `EngineCall` |
| | `ValuesAreComputed`, `ValuesAreTheOnes`, `TracesHaveTheirBlobs` | what the cache serves is what would be computed, and the only value that could be; a trace has its blob |
| | `NoChangeIsLost`, `ExportsWereStaged` | the watch |

### What carries each proof

**Ledger window.** `IInv` joins the type invariant and `Contiguous` with what
makes them inductive. `Contiguous` alone is not: a window landing keeps it only
if it is still the next one down, so `WindowPlanned` says that the window being
read is, as long as its request is current; and that holds when another handler
ran meanwhile only since a handler that changes the windows moves the
generation, which no request in any queue can already carry (`TagsPast`). The
pin needs the same for the whole session rather than the generation
(`PinServed`): a superseded jump has moved the face's pin all the same.
`PhaseServed` and `ReadersPast` say which threads exist. Types are proved first,
one lemma per action; the arithmetic of the view model is in lemmas of its own,
so that the steps over it need no case analysis of windows.

**Exchange and time bound.** `OneRuntime` (a live client is of the owner's epoch)
and the stages of an exchange; for the bound, the candidate start is either the
pin or has been probed.

**Frame pane.** Every read, waiting, running or handed over, is of an earlier
request than the pane's last, or it is of that one: then it has its event, was
asked in the window's session, and after the last reload unless the paint that
forgets the frame is still to come (`IsCurrent`). A paint, a reopen and a clear
move the generation past every read; what a read brought is painted only at the
generation it was asked for.

**Launcher.** The last word of a request is the youngest of its kind, and
whatever is still to be taken of a kind keeps that kind's flag up; the flags of
a start and of an unlock are never both up.

**Device.** A work that was not let go holds its device's ticket (a switch: by
being out), no two works have one ticket, and at most one of the three places of
a device is taken.

**Resume.** One request is out (`OneOut`); a target names one pause wherever it
stands, since a pause's revisions only grow (`Confirmed`); one status read is
awaited after an answer (`UpToDate`).

**Reads.** A read begun since the last write states every write known
(`Stated`), a read's epoch is never ahead of the Runtime's, and what is owed is
asked: a thread has it or the queue holds it.

**Preview.** What is in flight, an order, the thread's line, a post, the slot,
carries the generation it was ordered under, never past the window's
(`OrderFits`, `LineFits`, `SeenFits`); as long as it is current it is of the
account and the epoch ordered last (`Ours`) and its frames are records of that
account. The window takes nothing else, and a change of the account or of the
epoch bumps the generation (`SentRight`: what is followed is what is shown). The
marks are records of the ledger past that frame: the ledger only grows. Whether a
target states a head is in none of this, so that a status that states one later
changes nothing. One post
names the slot as long as a frame is in it (`SlotRight`).

**Writes.** A line that says "not done" names a *dead* ticket: one not among the
taken, with no request of it out or still to come. Dead tickets stay dead, since a
request is sent under a ticket never used. The line falls to a dead ticket after a
refusal, or after reads that prove it. A conflict answer means not taken. An
unconfirmed request may be among those still to come: the settings are read again,
at a version past the one it was based on if it was taken (`ReadPast`), and a
ticket not yet come when the read was answered is `Missed`, of which nothing is
claimed. A switch's wait outlasts its claim, a `Status` of after the press shows
its check for as long as it runs, and the settings are read once it is over
(`SwitchRight`). `RulesRight`: a request's value, out or still to come, differs
from the rows of the version it is based on only in what was pressed, and the
Runtime takes it at that version or not at all; that the rows shown are those of
that version unless they are behind is `SliceRight`.

**Install.** `InstallRight` is the invariant, of six parts. `Types` says besides
types which stages each operation comes to. `SelectionRight`: `SelectionLoads`
alone is not kept by a switch, so a generation about to be selected, or to be
taken back, loads too, and the slot about to be laid is not the selected one's.
`ColdRight`: a Runtime that boots is never the one met (`Apart`), so once that
one is gone it stays gone through every stage after the close. `ToolsRight`: a
tool is kept at most once and placed only after that; what is kept under this
operation's generation is what it found; a tool not kept stands as found or was
added where there was none; the stages still to come name each tool once
(`TodoFits`), so that the one at its head is the only one already kept.
`RootRight` says the same of the root's places through the moves of a first
migration and the replacement of entries and the manager. `CleanRight`: what the
clean-up has gone through is not ahead of it any more (`Left`), and what it said
it restored has not been touched since, as no later task of the same list names
it. Undoing walks the list of steps backwards, so a tool placed over a kept one
gives way before the kept one comes back.

**Wizard.** `Closed`: a worker's last closure is left when it is done.
`Abandoned`: the failure page, an expired answer and a window let go mean that
the worker gave up. `Chained`: what begins the next worker is left on an
unfailed page with no question. `Asked`: whose the one question is and where its
answer is. `Paged`: a question's page is shown once. `Stopping`: a lost line is
on its way to the failure page, unless it is among the bundles' problems.
`Untouched`: nothing changes before the questions are answered.

**Pool.** `WorkerRight` says what a process may be doing in each state the host
has of its worker; it makes an answer the answer of the batch in hand and leaves
nothing in an idle worker's channel. `GroupsApart` confines starts and sends to
the running call's group. `EachHeldOnce` replaces the count of `EachBatchOnce`,
which is not inductive, by where a batch is: once among those to be sent or with
one busy worker, all its requests without an outcome, and every such request in
one of the two. With it, an answer settles only requests without an outcome and
a return finds none left: the two steps of the refinement that are not
immediate. `ReadyReadable` and `RoomToRun` carry the two action properties.

**Cache.** Per run, the traces it has read fit its computations (`TracesAreOf`),
its stack waits on what it has not come to (`StackWaits`), and what it served was
computed (`Served`): a read that fits stays fitting, since a run comes to a node
only when nothing it has read could still change. `OneByOne`, for a run alone:
what it met or wrote is in the folder, what it is to keep it has met or written,
what it is to remove no trace names.

**Watch.** `Honest`: what a file was noted to say it said once or says. `Trusted`:
a refresh that went through read the file as it is, or the file's change is on
its way; `SavedTrusted` says it of watch.json and `Loaded` of what a refresh has
read so far. `Resting`: a change is in the window before the poll ends, and a
refresh takes the window and saves what the scan saw.

### What the proofs assume

The assumptions named in the modules (`LedgerAssumption`, `ViewAssumption`,
`FrameAssumption`, `DeviceAssumption`, `CacheAssumption`, `WatchAssumption`,
`WizardAssumption`, `PreviewAssumption`, `WritesAssumption`, `InstallAssumption`,
`NothingAssumption`, ...), which TLC evaluates in every run:
bounds are naturals, the names of "nothing" are no data (no event, request, read,
device, release or file content is one), older and newer releases are told apart.
`InstallAssumption` says there are two slots and that every desk is an
installation acsetup can meet: its selection, if it has one, is whole in its slot
and every generation's configuration is one its Runtime reads (an installation
that does not load is refused before anything begins), and no transition is under
way. `ValuesAreTheOnes` also has the evaluators deterministic, as the model's
`core/graph.py` requires of them.

### What is only model-checked

* Liveness under fairness and `ENABLED` are outside the prover: `BusyEnds`,
  `FollowingCatchesUp`, `EntriesComeBack`, `StartReportSettles`, `WritesComeBack`,
  `NewestShows`, `PageComesBack`, `UpgradeSettles`, `CallEnds`.
* The proof modules use no induction over data and no recursive operator.

## Where the code and what it says of itself disagree

With a run each (`findings` in `PROJECT.json`):

1. `preview_offered`: `Line::offer` (`preview.rs:813`) counts a refreshed frame as
   the newest before it is read; a poll that failed, then the window hidden and
   shown, and the frame is never looked for.
2. `watch_undone`: `_refresh` (`watcher.py:260`) records what the scan saw and
   then reads the files; a write taken back between the two leaves outputs of
   bytes no file has.
3. `wizard_retry`: `install::autostart` (`install.rs:579`) overwrites a launcher
   of before and the retry removes it, while `main.rs:1616` says a retry starts
   from what was there.

Met while modelling, without a run of their own:

* **Ledger.** `stop_following` (`mod.rs:448`) moves the generation and sends
  nothing: a filter's reload still queued is dropped as superseded with no newer
  one behind it, on which `worker.rs:360` relies. `jump_latest` stops the
  cursor's rest timer; when it fails (`mod.rs:401`) the bound stays, and "read
  earlier" appends rows under it below rows read without it, which `mod.rs:339`
  says it does not. The old session's reader clears the tick flag of the window
  (`worker.rs:349`), so two ticks can be queued (`state.rs:30`). `follow_tick`
  (`mod.rs:462`) stops following on any bound in the filters, also one set before
  following was turned on; the doc at `mod.rs:452` speaks of a bound "set
  meanwhile". `cursor_moved` (`mod.rs:360`) sets the bound and then paints; a
  `cursor_top` left by a jump moves the handle away from the bound just set,
  while `mod.rs:356` says both follow at once.
* **Pool.** A pass that finds every idle worker gone only when it sends to them
  gives the call up as a defect of the caller (`pool.py:318`,
  `contracts/cli.md:390`).
* **Launcher.** A shutdown pressed during a start overwrites its line, so the lamp
  offers a start while one is in flight; pressing it says busy. A start that is
  not ready in time leaves its daemon booting.
* **Device.** After an operation lands, its buttons may come back on readings
  from before it when no newer `Status` landed within the cooldown. A refresh of
  the picture leaves a question up though `rescue.rs:19` says any press takes it
  away.
* **Writes.** A request whose write failed or whose answer did not come may have
  got out (`acui-source/workbench.rs:380`, `631-634`) and be taken after the
  snapshot that judges it: the line then says "not applied" of a change that
  takes effect. `SaidNotDoneIsNotDone` and `UndoneHolds` except exactly those
  (`missed`). An answer landing after a newer snapshot overwrites the version
  shown with its own older one (`model.rs:482`); harmless, since the next
  snapshot mends it.
* **Preview.** Following an account again within ten seconds with its frame
  shown makes a line with no marks and none owed, so the next mark replaces the
  overlay. A follow whose status states no head is not looked up (`look_up`,
  `preview.rs:641-644`), and a later status that states one gives no new order,
  since `Target::same` (`preview.rs:130-137`) does not compare heads and
  `Pictures::sync` (`picture.rs:471-484`) then sends only the pace: the account
  stays unlooked for until another generation, while `preview.rs:636-640` and
  `acui-source/workbench.rs:696-700` say it asks nothing until a status states
  one. `NewestShows` is stated for what was given a place to look up from. A
  late panic of an old generation stays as the fault until a poll finds news. A
  frame whose failed read's answer was dropped is not read again and the picture
  says it is looking. A panic inside a read loses the frame for that line.
* **Wizard.** A line of the log lost inside `bundle::carried` becomes one of its
  problems (`bundle.rs:205`); `begin_discover` warns of it
  (`main.rs:1735-1742`), and when that line is written the run goes on to the
  instances page, while `main.rs:109` and `989` say nothing goes on after a lost
  line. The page names the problem and its apply is refused; `LostLineStops`
  says so much. The note that closing was refused does not show on the question
  pages. A late answer is lost silently. An expired answer makes the page
  "stopped" while its worker still finishes its error path, and the failure
  page's close is unguarded. A start that failed after booting its daemon leaves
  `runtime_started` false; a failed apply leaves it true with the Runtime
  stopped. A file write that fails midway leaves a half-written file that no
  retry takes back. A `writer.commit` error after the rename is not kept in the
  selection's plan, so `restore()` says the original is retained while the
  selection names the new generation (`maintenance.rs:1056`).
* **Install.** `Plan::apply` ends with a line of the log
  (`root_tools.rs:258-263`): when that fails every tool is placed and `apply`
  returns the error without undoing, while `root_tools.rs:216-217` says that on
  failure everything done here is put back; in a first migration `restore()`
  then has no tools to take back, and the line at `migration.rs:182` says
  "original installation restored" with the new tools at the root.
  `RestoredIsOriginal` says of the tools only what an undo that ran took back. A
  crash between copy and rename of a tool leaves an `.acsetup-new` that blocks
  later upgrades with a visible error; one inside the replacement of the manager
  makes upgrade and rollback refuse until repaired by hand; one between moving a
  fixed entry aside and placing the new one leaves no entry, and later refreshes
  fail. A crash in a migration after something moved leaves an old layout only a
  hand restores. A fresh install that failed after its entries were placed
  cannot be retried until they are removed. A Runtime started by another program
  before an upgrade is taken back keeps the spare slot occupied. A Runtime
  started between close and commit makes the start fail with the selection
  already switched. Settings are compared and written in two steps. A rollback
  may select a generation that was prepared and never committed. A leftover
  `install/active-<n>.json` blocks every later selection of that generation.
  Undoing a kept tool renames over one placed that could not be moved aside.
* **Watch and cache.** A crash between the candidate's rename and the save stages
  the same candidate twice. A refresh refused for a locked file is not retried
  when it is unlocked (documented: the next change refreshes). Two watches on one
  folder have no lock. With two runs, an eviction may remove a blob that a trace
  queued by the other names; the next run recomputes it. Two runs may share a use
  counter.

## Hazards

`PROJECT.json` lists, with its line, each place where this code is exposed to an
interleaving, an order, a crash, a loss or a boundary that a test would hardly
reach, and the properties that would catch it going wrong. Further ones met and
covered by the same properties, by a theorem only, or by the observations above:
`worker.rs` 211, 349, 409, 528, 572, 635, 695, 937; `ledger/mod.rs` 343, 448, 462,
479, 520; `acui-source/lib.rs` 513, 777, 1444; `acui-model/lib.rs` 341; `frame.rs`
98, 107; `resume.rs` 128, 365; `launcher.rs` 486; `ui.rs` 814; `lifecycle.rs` 432;
`preview.rs` 984; `pool.py` 239, 252, 342, 471; `generations.rs` 374;
`workbench/mod.rs` 373, 621; `actions.rs` 520, 579, 642.

## Not modelled, and the plan

Next, in this order:

1. **Frame events** of a ledger window (`wanted_frame_events`) and the shutdown
   requests of the online face, into the modules they belong to.
2. **Pure algorithms** with a reference definition (cycles and components of the
   unit graph, intervals, thresholds) as operators in a module of their own.

Left out for good: bundle, fetch and payload formats and hashing (pure I/O),
platform calls, command lines, painting, strings, the glass frame, the engines'
own mathematics over rationals and linear programs (no finite reference), the
merge of resource bindings field by field, and row projections (covered by unit
tests). `components` in `PROJECT.json` says of each part what is left out.
