-------------------------------- MODULE Watch --------------------------------
\* `acmodel watch` (model/src/acmodel/watch): a loop that scans the model's files and the state
\* snapshot, opens a window at a change, refreshes the model's outputs when the window has ended
\* and the host lets it, stages a delivery candidate when the exports differ, and records what it
\* saw in watch.json, from which a restart resumes. Anyone writes and locks the files at any
\* moment, also between two steps of a scan or of a refresh.
\* What a file says is one of Contents; its stamp (size and modification time) is another at
\* every write. How long a window is, how much memory is free and what a run costs are open.
EXTENDS Integers, Sequences, FiniteSets

CONSTANTS
    Files,          \* the model's files, the preferences and the datasets
    Snapshot,       \* the account's state snapshot
    Contents,       \* what a file may say
    Absent,         \* no file is there
    Unread,         \* the file could not be read
    Broken,         \* contents with which the model does not read or check
    Unexportable,   \* contents of exported files with which an export is refused
    Exported,       \* the files whose contents the exports' files show
    Nothing,        \* None: no watch.json, no run, no candidate
    Desks           \* what may happen: bounds of edits and of ends of the watch, and whether
                    \* watch.keep_workers_warm is set

Watched == Files \cup {Snapshot}

ASSUME WatchAssumption ==
    /\ Snapshot \notin Files /\ Exported \subseteq Files
    /\ Absent \notin Contents /\ Unread \notin Contents \cup {Absent}
    /\ Nothing \notin Contents \cup {Absent, Unread}
    /\ Broken \subseteq Contents \cup {Absent} /\ Unexportable \subseteq Contents \cup {Absent}
    /\ Nothing \notin [number : Nat, files : [Exported -> Contents \cup {Absent, Unread}]]
    /\ Desks \subseteq [edits : Nat, ends : Nat, warm : BOOLEAN]

VARIABLES
    desk,       \* the desk at hand
    disk,       \* per file its bytes and stamp
    past,       \* history: what each file said before
    locked,     \* the files no one can read now
    clock,      \* the last stamp given
    at,         \* what the watch does next
    todo,       \* the files this scan or load has still to take
    taken,      \* the file whose stamp the scan has just taken, and that stamp
    poll,       \* of this poll: has it seen a change, had the window ended when it began
    seen,       \* Watcher.seen: per file its stamp and hash
    due,        \* Watcher.due_at: no window, one that is open, one that has ended
    gate,       \* the gate held at the last check, no check was made yet; the first scan is quiet
    warm,       \* the workers are alive; starting them failed
    files,      \* of the refresh: what the scan before it saw
    got,        \* of the refresh: what it read of each file
    last,       \* Watcher.last: what the last run that went through read
    candidate,  \* Watcher.candidate: number and files
    failed,     \* history: the last refresh was refused
    saved,      \* watch.json, and whether the refresh it was written after was refused
    staged,     \* the candidates' folders
    count       \* edits and ends, for the bounds

disks == <<disk, past, locked, clock>>
loop == <<at, todo, taken, poll, gate, warm>>
refresh == <<files, got>>
memory == <<seen, last, candidate, failed>>
watchVars == <<desk, disks, loop, refresh, memory, due, saved, staged, count>>

NotSeen == [stamp |-> 0, hash |-> Absent]
NoPoll == [changed |-> FALSE, ripe |-> FALSE]
NothingTaken == [file |-> Snapshot, stamp |-> 0]

-----------------------------------------------------------------------------
\* The files, which others write.

\* A write, or a removal, of one file.
Edit(f, bytes) ==
    /\ count.edits < desk.edits
    /\ disk[f].bytes # bytes
    /\ disk' = [disk EXCEPT ![f] = [bytes |-> bytes, stamp |-> clock + 1]]
    /\ past' = [past EXCEPT ![f] = @ \cup {disk[f].bytes}]
    /\ clock' = clock + 1
    /\ count' = [count EXCEPT !.edits = @ + 1]
    /\ UNCHANGED <<desk, locked, loop, refresh, memory, due, saved, staged>>

\* The same bytes written again.
Rewrite(f) ==
    /\ count.edits < desk.edits /\ disk[f].bytes # Absent
    /\ disk' = [disk EXCEPT ![f].stamp = clock + 1] /\ clock' = clock + 1
    /\ count' = [count EXCEPT !.edits = @ + 1]
    /\ UNCHANGED <<desk, past, locked, loop, refresh, memory, due, saved, staged>>

\* Another program opens a file so that it cannot be read, or lets it go.
Lock(f) ==
    /\ \/ f \in locked /\ locked' = locked \ {f} /\ UNCHANGED count
       \/ /\ f \notin locked /\ count.edits < desk.edits
          /\ locked' = locked \cup {f} /\ count' = [count EXCEPT !.edits = @ + 1]
    /\ UNCHANGED <<desk, disk, past, clock, loop, refresh, memory, due, saved, staged>>

Others ==
    \E f \in Watched :
        \/ \E bytes \in Contents \cup {Absent} : Edit(f, bytes)
        \/ Rewrite(f)
        \/ Lock(f)

\* What a read of a file finds now.
Read(f) == IF disk[f].bytes = Absent THEN Absent ELSE IF f \in locked THEN Unread ELSE disk[f].bytes

-----------------------------------------------------------------------------
\* The watch starts and ends.

\* Journal.load and Watcher.start: what watch.json says, or a first refresh at once.
Start ==
    /\ at = "down"
    /\ at' = "idle" /\ gate' = [held |-> FALSE, first |-> TRUE, quiet |-> saved = Nothing]
    /\ IF saved = Nothing
       THEN /\ due' = "ended" /\ seen' = [f \in Watched |-> NotSeen]
            /\ last' = Nothing /\ candidate' = Nothing /\ failed' = FALSE
       ELSE /\ due' = "none" /\ seen' = saved.files
            /\ last' = saved.last /\ candidate' = saved.candidate /\ failed' = saved.failed
    /\ warm' = [alive |-> FALSE, failed |-> FALSE]
    /\ UNCHANGED <<desk, disks, todo, taken, poll, refresh, saved, staged, count>>

\* An interrupt, a fatal failure or the process gone, between any two steps: the workers end with
\* it (Watcher.run) and what was not saved is forgotten.
End ==
    /\ at # "down" /\ count.ends < desk.ends
    /\ at' = "down" /\ count' = [count EXCEPT !.ends = @ + 1]
    /\ todo' = {} /\ taken' = NothingTaken /\ poll' = NoPoll
    /\ gate' = [held |-> FALSE, first |-> TRUE, quiet |-> FALSE]
    /\ warm' = [alive |-> FALSE, failed |-> FALSE]
    /\ seen' = [f \in Watched |-> NotSeen] /\ due' = "none"
    /\ files' = [f \in Watched |-> NotSeen] /\ got' = [f \in Watched |-> Unread]
    /\ last' = Nothing /\ candidate' = Nothing /\ failed' = FALSE
    /\ UNCHANGED <<desk, disks, saved, staged>>

-----------------------------------------------------------------------------
\* A poll: the scan, the gate, the workers.

\* The time at which a poll begins decides whether the window has ended.
PollBegins ==
    /\ at = "idle"
    /\ at' = "scan" /\ todo' = Watched
    /\ poll' = [changed |-> FALSE, ripe |-> due = "ended"]
    /\ UNCHANGED <<desk, disks, taken, gate, warm, refresh, memory, due, saved, staged, count>>

WindowEnds ==
    /\ due = "open" /\ due' = "ended"
    /\ UNCHANGED <<desk, disks, loop, refresh, memory, saved, staged, count>>

\* scan: a file whose stamp is as before is as before; one that is gone has changed.
ScanStamp(f) ==
    /\ at = "scan" /\ f \in todo /\ (f = Snapshot => todo = {f})
    /\ todo' = todo \ {f}
    /\ IF disk[f].bytes = Absent
       THEN /\ seen' = [seen EXCEPT ![f] = NotSeen]
            /\ poll' = [poll EXCEPT !.changed = @ \/ seen[f] # NotSeen]
            /\ UNCHANGED <<at, taken>>
       ELSE /\ IF seen[f].stamp = disk[f].stamp
               THEN UNCHANGED <<at, taken>>
               ELSE at' = "hash" /\ taken' = [file |-> f, stamp |-> disk[f].stamp]
            /\ UNCHANGED <<seen, poll>>
    /\ UNCHANGED <<desk, disks, gate, warm, refresh, last, candidate, failed, due, saved, staged, count>>

\* scan: the bytes of a file with another stamp. It may be gone, or say something else, since.
ScanHash ==
    /\ at = "hash" /\ at' = "scan"
    /\ LET f == taken.file
           now == IF Read(f) = Absent THEN NotSeen ELSE [stamp |-> taken.stamp, hash |-> Read(f)]
       IN  /\ seen' = [seen EXCEPT ![f] = now]
           /\ poll' = [poll EXCEPT !.changed =
                          @ \/ now.hash = Unread \/ now.hash # seen[f].hash]
    /\ taken' = NothingTaken
    /\ UNCHANGED <<desk, disks, todo, gate, warm, refresh, last, candidate, failed, due, saved, staged, count>>

\* Gate.check: the first check and one while the gate holds ask for the start level.
Held(available, other) ==
    other \/ IF gate.first \/ gate.held THEN available # "start" ELSE available = "pause"

\* Watcher._warm: workers that are not alive are started, unless starting them failed before.
Warmed ==
    IF ~desk.warm \/ warm.alive \/ warm.failed THEN {warm}
    ELSE {warm, [alive |-> TRUE, failed |-> FALSE], [alive |-> FALSE, failed |-> TRUE]}

\* Watcher.poll after the scan.
Scanned ==
    /\ at = "scan" /\ todo = {}
    /\ LET opens == poll.changed /\ ~gate.quiet /\ due = "none"
           window == IF opens THEN "open" ELSE due
       IN  \E available \in {"pause", "between", "start"}, other \in BOOLEAN :
               LET held == Held(available, other)
                   refreshes == ~held /\ window # "none" /\ poll.ripe
               IN  /\ gate' = [held |-> held, first |-> FALSE, quiet |-> FALSE]
                   /\ IF held THEN warm' = [warm EXCEPT !.alive = FALSE] ELSE warm' \in Warmed
                   /\ at' = IF refreshes THEN "import" ELSE "idle"
                   /\ due' = IF refreshes THEN "none" ELSE window
                   /\ files' = IF refreshes THEN seen ELSE files
    /\ poll' = NoPoll
    /\ UNCHANGED <<desk, disks, todo, taken, got, memory, saved, staged, count>>

-----------------------------------------------------------------------------
\* The refresh.

\* Watcher._import: the snapshot's bytes, copied; the copy may fail.
Import ==
    /\ at = "import"
    /\ \/ /\ Read(Snapshot) \notin {Absent, Unread}
          /\ got' = [f \in Watched |-> IF f = Snapshot THEN Read(f) ELSE Unread]
          /\ at' = "load" /\ todo' = Files
       \/ /\ got' = [f \in Watched |-> Unread]
          /\ at' = "refused" /\ UNCHANGED todo
    /\ UNCHANGED <<desk, disks, taken, poll, gate, warm, files, memory, due, saved, staged, count>>

\* evaluate_model reads the model's files one after the other.
Load(f) ==
    /\ at = "load" /\ f \in todo
    /\ todo' = todo \ {f} /\ got' = [got EXCEPT ![f] = Read(f)]
    /\ UNCHANGED <<desk, disks, at, taken, poll, gate, warm, files, memory, due, saved, staged, count>>

Checks == \A f \in Watched : got[f] \notin Broken \cup {Unread}

\* candidate.build and fingerprint: what the exports show, or their refusal.
Refused(read) == \E f \in Exported : read[f] \in Unexportable
Exports(read) == [f \in Exported |-> read[f]]

\* A mutant: watch.json names the candidate before it is staged.
EvaluateSaves ==
    /\ at = "load" /\ todo = {}
    /\ IF Checks
       THEN /\ last' = got
            /\ warm' \in {[alive |-> a, failed |-> FALSE] : a \in {FALSE, warm.alive}}
            /\ IF Refused(got) \/ (candidate # Nothing /\ candidate.files = Exports(got))
               THEN at' = "save" /\ UNCHANGED <<candidate, saved>>
               ELSE /\ at' = "stage"
                    /\ candidate' = [number |-> Len(staged) + 1, files |-> Exports(got)]
                    /\ saved' = [files |-> files, last |-> got, candidate |-> candidate',
                                 failed |-> FALSE]
       ELSE at' = "refused" /\ UNCHANGED <<last, warm, candidate, saved>>
    /\ UNCHANGED <<desk, disks, todo, taken, poll, gate, refresh, seen, failed, due, staged, count>>

\* evaluate_model, finish_run and Watcher._engines: a model that does not check computes nothing.
Evaluate ==
    /\ at = "load" /\ todo = {}
    /\ IF Checks
       THEN /\ last' = got
            /\ warm' \in {[alive |-> a, failed |-> FALSE] : a \in {FALSE, warm.alive}}
            /\ at' = IF Refused(got) THEN "save"
                     ELSE IF candidate # Nothing /\ candidate.files = Exports(got) THEN "save"
                     ELSE "stage"
       ELSE at' = "refused" /\ UNCHANGED <<last, warm>>
    /\ UNCHANGED <<desk, disks, todo, taken, poll, gate, refresh, seen, candidate, failed, due, saved, staged, count>>

\* candidate.stage: the folder is renamed to one above the highest there.
Stage ==
    /\ at = "stage" /\ at' = "save"
    /\ staged' = Append(staged, Exports(got))
    /\ candidate' = [number |-> Len(staged) + 1, files |-> Exports(got)]
    /\ UNCHANGED <<desk, disks, todo, taken, poll, gate, warm, refresh, seen, last, failed, due, saved, count>>

\* A mutant: the files are recorded as they are when the refresh is through.
SaveRescanned ==
    LET now == [f \in Watched |->
                   IF disk[f].bytes = Absent THEN NotSeen
                   ELSE [stamp |-> disk[f].stamp, hash |-> Read(f)]]
    IN  /\ at \in {"save", "refused"} /\ at' = "idle"
        /\ failed' = (at = "refused")
        /\ saved' = [files |-> now, last |-> last, candidate |-> candidate, failed |-> failed']
        /\ seen' = now
        /\ files' = [f \in Watched |-> NotSeen] /\ got' = [f \in Watched |-> Unread]
        /\ todo' = {}
        /\ UNCHANGED <<desk, disks, taken, poll, gate, warm, last, candidate, due, staged, count>>

\* Journal.save, after a refresh that went through and after one that was refused.
Save ==
    /\ at \in {"save", "refused"} /\ at' = "idle"
    /\ failed' = (at = "refused")
    /\ saved' = [files |-> files, last |-> last, candidate |-> candidate, failed |-> failed']
    /\ files' = [f \in Watched |-> NotSeen] /\ got' = [f \in Watched |-> Unread]
    /\ todo' = {}
    /\ UNCHANGED <<desk, disks, taken, poll, gate, warm, seen, last, candidate, due, staged, count>>

-----------------------------------------------------------------------------
WatchInit ==
    /\ desk \in Desks
    /\ \E bytes \in [Watched -> Contents \cup {Absent}] :
           disk = [f \in Watched |-> [bytes |-> bytes[f], stamp |-> 1]]
    /\ past = [f \in Watched |-> {}] /\ locked = {} /\ clock = 1
    /\ at = "down" /\ todo = {} /\ taken = NothingTaken /\ poll = NoPoll
    /\ gate = [held |-> FALSE, first |-> TRUE, quiet |-> FALSE]
    /\ warm = [alive |-> FALSE, failed |-> FALSE]
    /\ seen = [f \in Watched |-> NotSeen] /\ due = "none"
    /\ files = [f \in Watched |-> NotSeen] /\ got = [f \in Watched |-> Unread]
    /\ last = Nothing /\ candidate = Nothing /\ failed = FALSE
    /\ saved = Nothing /\ staged = <<>> /\ count = [edits |-> 0, ends |-> 0]

Watch ==
    \/ Start \/ PollBegins \/ Scanned \/ ScanHash
    \/ \E f \in Watched : ScanStamp(f)
    \/ Import \/ \E f \in Files : Load(f)
    \/ Evaluate \/ Stage \/ Save

WatchNext == Others \/ Watch \/ WindowEnds \/ End

WatchSpec == WatchInit /\ [][WatchNext]_watchVars

-----------------------------------------------------------------------------
\* The next scan takes the file as changed.
Noticed(f) ==
    IF disk[f].bytes = Absent THEN seen[f] # NotSeen
    ELSE seen[f].stamp # disk[f].stamp /\ seen[f].hash # disk[f].bytes

\* Between two polls, after a refresh that went through: a file that says something else than the
\* outputs were made of has a window open, or the next scan takes it as changed.
Stale(f) == at = "idle" /\ last # Nothing /\ ~failed /\ last[f] # disk[f].bytes
Kept(f) == Stale(f) => due # "none" \/ Noticed(f)

\* No change is lost, whatever is written while a scan or a refresh reads and wherever the watch
\* ends and starts again: except that a file was given back what it said once before.
NoChangeLost == \A f \in Watched : disk[f].bytes \notin past[f] => Kept(f)

\* The outputs are kept up to date with what the files say (contracts/cli.md).
OutputsUpToDate == \A f \in Watched : Kept(f)

\* After a refresh whose exports were not refused, a candidate folder holds its exports, wherever
\* an earlier watch ended.
ExportsAreStaged ==
    at = "idle" /\ last # Nothing /\ ~Refused(last) =>
        candidate # Nothing /\ candidate.files = Exports(last)
        /\ candidate.number \in DOMAIN staged /\ staged[candidate.number] = candidate.files
=============================================================================
