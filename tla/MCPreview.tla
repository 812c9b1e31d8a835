----------------------------- MODULE MCPreview -----------------------------
\* The instances of Preview that TLC checks.
EXTENDS Preview

Alone == {"alice"}
Both == {"alice", "bob"}
SeenOnly == {"seen"}
WithTasks == {"seen", "task", "mark"}

\* The picture of either account while a person turns between them and the Runtime restarts.
Turning == [accounts |-> Both, kinds |-> SeenOnly, records |-> 2, epochs |-> 2, turns |-> 1,
            presses |-> 0, mishaps |-> 0, headless |-> FALSE]
\* Two turns: another account and back, or the window hidden and shown.
Returning == [Turning EXCEPT !.epochs = 1, !.turns = 2]
\* A task's frames, with what the task recognizes on them.
Marking == [accounts |-> Alone, kinds |-> WithTasks, records |-> 4, epochs |-> 1, turns |-> 1,
            presses |-> 0, mishaps |-> 0, headless |-> FALSE]
MarkingAgain == [Marking EXCEPT !.records = 2, !.turns = 2]
\* Exchanges that fail, pages cut short, reads that panic.
Troubled == [Marking EXCEPT !.records = 2, !.mishaps = 1]
\* A person's refresh, across a restart, a failure and a turn.
Refreshing == [accounts |-> Alone, kinds |-> SeenOnly, records |-> 1, epochs |-> 2, turns |-> 1,
               presses |-> 1, mishaps |-> 1, headless |-> FALSE]
\* ... and with the window hidden and shown.
RefreshingAgain == [Refreshing EXCEPT !.epochs = 1, !.turns = 2]
\* `Status` that states no head, now and then.
Unstated == [Returning EXCEPT !.accounts = Alone, !.epochs = 2, !.headless = TRUE]

CheckedDesks == {Turning, Returning, Marking, MarkingAgain, Troubled, Refreshing, RefreshingAgain,
                 Unstated}

\* A refreshed frame, a poll that failed in between, and the window hidden and shown.
OfferedDesks == {RefreshingAgain}
=============================================================================
