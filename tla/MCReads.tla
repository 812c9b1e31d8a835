------------------------------- MODULE MCReads -------------------------------
\* The instance of Reads that TLC checks: four windows, each with its own reads.  A write
\* lands in the window that shows what it changes, while that window is shown and reads its
\* first Runtime.
EXTENDS Reads

CheckedWindows ==
    {{"status", "start"}, {"status", "watchdog"}, {"status", "config"}, {"status", "names"}}

Room ==
    \/ taken = 0 /\ written = 0
    \/ "config" \in kinds /\ runtime.epoch = 1 /\ view.shown /\ ~lanes["slow"].lost

MCSpec == Init /\ [][Next /\ Room']_readsVars /\ Fairness
=============================================================================
