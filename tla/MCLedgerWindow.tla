---------------------------- MODULE MCLedgerWindow ----------------------------
(* Small windows for TLC: two filters and one time bound.                  *)
EXTENDS LedgerWindow

CONSTANTS tasks, events, noon

\* A reopened window sees a shorter ledger; so does a third filter, only in the first window.
Room ==
  /\ session > 1 => head <= 1
  /\ generation > 2 => head <= 1 /\ session = 1

MCSpec == Init /\ [][Next /\ Room']_vars /\ Fairness
=============================================================================
