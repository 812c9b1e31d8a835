------------------------------- MODULE MCResume -------------------------------
(* The global pause and one instance's.  The people, the other tools and   *)
(* the Runtime share MaxTurns between them: a second pause, a second       *)
(* Runtime and a reopen are met one at a time, each with every fault, and  *)
(* with one pause a person sends two requests.                             *)
EXTENDS Resume

CONSTANT MaxTurns

TwoScopes == <<"global", "instance">>

Sent == Cardinality(presses) + Cardinality(answers) + settled

Room ==
  /\ set + epoch + session <= MaxTurns
  /\ set + Sent < MaxTurns
  /\ paused["instance"].on => set = MaxPause

MCSpec == ResumeInit /\ [][ResumeNext /\ Room']_vars /\ ResumeFairness
=============================================================================
