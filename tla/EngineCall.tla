------------------------------ MODULE EngineCall ------------------------------
(***************************************************************************)
(* What a call of the engine pool promises its caller                      *)
(* (model/src/acmodel/engine/pool.py, Pool.call, Pool.verify): each        *)
(* request gets one outcome, which stays; the call returns once every      *)
(* request has one, or it raises and no outcome of it is kept.             *)
(***************************************************************************)
EXTENDS Naturals

CONSTANTS
  Unsettled,     \* no outcome yet
  MaxRequests    \* bound: requests of one call

VARIABLES
  running,    \* a call is being run
  outcomes,   \* the last call's outcomes, by request
  ended       \* how the last call ended: "none" while it runs

callVars == <<running, outcomes, ended>>

Kinds == {"answered", "failed"}

CallInit == running = FALSE /\ outcomes = <<>> /\ ended = "none"

CallBegins ==
  /\ ~running /\ running' = TRUE /\ ended' = "none"
  /\ \E n \in 0..MaxRequests : outcomes' = [i \in 1..n |-> Unsettled]

(* The requests of one batch get their outcomes.                           *)
CallSettles ==
  /\ running
  /\ \E S \in SUBSET {i \in DOMAIN outcomes : outcomes[i] = Unsettled}, kind \in Kinds :
       outcomes' = [i \in DOMAIN outcomes |-> IF i \in S THEN kind ELSE outcomes[i]]
  /\ UNCHANGED <<running, ended>>

CallReturns ==
  /\ running /\ running' = FALSE /\ ended' = "returned"
  /\ \A i \in DOMAIN outcomes : outcomes[i] # Unsettled
  /\ UNCHANGED outcomes

CallRaises ==
  /\ running /\ running' = FALSE /\ ended' = "raised"
  /\ outcomes' = <<>>

CallNext == CallBegins \/ CallSettles \/ CallReturns \/ CallRaises

CallSpec == CallInit /\ [][CallNext]_callVars
=============================================================================
