------------------------------ MODULE TimeBound ------------------------------
(***************************************************************************)
(* Where a view under a time bound starts to read down from                *)
(* (crates/acui-app/src/ledger/worker.rs): `upper_for_time` estimates the  *)
(* position from the committed span alone, and `checked_upper` probes      *)
(* upwards from it until nothing above could show.  Times need not rise    *)
(* with the positions, and the span may be older than the pin.             *)
(***************************************************************************)
EXTENDS Integers

CONSTANTS
  Snapshot,     \* the pin every page is read at
  MaxTime,      \* bound: the times events and bounds are taken from
  SLACK,        \* TIME_SLACK_WINDOWS * WINDOW
  TIME_PROBES   \* probes made at most

ASSUME TimeAssumption ==
  /\ Snapshot \in Nat /\ MaxTime \in Nat
  /\ SLACK \in Nat \ {0} /\ TIME_PROBES \in Nat

VARIABLES
  ledger,   \* per position: its event's time, and whether the filters match it
  bound,    \* the view's time bound
  upper,    \* where reading would start
  step,     \* how far the next probe moves it up
  probe,    \* probes made
  done      \* `checked_upper` returned `upper`

boundVars == <<ledger, bound, upper, step, probe, done>>

Positions == 1..Snapshot
Times == 0..MaxTime
Ledgers == [Positions -> [time : Times, match : BOOLEAN]]

(* An event the view's own query selects, its time bound included.         *)
Shows(i) == ledger[i].match /\ ledger[i].time <= bound

(* upper_for_time: as if events were even in time, plus the slack.         *)
UpperForTime(first, last, at) ==
  IF at >= last THEN Snapshot
  ELSE IF at < first THEN 0
  ELSE LET estimate == ((at - first) * Snapshot) \div (last - first) + SLACK
       IN IF estimate < Snapshot THEN estimate ELSE Snapshot

(* The span was read as the first and the last event of some earlier pin;  *)
(* none is known when that read failed.                                    *)
BoundInit ==
  /\ ledger \in Ledgers /\ bound \in Times
  /\ upper \in {Snapshot}
       \cup {UpperForTime(ledger[1].time, ledger[i].time, bound) : i \in Positions}
  /\ step = SLACK /\ probe = 0 /\ done = FALSE

Returns(position) ==
  /\ upper' = position /\ done' = TRUE
  /\ UNCHANGED <<ledger, bound, step, probe>>

(* The start is at the pin, or the fill's budget passed: the pin.          *)
StopAtPin ==
  /\ ~done
  /\ upper >= Snapshot \/ probe > 0 \/ probe = TIME_PROBES
  /\ Returns(Snapshot)

CanProbe == ~done /\ upper < Snapshot /\ probe < TIME_PROBES

(* A page the read budget stopped holds no row and decides nothing.        *)
ProbeUndecided == CanProbe /\ Returns(Snapshot)

\* Mutant: the probe asks from one position too far up.
ProbeNoneAbove ==
  /\ CanProbe
  /\ \A i \in (upper + 2)..Snapshot : ~Shows(i)
  /\ Returns(upper)

(* One probe: the first event that would show above the start.             *)
ProbeNone ==
  /\ CanProbe
  /\ \A i \in (upper + 1)..Snapshot : ~Shows(i)
  /\ Returns(upper)

ProbeFound ==
  /\ CanProbe
  /\ \E i \in (upper + 1)..Snapshot :
       /\ Shows(i)
       /\ \A j \in (upper + 1)..(i - 1) : ~Shows(j)
       /\ upper' = i + step
  /\ step' = 2 * step /\ probe' = probe + 1
  /\ UNCHANGED <<ledger, bound, done>>

BoundNext == StopAtPin \/ ProbeUndecided \/ ProbeNone \/ ProbeFound

BoundSpec == BoundInit /\ [][BoundNext]_boundVars

-----------------------------------------------------------------------------
\* The start is safe: no event the view would show lies above it, and it is
\* not past the pin, whatever order the events' times are in and however old
\* the span is (checked_upper: reading only goes down from it).
SafeStart ==
  done => /\ upper <= Snapshot
          /\ \A i \in (upper + 1)..Snapshot : ~Shows(i)
=============================================================================
