------------------------------ MODULE ViewModel ------------------------------
(***************************************************************************)
(* The ledger window's view model (crates/acui-model/src/lib.rs): which    *)
(* windows of ledger positions are loaded, under which query, and which    *)
(* window comes next below and above them.  Every operation is a function  *)
(* from a view to a view, as the methods of ViewModel are; LedgerWindow    *)
(* says when they run.                                                     *)
(*                                                                         *)
(* Rows are abstracted to the windows they came in, oldest first: what the *)
(* properties ask of rows is which positions were read, once each, in      *)
(* order, and under which query.  A window's query is the filters and the  *)
(* time bound it was asked under.                                          *)
(***************************************************************************)
EXTENDS Integers, Sequences

CONSTANTS
  Filters,     \* the tab and the filter boxes, as one opaque value each
  Bounds,      \* the time bounds the cursor can stand for
  NoBound,     \* the cursor at its top: no time bound
  WINDOW,      \* positions of one ordinary window (256 in the code)
  MAX_WIDTH    \* positions of the widest one (16 * WINDOW in the code)

ASSUME WindowAssumption ==
  /\ WINDOW \in Nat \ {0}
  /\ MAX_WIDTH \in Nat
  /\ MAX_WIDTH >= WINDOW
  /\ NoBound \notin Bounds

TimeBounds == Bounds \cup {NoBound}

Query == [filter : Filters, bound : TimeBounds]

Window == [from : Nat \ {0}, to : Nat \ {0}, query : Query]

\* lowest = 0 is the code's lowest_read = None, and low = high = 0 its
\* scope.range = None: positions start at 1.
View ==
  [filter : Filters, bound : TimeBounds, pin : Nat,
   upper : Nat, lowest : Nat, width : Nat \ {0},
   windows : Seq(Window), low : Nat, high : Nat,
   span : BOOLEAN, queryError : BOOLEAN, followError : BOOLEAN]

QueryOf(v) == [filter |-> v.filter, bound |-> v.bound]

NewView(pin, span, filter) ==
  [filter |-> filter, bound |-> NoBound, pin |-> pin,
   upper |-> pin, lowest |-> 0, width |-> WINDOW,
   windows |-> <<>>, low |-> 0, high |-> 0,
   span |-> span, queryError |-> FALSE, followError |-> FALSE]

Begin(v, upper) ==
  [v EXCEPT !.windows = <<>>, !.upper = upper, !.lowest = 0, !.width = WINDOW,
            !.low = 0, !.high = 0]

-----------------------------------------------------------------------------
(* The next window down, from what is loaded or from the upper end.        *)
Top(v) == IF v.lowest = 0 THEN v.upper ELSE v.lowest - 1

HasEarlier(v) == Top(v) > 0

NextFrom(v) == IF Top(v) > v.width - 1 THEN Top(v) - (v.width - 1) ELSE 1

NextWindow(v) == [from |-> NextFrom(v), to |-> Top(v), query |-> QueryOf(v)]

(* How many events a window brought back, against a page: fewer than a     *)
(* quarter widens the next one, half or more puts it back.                 *)
Densities == {"sparse", "some", "dense"}

NextWidth(width, density) ==
  CASE density = "sparse" -> IF 2 * width <= MAX_WIDTH THEN 2 * width ELSE MAX_WIDTH
    [] density = "dense"  -> WINDOW
    [] OTHER              -> width

ApplyWindow(v, w, density) ==
  [v EXCEPT !.windows = <<w>> \o v.windows,
            !.lowest = w.from,
            !.width = NextWidth(v.width, density),
            !.low = w.from,
            !.high = IF v.high = 0 THEN w.to ELSE v.high]

-----------------------------------------------------------------------------
\* Mutant: the last position before the pin is taken for the end.
HasNewerShort(v) == v.bound = NoBound /\ v.upper + 1 < v.pin

(* The next window above what is loaded, up to the pin; never under a      *)
(* time bound.                                                             *)
HasNewer(v) == v.bound = NoBound /\ v.upper < v.pin

NewerTo(v) == IF v.upper + WINDOW < v.pin THEN v.upper + WINDOW ELSE v.pin

NextNewerWindow(v) == [from |-> v.upper + 1, to |-> NewerTo(v), query |-> QueryOf(v)]

\* Mutant: the first window read, being a newer one, is not the lowest.
ApplyNewerAbove(v, w) ==
  [v EXCEPT !.windows = Append(v.windows, w),
            !.upper = w.to,
            !.low = IF v.low = 0 THEN w.from ELSE v.low,
            !.high = w.to]

ApplyNewerWindow(v, w) ==
  [v EXCEPT !.windows = Append(v.windows, w),
            !.upper = w.to,
            !.lowest = IF v.lowest = 0 THEN w.from ELSE v.lowest,
            !.low = IF v.low = 0 THEN w.from ELSE v.low,
            !.high = w.to]

SetPin(v, pin) == [v EXCEPT !.pin = pin]

-----------------------------------------------------------------------------
(* The loaded windows leave no gap, read no position twice, stand in       *)
(* ledger order, reach from the lowest position read to the upper end, and *)
(* are what the top bar states as read.                                    *)
Adjacent(ws) ==
  /\ \A i \in 1..Len(ws) : ws[i].from <= ws[i].to
  /\ \A i \in 1..(Len(ws) - 1) : ws[i + 1].from = ws[i].to + 1

Covers(v) ==
  IF v.windows = <<>>
    THEN v.lowest = 0 /\ v.low = 0 /\ v.high = 0
    ELSE /\ v.windows[1].from = v.lowest
         /\ v.windows[Len(v.windows)].to = v.upper
         /\ v.low = v.lowest
         /\ v.high = v.upper

Contiguous(v) == Adjacent(v.windows) /\ Covers(v) /\ v.upper <= v.pin
=============================================================================
