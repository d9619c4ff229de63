----------------------------- MODULE Visibility -----------------------------
(***************************************************************************)
(* The arithmetic of visibility timeouts, shared by the live lane and the  *)
(* in-process one.  Durations are numbers of ticks; what goes to a queue   *)
(* is a number of whole seconds.                                           *)
(***************************************************************************)
EXTENDS Integers

CONSTANTS
  Second,   \* ticks in a second: the unit of a timeout
  Window,   \* VISIBILITY_WINDOW, in ticks
  Margin    \* WINDOW_MARGIN, in ticks

ASSUME WindowAssumption ==
  /\ Second \in Nat \ {0}
  /\ Window \in Nat /\ Margin \in Nat
  /\ Margin <= Window

Min2(a, b) == IF a < b THEN a ELSE b

\* Duration::saturating_sub
Minus(a, b) == IF a < b THEN 0 ELSE a - b

\* whole_seconds: a fraction rounds up.
WholeSeconds(d) == (d + Second - 1) \div Second

\* Mutant of SecondsLeft: the margin is not taken off.
SecondsLeftOfWindow(held) == Minus(Window, held) \div Second

\* window_left of a delivery held for `held`: whole seconds, rounded down.
SecondsLeft(held) == Minus(Window - Margin, held) \div Second

\* Mutant of Period: never below a second.
PeriodFloored(visibility) ==
  IF visibility \div 2 < Second THEN Second ELSE visibility \div 2

\* extension_period
Period(visibility) == visibility \div 2

\* Mutant of Remaining: the timeout runs from the drop.
RemainingFromDrop(visibility, held) ==
  Min2(visibility, Minus(Window - Margin, held))

\* remaining_visibility: where the last half-timeout extension would end.
Remaining(visibility, held) ==
  LET period == Period(visibility)
      last   == (held \div period) * period
  IN  IF visibility = 0 THEN 0
      ELSE Minus(Min2(last + visibility, Window - Margin), held)
=============================================================================
