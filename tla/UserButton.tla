----------------------------- MODULE UserButton -----------------------------
(***************************************************************************)
(* The user button and its debouncing (common/user_button.c).  The counter *)
(* divides the polls into four parts: zero, waiting for a press; up to     *)
(* DEBOUNCE_TICKS, reporting a press whatever the pin says; up to twice    *)
(* that, reporting a release whatever the pin says; and the ends of both,  *)
(* waiting for the pin to change.                                          *)
(***************************************************************************)
EXTENDS Naturals

CONSTANT DebounceTicks   \* DEBOUNCE_TICKS: 20000

ASSUME ButtonAssumption == DebounceTicks \in Nat \ {0}

VARIABLES
  down,      \* the button is down: the pin reads zero
  debounce   \* the counter

ButtonTypeOK == down \in BOOLEAN /\ debounce \in 0..(2 * DebounceTicks)

\* Counting, in either half.
Counting(from) ==
  /\ debounce > from /\ debounce < from + DebounceTicks
  /\ debounce' = debounce + 1

\* is_user_button_pressed returns true.
ReportsPress ==
  \/ debounce = 0 /\ down /\ debounce' = 1
  \/ Counting(0)
  \/ debounce = DebounceTicks /\ down /\ UNCHANGED debounce

\* Mutant: one poll that finds the button up is enough for the next press.
ReportsReleaseImpatiently ==
  \/ debounce = DebounceTicks /\ ~down /\ debounce' = 0
  \/ debounce = 0 /\ ~down /\ UNCHANGED debounce

\* is_user_button_pressed returns false.  A press that is there when the
\* second half ends, and stays, falls through all branches.
ReportsRelease ==
  \/ debounce = DebounceTicks /\ ~down /\ debounce' = debounce + 1
  \/ Counting(DebounceTicks)
  \/ debounce = 2 * DebounceTicks /\ ~down /\ debounce' = 0
  \/ debounce = 2 * DebounceTicks /\ down /\ UNCHANGED debounce
  \/ debounce = 0 /\ ~down /\ UNCHANGED debounce
=============================================================================
