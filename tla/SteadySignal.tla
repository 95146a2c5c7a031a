---------------------------- MODULE SteadySignal ----------------------------
(***************************************************************************)
(* What debouncing promises: a signal that, once it has turned, keeps its  *)
(* value for at least Ticks polls.                                         *)
(***************************************************************************)
EXTENDS Naturals

CONSTANT Ticks

VARIABLES
  on,    \* the signal
  age    \* polls since it turned, up to Ticks

Init == on = FALSE /\ age = Ticks

\* A poll that finds the signal as it was.
Keep == UNCHANGED on /\ age' = IF age < Ticks THEN age + 1 ELSE age

\* A poll that finds it turned.
Turn == age = Ticks /\ on' = ~on /\ age' = 1

Next == Keep \/ Turn

Spec == Init /\ [][Next]_<<on, age>>
=============================================================================
