----------------------------- MODULE SafeUpdate -----------------------------
(***************************************************************************)
(* What updating promises, without the protocol, the flash or the host     *)
(* tool: the device runs nothing, or a complete program that is stored in  *)
(* it; a stored program disappears and a new one appears only while        *)
(* nothing runs, and never a mixture of two; and the user is told that a   *)
(* program is installed only while it is the one that is stored.           *)
(***************************************************************************)
CONSTANTS
  Programs,   \* the programs there are
  Nothing     \* no complete program, or no report

VARIABLES
  stored,     \* the complete program in the device, if there is one
  running,    \* the program that runs, if one runs
  told        \* the program the user was told is installed

safeVars == <<stored, running, told>>

Init ==
  /\ stored \in Programs \cup {Nothing}
  /\ running = Nothing
  /\ told = Nothing

\* The stored program is started.
Start ==
  /\ running = Nothing
  /\ stored \in Programs
  /\ running' = stored
  /\ UNCHANGED <<stored, told>>

\* The program stops: a reset, or the power fails.
Stop == running' = Nothing /\ UNCHANGED <<stored, told>>

\* An update destroys the program before it writes another.
Remove ==
  /\ running = Nothing
  /\ told = Nothing
  /\ stored' = Nothing
  /\ UNCHANGED <<running, told>>

\* The last word of a program and its trailer is written.
Complete(p) ==
  /\ running = Nothing
  /\ stored = Nothing
  /\ stored' = p
  /\ UNCHANGED <<running, told>>

\* The host tool reports success.
Tell == told' = stored /\ UNCHANGED <<stored, running>>

\* The next command begins.
Forget == told' = Nothing /\ UNCHANGED <<stored, running>>

Next ==
  \/ Start
  \/ Stop
  \/ Remove
  \/ \E p \in Programs : Complete(p)
  \/ Tell
  \/ Forget

Spec == Init /\ [][Next]_safeVars
=============================================================================
