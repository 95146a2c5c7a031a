------------------------------- MODULE Stroke -------------------------------
(***************************************************************************)
(* Strokes (firmware/stroke.h, firmware/stroke.c).  A stroke is the set of *)
(* its keys: the bits that are set.  A key is a letter and a side of the   *)
(* keyboard; the letters of a string have no case here.                    *)
(***************************************************************************)
EXTENDS SequencesExt

InitialLetters == <<"S", "T", "K", "P", "W", "H", "R">>
MiddleLetters  == <<"A", "O", "*", "E", "U">>
FinalLetters   == <<"F", "R", "P", "B", "L", "G", "T", "S", "D", "Z">>

\* The letters behind which S, T, P and R are final.
EndInitials == ToSet(MiddleLetters)

\* Bits 22 to 0, from left to right.
Keys ==
  [i \in 1..7 |-> <<InitialLetters[i], "initial">>]
    \o [i \in 1..5 |-> <<MiddleLetters[i], "middle">>]
    \o [i \in 1..10 |-> <<FinalLetters[i], "final">>]
    \o <<<<"#", "bar">>>>

\* The key for a letter; other characters, like the dash, stand for no key.
KeyOf(letter, initial) ==
  CASE letter \in ToSet(InitialLetters) /\ (initial \/ letter \notin ToSet(FinalLetters)) ->
         {<<letter, "initial">>}
    [] letter \in ToSet(FinalLetters) /\ (~initial \/ letter \notin ToSet(InitialLetters)) ->
         {<<letter, "final">>}
    [] letter \in ToSet(MiddleLetters) -> {<<letter, "middle">>}
    [] letter = "#" -> {<<letter, "bar">>}
    [] OTHER -> {}

\* string_to_stroke: letters are initial until one of the middle has come.
string_to_stroke(string) ==
  UNION {KeyOf(string[i], \A j \in 1..(i - 1) : string[j] \notin EndInitials) :
           i \in DOMAIN string}

\* get_..._stroke: the bit of the key.
IsSet(stroke, key) == key \in stroke

\* How a stroke is written: its letters from left to right.
Written(stroke) ==
  LET keys == SelectSeq(Keys, LAMBDA key : IsSet(stroke, key))
  IN  [i \in DOMAIN keys |-> keys[i][1]]
=============================================================================
