-------------------------- MODULE MCFirmwareUpdate --------------------------
(***************************************************************************)
(* An area of two pages of four words, flash requests of three words, and  *)
(* programs that need two requests with their trailer.  The area begins at *)
(* byte address 100 and the largest word is 255.  The run with wear has    *)
(* requests of five words, so that one image needs fewer requests than the *)
(* other and words of the longer one can be left behind it.                *)
(***************************************************************************)
EXTENDS QuietInvariant

MCEndWord == Num(255)

\* A program; one word longer and with a zero inside that is preceded by a
\* number larger than the area; as long as the tool accepts; too long.
Short   == <<Num(7), Num(104), Num(0)>>
Vectors == <<Num(200), Num(108), Num(0), Num(9)>>
Longest == <<Num(7), Num(104), Num(3), Num(9), Num(5)>>
TooLong == <<Num(7), Num(104), Num(3), Num(9), Num(5), Num(6)>>

\* Inside this program stands the trailer of a program of no words.
Phantom == <<Num(1), Num(104), Num(0), Num(255), Num(0)>>

Normal  == {Short, <<Num(8), Num(104), Num(9), Num(0)>>}
Worn    == {<<Num(7), Num(104)>>, <<Num(8), Num(105), Num(0), Num(9)>>}
Mixed   == Normal \cup {TooLong}
Faulty  == {Vectors}
AtLimit == {Longest}
Twisted == {Phantom}
One     == {Short}

\* The area is blank, or an earlier update has been carried to its end.
MCContents ==
  {[i \in Index |-> Erased]}
    \cup {Buffer(p) : p \in {q \in Programs : Len(q) + 3 < ProgramWords}}
=============================================================================
