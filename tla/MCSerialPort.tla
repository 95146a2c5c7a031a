---------------------------- MODULE MCSerialPort ----------------------------
(***************************************************************************)
(* All strokes of seven keys from all sets of a packet, some of them with  *)
(* the number key, and the one that main sends; the three ways to print,   *)
(* with the largest word that TLC can count to.                            *)
(***************************************************************************)
EXTENDS SerialInvariant

Side(letters, side) == {<<l, side>> : l \in letters}

SevenKeys ==
  Side({"S", "T", "R"}, "initial") \cup Side({"A"}, "middle")
    \cup Side({"F", "T", "S"}, "final")

\* "PHRO*FR"
MainStroke ==
  Side({"P", "H", "R"}, "initial") \cup Side({"O", "*"}, "middle") \cup Side({"F", "R"}, "final")

\* A final letter that could be an initial one needs one of the middle before it.
Unambiguous(stroke) ==
  stroke \cap Side({"T", "S", "R"}, "final") # {} => stroke \cap Side({"A"}, "middle") # {}

Plain == {s \in SUBSET SevenKeys : s # {} /\ Unambiguous(s)}

\* With the number key: alone, with the final T, and without it.
Numbers ==
  {s \cup Side({"#"}, "bar") :
     s \in {{}, Side({"A"}, "middle") \cup Side({"T"}, "final"), Side({"T"}, "initial")}}

MCStrokes == {MainStroke} \cup Plain \cup Numbers

MCCalls ==
  { [op |-> "print", string |-> <<"o", "k">>],
    [op |-> "print_word", word |-> 0],
    [op |-> "print_arg1", string |-> <<"S", "D", " ">>, word |-> 305419896],
    [op |-> "print_arg1", string |-> <<"=">>, word |-> 2147483647] }

ASSUME Readable
=============================================================================
