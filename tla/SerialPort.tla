----------------------------- MODULE SerialPort -----------------------------
(***************************************************************************)
(* The serial port of the firmware, in its two uses: strokes that the main *)
(* loop sends as TX Bolt packets, and text for debugging                   *)
(* (firmware/debug.c).  Both write packets to the same endpoint; strokes   *)
(* that it refuses are lost, and text waits until it is taken, which an    *)
(* endpoint that is not set up may do and lose it.  A build has one of the *)
(* uses: main.c has both under #if 0.                                      *)
(*                                                                         *)
(* At the other end a driver of the host opens the port and hands over     *)
(* what it reads, to a program that listens to strokes, byte by byte, or   *)
(* to a terminal.                                                          *)
(***************************************************************************)
EXTENDS TxBolt, ControlRequests

CONSTANTS
  Strokes,   \* the strokes that the main loop may send
  Calls      \* the calls of print, print_word and print_arg1

\* The button stands for some key, and a text fits into the endpoint and is not
\* empty: print neither splits nor ends otherwise.
ASSUME SerialAssumption ==
  /\ {} \notin Strokes
  /\ \A call \in Calls :
       /\ call.op \in {"print", "print_word", "print_arg1"}
       /\ call.op # "print_word" => Len(call.string) \in 1..64

VARIABLES
  use,          \* what the port is used for: "strokes" or "text"
  todo,         \* the texts that the call in progress has not yet written
  configured,   \* the host has configured the device
  open,         \* a program of the host has opened the port
  inEp,         \* the packet in the endpoint: none or one
  line,         \* the bytes of a packet that the listener has not yet heard
  part,         \* the bytes of the stroke that it is hearing
  owed          \* what was sent and not yet received, in order: a history

vars == <<use, todo, configured, open, inEp, line, part, owed>>

-----------------------------------------------------------------------------
(* Text.                                                                    *)

HexDigits ==
  <<"0", "1", "2", "3", "4", "5", "6", "7", "8", "9", "A", "B", "C", "D", "E", "F">>

\* The characters that print_word writes behind "0x".
WordDigits(word) == [i \in 1..8 |-> HexDigits[((word \div 16^(8 - i)) % 16) + 1]]

Text(string) == [text |-> string, size |-> Len(string)]

NewLine == Text(<<"\r", "\n">>)

\* The strings that a call prints, each with a print of its own.
TextsOf(call) ==
  LET word == Text(<<"0", "x">> \o WordDigits(call.word))
  IN  CASE call.op = "print"      -> <<Text(call.string)>>
        [] call.op = "print_word" -> <<word>>
        [] call.op = "print_arg1" -> <<Text(call.string), word, NewLine>>

\* What a reader makes of a text: a number, or the string itself.
Reading(t) ==
  IF t.size = 10 /\ SubSeq(t.text, 1, 2) = <<"0", "x">>
  THEN <<"number", FoldLeft(LAMBDA n, d : 16 * n + IndexFirstSubSeq(<<d>>, HexDigits) - 1,
                            0, SubSeq(t.text, 3, 10))>>
  ELSE <<"string", t.text>>

\* What a call is to bring to the reader.
Promised(call) ==
  CASE call.op = "print"      -> <<<<"string", call.string>>>>
    [] call.op = "print_word" -> <<<<"number", call.word>>>>
    [] call.op = "print_arg1" -> <<<<"string", call.string>>, <<"number", call.word>>,
                                   <<"string", NewLine.text>>>>

-----------------------------------------------------------------------------

Init ==
  /\ use \in {"strokes", "text"}
  /\ todo = <<>> /\ owed = <<>>
  /\ configured = FALSE /\ open = FALSE /\ inEp = {}
  /\ line = <<>> /\ part = <<>>

\* Mutant: a packet goes over the one that nobody has read yet.
AcceptsOver(size) ==
  configured /\ Fits(SetUpSize, cdc_data_interface, "cdcDataIn", size)

\* usb_send_serial_data takes a packet.
Accepts(size) ==
  configured /\ inEp = {} /\ Fits(SetUpSize, cdc_data_interface, "cdcDataIn", size)

\* The button is found pressed, and the packet written or lost.
SendStroke(stroke) ==
  /\ use = "strokes"
  /\ LET packet == make_packet(string_to_stroke(Written(stroke)))
     IN  IF Accepts(Len(packet))
         THEN inEp' = {packet} /\ owed' = Append(owed, stroke)
         ELSE UNCHANGED <<inEp, owed>>
  /\ UNCHANGED <<use, todo, configured, open, line, part>>

Call(call) ==
  /\ use = "text" /\ todo = <<>>
  /\ todo' = TextsOf(call)
  /\ owed' = owed \o Promised(call)
  /\ UNCHANGED <<use, configured, open, inEp, line, part>>

\* Mutant: print does not look at what it gets.
PrintOnce ==
  /\ todo # <<>>
  /\ inEp' = IF Accepts(Head(todo).size) THEN {Head(todo)} ELSE inEp
  /\ todo' = Tail(todo)
  /\ UNCHANGED <<use, configured, open, line, part, owed>>

\* The turn of the loop of print in which the endpoint takes the text.
PrintGoesOn ==
  /\ todo # <<>>
  /\ Accepts(Head(todo).size)
  /\ inEp' = {Head(todo)}
  /\ todo' = Tail(todo)
  /\ UNCHANGED <<use, configured, open, line, part, owed>>

\* An endpoint that is not set up may take the text as well; its set-up then
\* empties it.
PrintGetsLost ==
  /\ todo # <<>> /\ ~configured
  /\ todo' = Tail(todo)
  /\ owed' = Tail(owed)
  /\ UNCHANGED <<use, configured, open, inEp, line, part>>

-----------------------------------------------------------------------------
(* The host.                                                                *)

\* set_config_handler.
Configure ==
  /\ ~configured /\ Configurable
  /\ configured' = TRUE /\ inEp' = {}
  /\ UNCHANGED <<use, todo, open, line, part, owed>>

SetUpRequests ==
  { Request("out", "class", Cdc.set_line_coding, 0, CdcCommInterface, <<0, 0, 0, 0, 0, 0, 8>>),
    Request("out", "class", Cdc.set_control_line_state, 3, CdcCommInterface, <<>>) }

\* The driver sets up the line and opens the port only when it can.
OpenPort ==
  /\ configured /\ SerialPortFound /\ ~open
  /\ \A r \in SetUpRequests : InterfaceAnswer(r, 0, 0) = Ack
  /\ open' = TRUE
  /\ UNCHANGED <<use, todo, configured, inEp, line, part, owed>>

\* It reads the next packet when the listener has heard the one before.
ReadStroke ==
  /\ use = "strokes" /\ open /\ line = <<>>
  /\ \E packet \in inEp : line' = packet
  /\ inEp' = {}
  /\ UNCHANGED <<use, todo, configured, open, part, owed>>

ReadText ==
  /\ use = "text" /\ open
  /\ inEp # {} /\ inEp' = {}
  /\ owed' = Tail(owed)
  /\ UNCHANGED <<use, todo, configured, open, line, part>>

\* The listener hears a byte.
Hear ==
  /\ line # <<>>
  /\ LET byte == Head(line)
         ends == EndsBefore(part, byte)
     IN  /\ owed' = IF ends THEN Tail(owed) ELSE owed
         /\ part' = (IF ends THEN <<>> ELSE part) \o (IF byte = Zero THEN <<>> ELSE <<byte>>)
  /\ line' = Tail(line)
  /\ UNCHANGED <<use, todo, configured, open, inEp>>

\* The port goes away with all that was on its way.  Of a text, what was not
\* written yet is still to come.
BusReset ==
  /\ configured
  /\ configured' = FALSE /\ open' = FALSE
  /\ inEp' = {} /\ line' = <<>> /\ part' = <<>>
  /\ owed' = IF use = "strokes" THEN <<>> ELSE IF inEp = {} THEN owed ELSE Tail(owed)
  /\ UNCHANGED <<use, todo>>

Listener == OpenPort \/ ReadStroke \/ ReadText \/ Hear

Next ==
  \/ \E stroke \in Strokes : SendStroke(stroke)
  \/ \E call \in Calls : Call(call)
  \/ PrintGoesOn \/ PrintGetsLost
  \/ Configure \/ Listener \/ BusReset

\* A call that has begun goes on; the host configures, and somebody opens the
\* port and reads.
Fairness == WF_vars(PrintGoesOn) /\ WF_vars(Configure) /\ WF_vars(Listener)

Spec == Init /\ [][Next]_vars /\ Fairness

-----------------------------------------------------------------------------
(* Safety.                                                                  *)

TypeOK ==
  /\ use \in {"strokes", "text"}
  /\ configured \in BOOLEAN /\ open \in BOOLEAN
  /\ \A p, q \in inEp : p = q
  /\ Len(line) <= 5 /\ Len(part) <= 4

\* The keys that make_packet puts on the same bit.
Confused == {<<"#", "bar">>, <<"T", "final">>}

\* A stroke that the listener takes for complete is the next one that was
\* sent, key for key, whatever strokes were lost before it (make_packet: "we
\* send a zero byte after each stroke regardless of it being necessary"), and
\* however it was written (string_to_stroke).  With the number key, all other
\* keys but the final T are right.
StrokesArriveWhole ==
  line # <<>> /\ EndsBefore(part, Head(line)) =>
    /\ owed # <<>>
    /\ StrokeOf(part) \ Confused = Head(owed) \ Confused
    /\ <<"#", "bar">> \notin Head(owed) => StrokeOf(part) = Head(owed)

\* What was sent is received as soon as it is read: no stroke waits for the
\* next one (make_packet: "reduces delay issues for the final stroke"), and
\* no text is left when print has returned.
NothingHeldBack ==
  inEp = {} /\ line = <<>> /\ todo = <<>> => owed = <<>> /\ part = <<>>

\* The text in the endpoint is the next that was to be printed; a word comes
\* out as the number it is (print, print_word, print_arg1).
TextArrivesInOrder ==
  use = "text" => \A t \in inEp : owed # <<>> /\ Reading(t) = Head(owed)

-----------------------------------------------------------------------------
(* Liveness.                                                                *)

\* A call of print ends when the bus is reset no more: the host can configure
\* the device and open the port, and somebody reads it (the loop in print).
PrintEnds == <>[][~BusReset]_vars => (todo # <<>> ~> todo = <<>>)
=============================================================================
