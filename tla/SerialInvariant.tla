--------------------------- MODULE SerialInvariant ---------------------------
(***************************************************************************)
(* Why strokes and texts arrive whole and in order.  What is owed is what  *)
(* is under way: a packet that the listener has begun to hear, the one in  *)
(* the endpoint, and the texts that a call has still to write.  A packet   *)
(* counts as heard when its zero is, and not before, since the sets of its *)
(* bytes go up.                                                            *)
(***************************************************************************)
EXTENDS SerialPort

\* What the two ends can agree on: strokes that their letters tell apart, and
\* texts that nobody takes for something else.
PacketKeys == UNION {ToSet(Sets[set]) : set \in 1..4}

StrokesAreReadable ==
  \A s \in Strokes : s \subseteq PacketKeys /\ string_to_stroke(Written(s)) = s

TextsAreReadable ==
  \A call \in Calls : \A i \in DOMAIN TextsOf(call) : Reading(TextsOf(call)[i]) = Promised(call)[i]

Readable == StrokesAreReadable /\ TextsAreReadable

-----------------------------------------------------------------------------

Bytes == [set : 0..3, bits : SUBSET (0..5)]
Texts == UNION {ToSet(TextsOf(call)) : call \in Calls}
Readings == UNION {ToSet(Promised(call)) : call \in Calls}

Packet(stroke) == make_packet(string_to_stroke(Written(stroke)))

\* The packets in the endpoint, and those that the listener has begun to hear.
Held == IF inEp = {} THEN 0 ELSE 1
Heard == IF line = <<>> THEN 0 ELSE 1

Ends ==
  /\ use \in {"strokes", "text"} /\ configured \in BOOLEAN /\ open \in BOOLEAN
  /\ ~configured => inEp = {} /\ line = <<>> /\ part = <<>>
  /\ \A p, q \in inEp : p = q
  /\ line = <<>> => part = <<>>

StrokesUnderWay ==
  use = "strokes" =>
    /\ todo = <<>> /\ owed \in Seq(Strokes) /\ line \in Seq(Bytes) /\ part \in Seq(Bytes)
    /\ Len(owed) = Heard + Held
    /\ line # <<>> => part \o line = Packet(owed[1])
    /\ \A p \in inEp : p = Packet(owed[Heard + 1])

TextsUnderWay ==
  use = "text" =>
    /\ todo \in Seq(Texts) /\ owed \in Seq(Readings) /\ line = <<>>
    /\ Len(owed) = Held + Len(todo)
    /\ \A t \in inEp : Reading(t) = owed[1]
    /\ \A i \in 1..Len(todo) : Reading(todo[i]) = owed[Held + i]

\* The inductive invariant.
SerialInv == Ends /\ StrokesUnderWay /\ TextsUnderWay
=============================================================================
