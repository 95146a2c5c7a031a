------------------------------- MODULE TxBolt -------------------------------
(***************************************************************************)
(* Packets of the TX Bolt protocol (firmware/txbolt.c).  A byte is the set *)
(* of keys that it belongs to, in its upper bits, and the bits below.      *)
(***************************************************************************)
EXTENDS Stroke

Byte(set, bits) == [set |-> set, bits |-> bits]

Zero == Byte(0, {})

\* The keys of the four sets, lowest bit first, as the comment has them:
\* 00HWPKTS 01UE*OAR 10GLBPRF 110#ZDST
Sets ==
  << <<<<"S", "initial">>, <<"T", "initial">>, <<"K", "initial">>,
       <<"P", "initial">>, <<"W", "initial">>, <<"H", "initial">>>>,
     <<<<"R", "initial">>, <<"A", "middle">>, <<"O", "middle">>,
       <<"*", "middle">>, <<"E", "middle">>, <<"U", "middle">>>>,
     <<<<"F", "final">>, <<"R", "final">>, <<"P", "final">>,
       <<"B", "final">>, <<"L", "final">>, <<"G", "final">>>>,
     <<<<"T", "final">>, <<"S", "final">>, <<"D", "final">>,
       <<"Z", "final">>, <<"#", "bar">>>> >>

\* The bit that a key gets: that of its place, but the number key is not
\* shifted to its own.
Bit(set, i) == IF Sets[set][i] = <<"#", "bar">> THEN 0 ELSE i - 1

Page(stroke, set) ==
  Byte(set - 1, {Bit(set, i) : i \in {k \in DOMAIN Sets[set] : IsSet(stroke, Sets[set][k])}})

\* A set without a key of the stroke is left out.
IfAny(byte) == IF byte.bits = {} THEN <<>> ELSE <<byte>>

Pages(stroke) ==
  IfAny(Page(stroke, 1)) \o IfAny(Page(stroke, 2)) \o IfAny(Page(stroke, 3))
    \o IfAny(Page(stroke, 4))

\* Mutant: a zero only follows when the last byte is not of the last set, which
\* no later byte can continue.
PacketEndingWithLastSet(stroke) ==
  Pages(stroke) \o (IF Page(stroke, 4).bits # {} THEN <<>> ELSE <<Zero>>)

\* Mutant: the packet is filled up with zeros, one too many, and sent whole.
PacketFilledUp(stroke) ==
  [i \in 1..6 |-> IF i <= Len(Pages(stroke)) THEN Pages(stroke)[i] ELSE Zero]

\* Mutant: no zero at the end.
PacketWithoutZero(stroke) == Pages(stroke)

\* make_packet: a zero ends the packet, whatever is in it.
make_packet(stroke) == Append(Pages(stroke), Zero)

-----------------------------------------------------------------------------
(* The other end, by the comment of txbolt.c: "it is reliable to assume     *)
(* that a stroke ended when a lower set is seen", or a zero byte.           *)

EndsBefore(bytes, byte) ==
  bytes # <<>> /\ (byte = Zero \/ byte.set <= Last(bytes).set)

\* The keys of the bytes of one stroke.
StrokeOf(bytes) ==
  UNION {{Sets[byte.set + 1][bit + 1] : bit \in byte.bits} : byte \in ToSet(bytes)}
=============================================================================
