------------------------------- MODULE MCSdio -------------------------------
(***************************************************************************)
(* An old card of standard capacity, one of high capacity, and one whose   *)
(* description the driver does not know.  The fields of their descriptions *)
(* have ones in both of the registers that they are spread over.  Blocks   *)
(* have 512 bytes and addresses 30 bits (the model checker has integers of *)
(* 32), so that the larger block is on the card of high capacity, and the  *)
(* address of its first byte is that of the smaller one when it wraps.     *)
(***************************************************************************)
EXTENDS SdioInvariant

\* The bits from low on that make the number n.
Field(n, low, width) == {low + i : i \in {j \in 0..(width - 1) : (n \div 2^j) % 2 = 1}}

\* 699136 blocks: fewer than 2^21, which have 2^30 bytes.
Standard ==
  [v2 |-> FALSE, hc |-> FALSE,
   csd |-> Field(10, 80, 4) \cup Field(2730, 62, 12) \cup Field(5, 47, 3)]

High == [v2 |-> TRUE, hc |-> TRUE, csd |-> {126} \cup Field(74795, 48, 22)]

Unknown == [v2 |-> TRUE, hc |-> TRUE, csd |-> {127}]

MCKinds == {Standard, High, Unknown}

MCBlocks == {3, 3 + 2^21}

\* None of them is so large that its size, or the addresses of its bytes,
\* overflow.
ASSUME SizesFit /\ BytesFit
=============================================================================
