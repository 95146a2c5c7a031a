---------------------------- MODULE SdioInvariant ----------------------------
(***************************************************************************)
(* Why driver and card agree.  A card that the driver did not initialise   *)
(* is idle, and an idle card stays idle unless CMD0 and ACMD41 are sent to *)
(* it, which only an initialisation does.  So whatever the user does, a    *)
(* card that is not idle is the one that the initialisation under way, or  *)
(* the last one, has talked to; and what the driver has learned by the     *)
(* response to a command stays true of that card, because no later command *)
(* changes it.                                                             *)
(***************************************************************************)
EXTENDS Sdio

\* The sizes that a driver may learn.
Sized(csd) == Version(csd) \in {0, 1}
Sizes == {0} \cup {SizeOf(k.csd) : k \in {kind \in Kinds : Sized(kind.csd)}}

\* Sizes that do not overflow: the driver calculates what the description says.
\* A description can say 2^32 bytes, which 32 bits do not hold.
SizesFit ==
  \A k \in Kinds : Sized(k.csd) => SizeOf(k.csd) \in Nat /\ SizeOf(k.csd) = BlocksOf(k.csd)

\* The bytes of a card that counts in bytes have addresses of their own.
BytesFit ==
  \A k \in Kinds : ~k.hc => BlocksOf(k.csd) \in Nat /\ BlocksOf(k.csd) * BlockSize <= AddressSpace

Cards ==
  [kind : Kinds, mode : CardModes, rca : Rcas, wide : BOOLEAN, app : BOOLEAN, at : SUBSET Nat]

Infos ==
  [rca : Rcas, ccs : BOOLEAN, size : Sizes, hcs : BOOLEAN, power : BOOLEAN, wide : BOOLEAN]

Calls ==
  [pc : {"poll"} \cup InitSteps \cup TransferSteps, tries : 0..(MaxRetries - 1),
   deadline : 0..MaxMillis, block : {{}} \cup {{b} : b \in Blocks}]

Records ==
  /\ slot \subseteq Cards /\ \A c, d \in slot : c = d
  /\ sd \in Infos /\ call \in Calls
  /\ initialized \in BOOLEAN /\ misread \in BOOLEAN /\ millis \in 0..MaxMillis

-----------------------------------------------------------------------------

\* The cards that somebody has initialised, in part or as a whole.
Awake == {c \in slot : c.mode # "idle"}

\* What the driver knows after ACMD41, after CMD3 and after CMD9.
SameAddressing == misread \/ \A c \in Awake : c.kind.hc = sd.ccs
SameAddress == sd.rca # 0 /\ \A c \in Awake : c.rca = sd.rca
SameSize == \A c \in Awake : Sized(c.kind.csd) /\ sd.size = SizeOf(c.kind.csd)

AfterCmd9 == {"cmd7", "wide55", "wide6"}
AfterCmd3 == {"cmd9"} \cup AfterCmd9
AfterAcmd41 == {"cmd2", "cmd3"} \cup AfterCmd3

\* A call initialises a card only while none is initialised, and transfers a
\* block only while one is.
RightCall ==
  /\ call.pc \in InitSteps => ~initialized
  /\ call.pc \in TransferSteps => initialized /\ call.block # {}

Learned ==
  /\ call.pc \in AfterAcmd41 \/ initialized => SameAddressing
  /\ call.pc \in AfterCmd3 => SameAddress
  /\ call.pc \in AfterCmd9 => SameSize

\* A card that is awake while the main loop takes it for initialised is ready.
Ready ==
  initialized /\ Awake # {} =>
    /\ sd.power /\ SameAddress /\ SameSize
    /\ \A c \in Awake : c.mode = "tran" /\ c.wide = sd.wide

\* What the card was told to move.
RightAddress ==
  \A c \in slot : \A b \in call.block :
    call.pc = "data" /\ ~misread =>
      \A address \in c.at :
        address = IF c.kind.hc THEN b ELSE (b * BlockSize) % AddressSpace

\* The inductive invariant.
SdioInv == Records /\ RightCall /\ Learned /\ Ready /\ RightAddress
=============================================================================
