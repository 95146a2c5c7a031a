-------------------------------- MODULE Sdio --------------------------------
(***************************************************************************)
(* The driver of the SD card (firmware/sdio.c), with the main loop that     *)
(* looks for cards (the part of firmware/main.c that is switched off), the  *)
(* millisecond clock that its deadlines come from, and a caller that reads  *)
(* and writes blocks of a card that was initialised.  A step of the driver  *)
(* is one command and its result.                                           *)
(***************************************************************************)
EXTENDS SdCard, FiniteSetsExt

CONSTANTS
  MaxRetries,   \* max_retries
  Patience,     \* the milliseconds that a deadline is away
  MaxMillis,    \* the largest value of system_millis
  BlockSize,    \* the bytes of a block
  AddressSpace, \* 2^32: addresses have 32 bits
  Blocks        \* the blocks that are read and written

ASSUME SdioAssumption ==
  /\ MaxRetries \in Nat \ {0} /\ BlockSize \in Nat \ {0} /\ AddressSpace \in Nat \ {0}
  /\ MaxMillis \in Nat /\ Patience \in 1..MaxMillis
  /\ Blocks \subseteq Nat

VARIABLES
  sd,           \* sd_card_info [rca, ccs, size], hcs, SDIO_POWER and the bus width
  call,         \* where the call is [pc, tries, deadline, block]
  initialized,  \* card_initialized of the main loop
  misread,      \* history: a response to CMD55 was taken for that to ACMD41
  millis,       \* system_millis
  ticked        \* the clock has ticked since the driver's last step

driverVars == <<sd, call, initialized, misread>>
vars == <<slot, calm, driverVars, millis, ticked>>

-----------------------------------------------------------------------------

SdOff == [rca |-> 0, ccs |-> FALSE, size |-> 0, hcs |-> FALSE, power |-> FALSE, wide |-> FALSE]

NoCall == [pc |-> "poll", tries |-> 0, deadline |-> 0, block |-> {}]

InitSteps ==
  { "init", "cmd0", "cmd8", "ocr", "ocr55", "ocr41", "cmd2", "cmd3", "cmd9", "cmd7",
    "wide55", "wide6" }

TransferSteps == {"status", "cmd13", "blocklen", "command", "data"}

Init ==
  /\ slot \in {{}} \cup {{Fresh(k)} : k \in Kinds}
  /\ calm = FALSE
  /\ sd = SdOff /\ call = NoCall /\ initialized = FALSE /\ misread = FALSE
  /\ millis = 0 /\ ticked = FALSE

\* The addition is one of 32 bits.
Deadline == (millis + Patience) % (MaxMillis + 1)

\* The call goes on with another command.
NextStep(label) == [call EXCEPT !.pc = label, !.tries = 0]

\* The call fails; one that initialises powers the interface down.
InitFails ==
  /\ sd' = [sd EXCEPT !.power = FALSE]
  /\ call' = NoCall
  /\ UNCHANGED <<initialized, misread>>

TransferFails == call' = NoCall /\ UNCHANGED <<sd, initialized, misread>>

\* One turn of a loop that sends a command up to MaxRetries times.
TryAgain == [call EXCEPT !.tries = @ + 1]

\* What comes of a command.  Without power the interface has no clock, and a
\* command never ends.
Results(cmd, arg) == IF sd.power THEN Exchange(cmd, arg) ELSE {}

\* Only a transfer meets that, after an initialisation that found no card.
Spins ==
  /\ call.pc = "cmd13" /\ ~sd.power
  /\ UNCHANGED <<slot, driverVars>>

Succeeds(a) == a.result = "success"

\* The loop goes round, or has gone round MaxRetries times.
Repeats(a) ==
  /\ ~Succeeds(a) /\ call.tries + 1 < MaxRetries
  /\ call' = TryAgain
  /\ UNCHANGED <<sd, initialized, misread>>

GivesUp(a) == ~Succeeds(a) /\ call.tries + 1 = MaxRetries

-----------------------------------------------------------------------------
(* The main loop.                                                           *)

FindsCard == slot # {} /\ ~initialized
MissesCard == slot = {} /\ initialized

StartInit ==
  /\ call.pc = "poll" /\ FindsCard
  /\ call' = NextStep("init")
  /\ UNCHANGED <<slot, sd, initialized, misread>>

NoticeRemoval ==
  /\ call.pc = "poll" /\ MissesCard
  /\ initialized' = FALSE
  /\ UNCHANGED <<slot, sd, call, misread>>

PollNothing ==
  /\ call.pc = "poll" /\ ~FindsCard /\ ~MissesCard
  /\ UNCHANGED <<slot, driverVars>>

\* A caller reads or writes a block.
StartTransfer(b) ==
  /\ call.pc = "poll" /\ initialized
  /\ call' = [NoCall EXCEPT !.pc = "status", !.deadline = Deadline, !.block = {b}]
  /\ UNCHANGED <<slot, sd, initialized, misread>>

-----------------------------------------------------------------------------
(* sdio_card_init.                                                          *)

\* Mutant: what is known of the last card is kept.
StartsCardKeepingInfo ==
  /\ call.pc = "init"
  /\ misread' = FALSE
  /\ IF slot = {}
     THEN initialized' = TRUE /\ call' = NoCall /\ UNCHANGED sd
     ELSE /\ sd' = [sd EXCEPT !.power = TRUE, !.wide = FALSE]
          /\ call' = NextStep("cmd0")
          /\ UNCHANGED initialized
  /\ UNCHANGED slot

\* A card that was taken out in the meantime counts as a success.
StartsCard ==
  /\ call.pc = "init"
  /\ misread' = FALSE
  /\ LET cleared == [sd EXCEPT !.rca = 0, !.ccs = FALSE, !.size = 0]
     IN IF slot = {}
        THEN initialized' = TRUE /\ call' = NoCall /\ sd' = cleared
        ELSE /\ sd' = [cleared EXCEPT !.power = TRUE, !.wide = FALSE]
             /\ call' = NextStep("cmd0")
             /\ UNCHANGED initialized
  /\ UNCHANGED slot

GoOn(label) == call' = NextStep(label) /\ UNCHANGED <<sd, initialized, misread>>

\* CMD0 has no response, so its loop goes round once.
ResetsCard ==
  /\ call.pc = "cmd0"
  /\ \E a \in Results(0, 0) : slot' = a.slot /\ GoOn("cmd8")

\* The deadline of the loop that follows is computed here.
WaitForCard(hcs) ==
  /\ sd' = [sd EXCEPT !.hcs = hcs]
  /\ call' = [NextStep("ocr") EXCEPT !.deadline = Deadline]
  /\ UNCHANGED <<initialized, misread>>

AsksVersion ==
  /\ call.pc = "cmd8"
  /\ \E a \in Results(8, 0) :
       /\ slot' = a.slot
       /\ \/ Succeeds(a) /\ a.resp.echo /\ WaitForCard(TRUE)
          \/ Succeeds(a) /\ ~a.resp.echo /\ InitFails
          \/ Repeats(a)
          \/ GivesUp(a) /\ a.result = "timeout" /\ WaitForCard(FALSE)
          \/ GivesUp(a) /\ a.result # "timeout" /\ InitFails

\* Mutant: the loop has no end.
TestsDeadlineNever ==
  /\ call.pc = "ocr"
  /\ GoOn("ocr55")
  /\ UNCHANGED slot

TestsDeadline ==
  /\ call.pc = "ocr"
  /\ IF millis < call.deadline THEN GoOn("ocr55") ELSE InitFails
  /\ UNCHANGED slot

\* What follows the last result of ACMD41, or of CMD55 before it.
LooksAtOcr(a, isOcr) ==
  IF a.result = "crcfail" /\ a.resp.ready
  THEN /\ sd' = [sd EXCEPT !.ccs = a.resp.ccs]
       /\ call' = [NextStep("cmd2") EXCEPT !.deadline = 0]
       /\ misread' = ~isOcr
       /\ UNCHANGED initialized
  ELSE GoOn("ocr")

\* CMD55, which announces an application command.
AnnouncesOcr ==
  /\ call.pc = "ocr55"
  /\ \E a \in Results(55, sd.rca) :
       /\ slot' = a.slot
       /\ \/ /\ Succeeds(a)
             /\ call' = [call EXCEPT !.pc = "ocr41"]
             /\ UNCHANGED <<sd, initialized, misread>>
          \/ Repeats(a)
          \/ GivesUp(a) /\ LooksAtOcr(a, FALSE)

\* A failed checksum is what ends the loop.
AsksOcr ==
  /\ call.pc = "ocr41"
  /\ \E a \in Results(41, sd.hcs) :
       /\ slot' = a.slot
       /\ IF a.result # "crcfail" /\ call.tries + 1 < MaxRetries
          THEN call' = [TryAgain EXCEPT !.pc = "ocr55"] /\ UNCHANGED <<sd, initialized, misread>>
          ELSE LooksAtOcr(a, TRUE)

AsksId ==
  /\ call.pc = "cmd2"
  /\ \E a \in Results(2, 0) :
       /\ slot' = a.slot
       /\ \/ Succeeds(a) /\ GoOn("cmd3")
          \/ Repeats(a)
          \/ GivesUp(a) /\ InitFails

\* sd_card_info after a result of CMD3.
Known(a) == IF Succeeds(a) THEN [sd EXCEPT !.rca = a.resp.rca] ELSE sd

\* Mutant: one turn of the loop too many.
AsksAddressOnceMore ==
  /\ call.pc = "cmd3"
  /\ \E a \in Results(3, 0) :
       /\ slot' = a.slot
       /\ IF Succeeds(a) /\ a.resp.rca # 0
          THEN sd' = Known(a) /\ call' = NextStep("cmd9")
          ELSE IF call.tries < MaxRetries
               THEN sd' = Known(a) /\ call' = TryAgain
               ELSE sd' = [Known(a) EXCEPT !.power = FALSE] /\ call' = NoCall
  /\ UNCHANGED <<initialized, misread>>

\* Mutant: an address of zero is as good as any other.
AsksAddressZeroToo ==
  /\ call.pc = "cmd3"
  /\ \E a \in Results(3, 0) :
       /\ slot' = a.slot
       /\ IF Succeeds(a)
          THEN sd' = Known(a) /\ call' = NextStep("cmd9")
          ELSE IF call.tries + 1 < MaxRetries
               THEN sd' = Known(a) /\ call' = TryAgain
               ELSE sd' = [Known(a) EXCEPT !.power = FALSE] /\ call' = NoCall
  /\ UNCHANGED <<initialized, misread>>

\* An address of zero is asked for again, and kept if there is no more try.
AsksAddress ==
  /\ call.pc = "cmd3"
  /\ \E a \in Results(3, 0) :
       /\ slot' = a.slot
       /\ IF Succeeds(a) /\ a.resp.rca # 0
          THEN sd' = Known(a) /\ call' = NextStep("cmd9")
          ELSE IF call.tries + 1 < MaxRetries
               THEN sd' = Known(a) /\ call' = TryAgain
               ELSE sd' = [Known(a) EXCEPT !.power = FALSE] /\ call' = NoCall
  /\ UNCHANGED <<initialized, misread>>

\* The number in some neighbouring bits of a word, (word >> low) & (2^width - 1).
Bits(word, low, width) == SumSet({2^i : i \in {j \in 0..(width - 1) : low + j \in word}})

\* Register n of the response: RESP1 has the upper 32 bits.
Resp(csd, n) == {j \in 0..31 : 128 - 32 * n + j \in csd}

Version(csd) == Bits(Resp(csd, 1), 30, 2)

\* The size in blocks of 512 bytes.  Version 1: the bytes are counted in 32
\* bits and divided; version 2: c_size + 1 is shifted by ten bits.
SizeOf(csd) ==
  IF Version(csd) = 0
  THEN LET read_bl_len == Bits(Resp(csd, 2), 16, 4)
           c_size == Bits(Resp(csd, 2), 0, 10) * 4 + Bits(Resp(csd, 3), 30, 2)
           c_size_mult == Bits(Resp(csd, 3), 15, 3)
           shift == read_bl_len + c_size_mult + 2
       IN ((c_size + 1) % 2^(32 - shift)) * 2^(shift - 9)
  ELSE LET c_size == Bits(Resp(csd, 2), 0, 6) * 2^16 + Bits(Resp(csd, 3), 16, 16)
       IN ((c_size + 1) % 2^22) * 2^10

\* A description of another version is a failure.
LearnsSize(csd) ==
  IF Version(csd) \in {0, 1}
  THEN /\ sd' = [sd EXCEPT !.size = SizeOf(csd)]
       /\ call' = NextStep("cmd7")
       /\ UNCHANGED <<initialized, misread>>
  ELSE InitFails

AsksSize ==
  /\ call.pc = "cmd9"
  /\ \E a \in Results(9, sd.rca) :
       /\ slot' = a.slot
       /\ \/ Succeeds(a) /\ \E csd \in a.resp.csd : LearnsSize(csd)
          \/ Repeats(a)
          \/ GivesUp(a) /\ InitFails

Selects ==
  /\ call.pc = "cmd7"
  /\ \E a \in Results(7, sd.rca) :
       /\ slot' = a.slot
       /\ \/ Succeeds(a) /\ GoOn("wide55")
          \/ Repeats(a)
          \/ GivesUp(a) /\ InitFails

AnnouncesWidth ==
  /\ call.pc = "wide55"
  /\ \E a \in Results(55, sd.rca) :
       /\ slot' = a.slot
       /\ \/ /\ Succeeds(a)
             /\ call' = [call EXCEPT !.pc = "wide6"]
             /\ UNCHANGED <<sd, initialized, misread>>
          \/ Repeats(a)
          \/ GivesUp(a) /\ InitFails

\* The card is ready, and the main loop is told so.
InitSucceeds ==
  /\ sd' = [sd EXCEPT !.wide = TRUE]
  /\ call' = NoCall
  /\ initialized' = TRUE
  /\ UNCHANGED misread

\* Mutant: nobody looks at what the card says of the bus width.
SetsWidthUnchecked ==
  /\ call.pc = "wide6"
  /\ \E a \in Results(6, 2) : slot' = a.slot /\ InitSucceeds

SetsWidth ==
  /\ call.pc = "wide6"
  /\ \E a \in Results(6, 2) :
       /\ slot' = a.slot
       /\ \/ Succeeds(a) /\ InitSucceeds
          \/ /\ ~Succeeds(a) /\ call.tries + 1 < MaxRetries
             /\ call' = [TryAgain EXCEPT !.pc = "wide55"]
             /\ UNCHANGED <<sd, initialized, misread>>
          \/ GivesUp(a) /\ InitFails

-----------------------------------------------------------------------------
(* sdio_read_block and sdio_write_block.                                    *)

\* wait_for_data_ready: the loop's test, and its command.
TestsTimeout ==
  /\ call.pc = "status"
  /\ IF millis < call.deadline THEN GoOn("cmd13") ELSE TransferFails
  /\ UNCHANGED slot

AsksStatus ==
  /\ call.pc = "cmd13"
  /\ \E a \in Results(13, sd.rca) :
       /\ slot' = a.slot
       /\ call' = IF Succeeds(a) /\ a.resp.ready
                  THEN [NextStep(IF sd.ccs THEN "command" ELSE "blocklen")
                          EXCEPT !.deadline = 0]
                  ELSE NextStep("status")
  /\ UNCHANGED <<sd, initialized, misread>>

SetsBlockLength ==
  /\ call.pc = "blocklen"
  /\ \E a \in Results(16, 512) :
       /\ slot' = a.slot
       /\ \/ Succeeds(a) /\ GoOn("command")
          \/ Repeats(a)
          \/ GivesUp(a) /\ TransferFails

\* Mutant: the address is one of blocks for every card.
AddressOfBlock(b) == b

\* Cards of standard capacity count in bytes.  The product is one of 32 bits.
Address(b) == IF sd.ccs THEN b ELSE (b * BlockSize) % AddressSpace

\* This command is sent once.
Commands ==
  /\ call.pc = "command"
  /\ \E b \in call.block, cmd \in {17, 24} :
       \E a \in Results(cmd, Address(b)) :
         /\ slot' = a.slot
         /\ IF Succeeds(a) THEN GoOn("data") ELSE TransferFails

\* The data end in success or error; the hardware's timer sees to that.
\* Either way the call is over, and the card no longer moves a block.
EndsData ==
  /\ call.pc = "data"
  /\ call' = NoCall
  /\ slot' = {[c EXCEPT !.at = {}] : c \in slot}
  /\ UNCHANGED <<sd, initialized, misread>>

-----------------------------------------------------------------------------

CardInit ==
  \/ StartsCard \/ ResetsCard \/ AsksVersion
  \/ TestsDeadline \/ AnnouncesOcr \/ AsksOcr
  \/ AsksId \/ AsksAddress \/ AsksSize \/ Selects
  \/ AnnouncesWidth \/ SetsWidth

Transfer == TestsTimeout \/ Spins \/ AsksStatus \/ SetsBlockLength \/ Commands \/ EndsData

MainLoop == StartInit \/ NoticeRemoval \/ PollNothing

Driver ==
  /\ MainLoop \/ CardInit \/ Transfer \/ \E b \in Blocks : StartTransfer(b)
  /\ ticked' = FALSE
  /\ UNCHANGED <<calm, millis>>

\* A millisecond is longer than a step of the driver.
Tick ==
  /\ ~ticked /\ ticked' = TRUE
  /\ millis < MaxMillis /\ millis' = millis + 1
  /\ UNCHANGED <<slot, calm, driverVars>>

\* sys_tick_handler resets the chip when the counter is zero again; the card
\* stays as it is.
Rollover ==
  /\ ~ticked /\ ticked' = TRUE
  /\ millis = MaxMillis /\ millis' = 0
  /\ sd' = SdOff /\ call' = NoCall /\ initialized' = FALSE /\ misread' = FALSE
  /\ UNCHANGED <<slot, calm>>

User ==
  /\ RemoveCard \/ CalmDown \/ \E k \in Kinds : InsertCard(k)
  /\ UNCHANGED <<driverVars, millis, ticked>>

Next == Driver \/ Tick \/ Rollover \/ User

\* The processor and the clock go on; that the counter rolls over, after 49
\* days, is not something to wait for.
Fairness == WF_vars(Driver) /\ WF_vars(Tick)

Spec == Init /\ [][Next]_vars /\ Fairness

-----------------------------------------------------------------------------
(* Safety.                                                                  *)

TypeOK ==
  /\ \A c, d \in slot : c = d
  /\ \A c \in slot : c.mode \in CardModes /\ c.rca \in Rcas
  /\ sd.rca \in Rcas /\ sd.size \in Nat
  /\ call.pc \in {"poll"} \cup InitSteps \cup TransferSteps
  /\ call.tries \in 0..(MaxRetries - 1) /\ call.deadline \in 0..MaxMillis
  /\ initialized \in BOOLEAN /\ millis \in 0..MaxMillis

\* What the CSD says, in blocks of 512 bytes (sdio.c: "byte_size = BLOCK_LEN *
\* MULT * (C_SIZE + 1)", "byte_size = (C_SIZE + 1) * 512K").  The numbers of the
\* bits are those of the card's specification: CSD_STRUCTURE, C_SIZE_MULT,
\* C_SIZE, READ_BL_LEN, and the C_SIZE of the second version.
BlocksOf(csd) ==
  IF Bits(csd, 126, 2) = 0
  THEN 2^(Bits(csd, 47, 3) + 2) * (Bits(csd, 62, 12) + 1) * (2^Bits(csd, 80, 4) \div 512)
  ELSE (Bits(csd, 48, 22) + 1) * 1024

\* While the main loop takes the card for initialised, and the user has not
\* put another one in its place, driver and card agree on the address, the bus
\* width, the size and the addressing, whatever was lost, repeated or spoilt on
\* the way (sdio_card_init).  They agree on the addressing unless the driver
\* took a spoilt response to CMD55 for one to ACMD41.
KnowsTheCard ==
  \A c \in slot :
    initialized /\ c.mode # "idle" =>
      /\ c.mode = "tran" /\ sd.power
      /\ sd.rca = c.rca /\ sd.rca # 0
      /\ sd.wide = c.wide
      /\ sd.size = BlocksOf(c.kind.csd)
      /\ ~misread => sd.ccs = c.kind.hc

\* A card that moves data for a call moves the block that the call was for, if
\* it has such a block, also when cards are exchanged between the commands of
\* the call (sdio_read_block, sdio_write_block).
MovesTheRightBlock ==
  \A c \in slot : \A b \in call.block :
    call.pc = "data" /\ ~misread /\ b < BlocksOf(c.kind.csd) =>
      \A address \in c.at : b = IF c.kind.hc THEN address ELSE address \div BlockSize

-----------------------------------------------------------------------------
(* Liveness.                                                                *)

\* Every call ends, whatever the card and the user do, as long as the interface
\* has power (sdio_card_init, wait_for_data_ready).
CallsEnd == call.pc # "poll" /\ (initialized => sd.power) ~> call.pc = "poll"

\* Once nothing disturbs the wire any more, a card that was not initialised is:
\* a failed attempt, an exchanged card or a reset leaves nothing behind that
\* stops the next one (sdio_card_init, main).  The counter must be far from
\* rolling over: shortly before that a deadline has passed when it is set.
CardGetsInitialized ==
  (calm /\ ~initialized /\ millis <= 1 /\ \E c \in slot : Version(c.kind.csd) \in {0, 1})
    ~> (initialized /\ \E c \in slot : c.mode = "tran")
=============================================================================
