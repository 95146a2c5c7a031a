----------------------------- MODULE Bootloader -----------------------------
(***************************************************************************)
(* The bootloader: the choice it makes at boot (bootloader/main.c) and the *)
(* requests it serves over raw HID (bootloader/protocol.c), called from    *)
(* the endpoint callback in the USB interrupt (bootloader/usb.c).          *)
(*                                                                         *)
(* Erasing and programming take long enough for the power, the bus or the  *)
(* host to change in the middle, so these handlers take one step per page  *)
(* and per word.  Every other handler is one step.                         *)
(***************************************************************************)
EXTENDS Chip

CONSTANTS
  PacketWords,    \* words that fit in a flash request: (64 - 6) / 4
  ButtonLevels    \* what the user may do with the button during boot

ASSUME BootloaderAssumption ==
  /\ PacketWords \in Nat \ {0} /\ 4 * PacketWords <= MaxWord
  /\ ButtonLevels \subseteq BOOLEAN /\ ButtonLevels # {}

-----------------------------------------------------------------------------
(* Boot: should_run_firmware and main.                                      *)

\* The user holds the button.  The flag is not looked at.
BootHeldByButton ==
  /\ phase = "boot"
  /\ TRUE \in ButtonLevels
  /\ phase' = "bootloader"
  /\ UNCHANGED <<flash, unlocked, bkp, dbp, req, cur, pipeVars>>

\* The flag asks for the bootloader.  The write that clears it is ignored by
\* a backup domain that is still protected, as it is after every reset.
BootByFlag ==
  /\ phase = "boot"
  /\ FALSE \in ButtonLevels
  /\ bkp
  /\ bkp' = (bkp /\ ~dbp)
  /\ phase' = "bootloader"
  /\ UNCHANGED <<flash, unlocked, dbp, req, cur, pipeVars>>

\* Mutant: a valid program is run without a look at the flag.
BootByContentsOnly ==
  /\ phase = "boot"
  /\ FALSE \in ButtonLevels
  /\ FirmwareCheck(flash) = {"valid"}
  /\ phase' = "firmware"
  /\ UNCHANGED <<flash, unlocked, bkp, dbp, req, cur, pipeVars>>

\* Nobody asks for the bootloader: the stored program decides.
BootByContents ==
  /\ phase = "boot"
  /\ FALSE \in ButtonLevels
  /\ ~bkp
  /\ \E outcome \in FirmwareCheck(flash) :
       phase' = CASE outcome = "valid"   -> "firmware"
                  [] outcome = "invalid" -> "bootloader"
                  [] outcome = "fault"   -> "fault"
  /\ UNCHANGED <<flash, unlocked, bkp, dbp, req, cur, pipeVars>>

Boot == BootHeldByButton \/ BootByFlag \/ BootByContents

-----------------------------------------------------------------------------
(* Requests that take one step.                                             *)

HandleInfo(pkt) == pkt.op = "info" /\ JustReply(pkt, Answer(TRUE, Zero))

HandleDebug(pkt) == pkt.op = "debug" /\ JustReply(pkt, Answer(TRUE, Zero))

HandleBootloader(pkt) ==
  pkt.op = "bootloader" /\ JustReply(pkt, Answer(TRUE, Num(1)))

\* Mutant: the bound lets one word too many pass.
VerifyRefusedLate(n) == Word32(AreaBegin + 4 * n) > AreaEnd + 4

\* The sum wraps: a count of about a quarter of MaxWord passes the bound.
VerifyRefused(n) == Word32(AreaBegin + 4 * n) > AreaEnd

\* The CRC of the first arg words.  One over more words than the area has
\* runs off the end of the flash, and the read faults inside the interrupt.
HandleVerify(pkt) ==
  /\ pkt.op = "verify"
  /\ \/ /\ VerifyRefused(pkt.arg)
        /\ JustReply(pkt, Answer(FALSE, Zero))
     \/ /\ ~VerifyRefused(pkt.arg) /\ pkt.arg <= ProgramWords
        /\ JustReply(pkt, Answer(TRUE, CrcOf(flash, pkt.arg)))
     \/ /\ ~VerifyRefused(pkt.arg) /\ pkt.arg > ProgramWords
        /\ TakeRequest(pkt)
        /\ phase' = "fault"
        /\ UNCHANGED <<usb, inEp, flash, unlocked, bkp, dbp, req, cur>>

HandleUnknown(pkt) == pkt.op = "unknown" /\ JustReply(pkt, Answer(FALSE, Zero))

-----------------------------------------------------------------------------
(* REQUEST_ERASE_PROGRAM.                                                   *)

HandleErase(pkt) ==
  /\ pkt.op = "erase"
  /\ TakeRequest(pkt)
  /\ unlocked' = TRUE
  /\ phase' = "erasing"
  /\ req' = {pkt} /\ cur' = 0
  /\ UNCHANGED <<usb, inEp, flash, bkp, dbp>>

\* Mutant: the loop misses the last page.
EraseMoreOneShort == cur < Pages - 1

\* The loop runs while i <= PROGRAM_AREA_END, so its last turn is for the
\* page behind the area.
EraseMore == cur <= Pages

\* Mutant: the loop does not advance.
ErasePageStepInPlace ==
  /\ phase = "erasing"
  /\ EraseMore
  /\ flash' = ErasePage(flash, cur)
  /\ UNCHANGED <<phase, unlocked, bkp, dbp, req, cur, pipeVars>>

ErasePageStep ==
  /\ phase = "erasing"
  /\ EraseMore
  /\ flash' \in {ErasePage(flash, cur)}
                  \cup (IF "wear" \in Disruptions THEN {flash} ELSE {})
  /\ cur' = cur + 1
  /\ UNCHANGED <<phase, unlocked, bkp, dbp, req, pipeVars>>

\* The handler returns with its reply.
FinishHandler(answer) ==
  /\ Reply(answer)
  /\ phase' = "bootloader"
  /\ req' = {} /\ cur' = 0
  /\ UNCHANGED <<usb, outEp, unlocked, bkp, dbp>>

\* The blank check over the whole area.
EraseDone ==
  /\ phase = "erasing"
  /\ ~EraseMore
  /\ FinishHandler(Answer(Blank(flash), Zero))
  /\ UNCHANGED flash

-----------------------------------------------------------------------------
(* REQUEST_FLASH_PROGRAM.                                                   *)

HandleFlash(pkt) ==
  /\ pkt.op = "flash"
  /\ IF Len(pkt.words) > PacketWords
     THEN JustReply(pkt, Answer(FALSE, Zero))
     ELSE /\ TakeRequest(pkt)
          /\ phase' = "programming"
          /\ req' = {pkt} /\ cur' = 0
          /\ UNCHANGED <<usb, inEp, flash, unlocked, bkp, dbp>>

\* What the cell may hold after flash_program_word; a locked flash ignores it.
MayStore(old, w) ==
  (IF unlocked THEN {Programmed(old, w)} ELSE {old})
    \cup (IF "wear" \in Disruptions THEN {old} ELSE {})

\* Mutant: the word is not read back.
ReadsBackUnseen(stored, w) == TRUE

\* The word is read back and compared.
ReadsBack(stored, w) == stored = w

\* The loop goes on to the next word.
WordDone == cur' = cur + 1 /\ UNCHANGED <<phase, unlocked, bkp, dbp, req, pipeVars>>

\* The loop ends with an error.
WordFails == FinishHandler(Answer(FALSE, Zero))

\* my_flash_program_word on an address inside the area.
WordInArea(a, w) ==
  /\ Programmable(a)
  /\ \E i \in Index : \E stored \in MayStore(flash[i], w) :
       /\ AddressOf(i) = Address(a)
       /\ flash' = [flash EXCEPT ![i] = stored]
       /\ IF ReadsBack(stored, w) THEN WordDone ELSE WordFails

\* The same on an address in front of the area, where the sum wraps to.  There
\* is no memory, which is a fault, or there are the bootloader's own words:
\* the word is refused, or happens to be there already, or clears some of
\* them, and then nobody knows what runs.
WordInFront(a) ==
  /\ Address(a) < AreaBegin
  /\ UNCHANGED flash
  /\ \/ WordDone
     \/ WordFails
     \/ /\ phase' \in {"fault", "damaged"}
        /\ UNCHANGED <<unlocked, bkp, dbp, req, cur, pipeVars>>

\* my_flash_program_word for word number cur of the request, and what the
\* loop does with its result.
ProgramWordStep ==
  /\ phase = "programming"
  /\ \E pkt \in req :
       /\ cur < Len(pkt.words)
       /\ \/ ~Programmable(pkt.arg + cur) /\ WordFails /\ UNCHANGED flash
          \/ WordInArea(pkt.arg + cur, pkt.words[cur + 1])
          \/ WordInFront(pkt.arg + cur)

ProgramDone ==
  /\ phase = "programming"
  /\ \E pkt \in req : cur = Len(pkt.words)
  /\ FinishHandler(Answer(TRUE, Zero))
  /\ UNCHANGED flash

-----------------------------------------------------------------------------
(* endpoint_callback: one request at a time, in the order they arrive.      *)

BootloaderRequest ==
  /\ phase = "bootloader"
  /\ \E pkt \in outEp :
       \/ HandleInfo(pkt)
       \/ HandleErase(pkt)
       \/ HandleFlash(pkt)
       \/ HandleVerify(pkt)
       \/ HandleBootloader(pkt)
       \/ HandleReset(pkt)
       \/ HandleDebug(pkt)
       \/ HandleUnknown(pkt)

BootloaderStep ==
  \/ Boot
  \/ BootloaderRequest
  \/ ErasePageStep
  \/ EraseDone
  \/ ProgramWordStep
  \/ ProgramDone
=============================================================================
