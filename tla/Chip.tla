-------------------------------- MODULE Chip --------------------------------
(***************************************************************************)
(* The state of the microcontroller that survives from one action of the   *)
(* bootloader or the firmware to the next, and what a reset does to it.    *)
(* The code in src/ reads and writes this state through libopencm3; what a *)
(* reset keeps and loses is the chip's doing.                              *)
(***************************************************************************)
EXTENDS UsbPipe, ProgramFlash

VARIABLES
  phase,      \* what the processor is doing, see Phases
  flash,      \* the words of the program area
  unlocked,   \* flash_unlock was called since the last reset
  bkp,        \* bit 0 of BKP_DR1: "run the bootloader next time"
  dbp,        \* the backup domain may be written (since the last reset)
  req,        \* the request a long-running handler works on: none or one
  cur         \* the loop index of that handler, counted from zero

chipVars == <<phase, flash, unlocked, bkp, dbp, req, cur>>

Phases ==
  { "boot",          \* the bootloader is about to choose what to run
    "bootloader",    \* the bootloader sleeps and waits for a request
    "erasing",       \* inside erase_program, at page cur
    "programming",   \* inside the loop over a request's words, at word cur
    "firmware",      \* the firmware runs and waits for a request
    "resetting",     \* in the delay loop between the reply and the reset
    "fault",         \* a bus error stopped the processor
    "damaged" }      \* the bootloader has written over its own code: what it
                     \* does from now on is not known, here it does nothing

ChipTypeOK ==
  /\ phase \in Phases
  /\ DOMAIN flash = Index
  /\ unlocked \in BOOLEAN
  /\ bkp \in BOOLEAN
  /\ dbp \in BOOLEAN
  /\ cur \in Nat

\* No handler is in the middle of its work.
NoHandler == req = {} /\ cur = 0

\* The words that were in the program area when the device was switched on
\* are the initial contents.
ChipInit(contents) ==
  /\ phase = "boot"
  /\ flash = contents
  /\ unlocked = FALSE
  /\ bkp = FALSE
  /\ dbp = FALSE
  /\ NoHandler

-----------------------------------------------------------------------------
(* A reset of any kind starts the bootloader, locks the flash and protects *)
(* the backup register again, and takes the device off the bus.  The words *)
(* in flash stay.                                                          *)

Restart ==
  /\ phase' = "boot"
  /\ unlocked' = FALSE
  /\ dbp' = FALSE
  /\ req' = {} /\ cur' = 0
  /\ PipeDown
  /\ UNCHANGED flash

\* Mutant: the delay loop does not end.
SystemResetDelayed == phase = "resetting" /\ UNCHANGED <<chipVars, pipeVars>>

\* scb_reset_system at the end of the delay loop.  The delay is there for the
\* host to collect the reply; "lateAck" lets the loop end too early.
SystemReset ==
  /\ phase = "resetting"
  /\ inEp = {} \/ "lateAck" \in Disruptions
  /\ Restart
  /\ UNCHANGED bkp

\* The power fails and returns.  The backup register keeps its value only
\* when the chip has a backup battery.  It does not bring back code that the
\* bootloader has written over.
PowerCycle ==
  /\ "power" \in Disruptions
  /\ phase # "damaged"
  /\ Restart
  /\ bkp' \in {bkp, FALSE}

\* The host resets the bus: the endpoints are gone until it has enumerated
\* the device again, but a handler that is running goes on.
BusReset ==
  /\ "bus" \in Disruptions
  /\ usb
  /\ PipeDown
  /\ UNCHANGED chipVars

\* sys_tick_handler when system_millis has counted through its 32 bits.  Only
\* the firmware starts the clock.
Rollover ==
  /\ "rollover" \in Disruptions
  /\ phase = "firmware"
  /\ Restart
  /\ UNCHANGED bkp

Usb == INSTANCE ControlRequests

\* The host enumerates the device, and its HID driver takes the raw HID
\* interface.  All of it runs in the USB interrupt, so it waits for a handler
\* that is running.
Enumerate ==
  /\ \/ phase = "bootloader" /\ Usb!BootloaderServesRawHid
     \/ phase = "firmware" /\ Usb!FirmwareServesRawHid
  /\ PipeUp
  /\ UNCHANGED chipVars

-----------------------------------------------------------------------------
(* REQUEST_RESET is the same code in both programs: open the backup domain,*)
(* set or clear the flag, reply, and spin before resetting.                *)

HandleReset(pkt) ==
  /\ pkt.op = "reset"
  /\ TakeRequest(pkt)
  /\ dbp' = TRUE
  /\ bkp' = (pkt.arg = 1)
  /\ Reply(Answer(TRUE, Zero))
  /\ phase' = "resetting"
  /\ UNCHANGED <<usb, flash, unlocked, req, cur>>

\* A handler that only replies.
JustReply(pkt, answer) ==
  /\ TakeRequest(pkt)
  /\ Reply(answer)
  /\ UNCHANGED <<usb, chipVars>>
=============================================================================
