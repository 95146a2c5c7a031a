------------------------------- MODULE Device -------------------------------
(***************************************************************************)
(* The device: the bootloader or the firmware, whichever runs, and what    *)
(* the power, the bus and the clock may do to it.  The other end of the    *)
(* USB cable is in the modules that extend this one.                       *)
(***************************************************************************)
EXTENDS Bootloader, Firmware

deviceVars == <<chipVars, pipeVars>>

DeviceStep ==
  \/ BootloaderStep
  \/ FirmwareStep
  \/ Enumerate
  \/ SystemReset
  \/ PowerCycle
  \/ BusReset
  \/ Rollover

\* What the processor and the bus do on their own accord; a power failure, a
\* bus reset or a rollover may happen but need not.
DeviceProgress == BootloaderStep \/ FirmwareStep \/ Enumerate \/ SystemReset

\* Only a reset helps, if anything does.
Stopped == {"fault", "damaged"}

-----------------------------------------------------------------------------
(* Safety.                                                                  *)

\* The firmware is started only when the flag that asks for the bootloader is
\* clear, and it sets the flag only on its way into a reset: whoever got a
\* reply to "reset into the bootloader" will not find the firmware running
\* (should_run_firmware, REQUEST_RESET).
FirmwareRunsWithFlagClear == phase = "firmware" => ~bkp

\* While a flash request is carried out, each word that was written so far
\* is in its place with the value that the request gave it, and the flash is
\* unlocked or there was nothing to change: the reply "success" at the end of
\* the loop vouches for all the words at once, if none of them was meant for
\* an address in front of the area (packet_handler, my_flash_program_word).
WordsSoFarStored ==
  phase = "programming" =>
    \A pkt \in req : \A k \in 1..cur : \A i \in Index :
      AddressOf(i) = Address(pkt.arg + k - 1) => flash[i] = pkt.words[k]

\* No request stops the processor or makes the bootloader write over its own
\* code, but one whose count or addresses wrap at 32 bits; and no boot does,
\* but one that finds a length larger than the area (the bounds that
\* packet_handler, my_flash_program_word and firmware_is_valid check).
StopsOnlyOnWraps ==
  [][phase' \in Stopped /\ phase \notin Stopped =>
       \/ phase = "boot" /\ LengthIsWild(flash)
       \/ \E pkt \in outEp \cup req : Wraps(pkt.arg + Len(pkt.words))]_deviceVars

\* The comment on the flag: it is reset at boot, so that the next boot does
\* not come back into the bootloader.
FlagIsClearedAtBoot ==
  [][phase = "boot" /\ phase' = "bootloader" => ~bkp']_deviceVars

-----------------------------------------------------------------------------
(* Liveness.                                                                *)

\* No request stays in the endpoint forever: a handler ends, or a reset
\* empties the endpoint, or an earlier request has stopped the processor
\* (endpoint_callback, hid_rx_callback).
RequestsAreTaken == outEp # {} ~> outEp = {} \/ phase \in Stopped

\* A device that was told to reset into the bootloader gets there, whatever
\* program told it so and whatever is in the flash, unless the power fails and
\* takes the flag along.
ResetReachesBootloader == phase = "resetting" /\ bkp ~> phase = "bootloader" \/ ~bkp
=============================================================================
