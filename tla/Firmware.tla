------------------------------ MODULE Firmware ------------------------------
(***************************************************************************)
(* The raw HID interface of the firmware (firmware/protocol.c, called by   *)
(* hid_rx_callback in firmware/usb.c).  It knows the same packets as the   *)
(* bootloader's interface but serves only some of them; a host that finds  *)
(* the firmware asks it to reset into the bootloader.                      *)
(***************************************************************************)
EXTENDS Chip

\* What the firmware answers to a request that changes nothing.
FirmwareAnswer(pkt) ==
  IF pkt.op \in {"info", "debug", "bootloader"}
  THEN Answer(TRUE, Zero)      \* packet[2] = 0: this is not the bootloader
  ELSE Answer(FALSE, Zero)     \* erase, flash and verify are unknown here

FirmwareRequest ==
  /\ phase = "firmware"
  /\ \E pkt \in outEp :
       \/ HandleReset(pkt)
       \/ pkt.op # "reset" /\ JustReply(pkt, FirmwareAnswer(pkt))

FirmwareStep == FirmwareRequest
=============================================================================
