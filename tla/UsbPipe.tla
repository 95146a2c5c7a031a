------------------------------- MODULE UsbPipe -------------------------------
(***************************************************************************)
(* The raw HID channel between the host tool and the device: one OUT       *)
(* endpoint and one IN endpoint, each with a buffer of one packet, as both *)
(* the bootloader (bootloader/usb.c) and the firmware (firmware/usb.c) set *)
(* it up.  The bodies of the endpoint functions are libopencm3's and the   *)
(* chip's; what is modelled is what the callers in src/ rely on.           *)
(*                                                                         *)
(* Packets are delivered in order and are neither lost nor duplicated, but *)
(* a reply that is written while the previous one has not been collected   *)
(* is dropped: usbd_ep_write_packet refuses it and its callers ignore the  *)
(* result.  A reset or a detach empties both buffers.                      *)
(***************************************************************************)
EXTENDS Naturals, Sequences

CONSTANT Disruptions   \* what may go wrong; see DisruptionKinds

DisruptionKinds ==
  { "power",     \* the power fails and comes back, at any moment
    "bus",       \* the host resets the bus
    "wear",      \* a page does not erase, or a word does not take its value
    "rollover",  \* the millisecond counter of the firmware rolls over
    "lateAck",   \* the device resets before the tool has read the reply
    "slow",      \* enumeration takes longer than the host tool sleeps
    "timeout",   \* an exchange takes longer than the host tool waits
    "kill" }     \* the host tool is interrupted by its user

ASSUME DisruptionAssumption == Disruptions \subseteq DisruptionKinds

VARIABLES
  usb,     \* the host has configured the device (set_config_handler ran)
  outEp,   \* the request waiting in the OUT endpoint: no or one packet
  inEp     \* the reply waiting in the IN endpoint: no or one packet

pipeVars == <<usb, outEp, inEp>>

\* A request: the action byte, its argument and the words that follow.
Packet(op, arg, words) == [op |-> op, arg |-> arg, words |-> words]

\* A reply: RESPONSE_OK or RESPONSE_ERROR, and the word at packet + 2.  The
\* second byte, which repeats the request, is read by no one.
Answer(ok, data) == [ok |-> ok, data |-> data]

PipeInit == usb = FALSE /\ outEp = {} /\ inEp = {}

\* usbd_ep_write_packet on the IN endpoint: refused while the previous reply
\* is still there, and lost when the host has reset the bus meanwhile.
Reply(answer) == inEp' = IF usb /\ inEp = {} THEN {answer} ELSE inEp

\* usbd_ep_read_packet on the OUT endpoint.
TakeRequest(pkt) == pkt \in outEp /\ outEp' = {}

\* The device leaves the bus and forgets what was in its endpoints.
PipeDown == usb' = FALSE /\ outEp' = {} /\ inEp' = {}

\* The host chooses the configuration and the endpoints are set up anew.
PipeUp == ~usb /\ usb' = TRUE /\ outEp' = {} /\ inEp' = {}
=============================================================================
