---------------------------- MODULE DeviceAlone ----------------------------
(***************************************************************************)
(* The device with a host that sends any of Requests at any time and       *)
(* collects replies when it likes: what the device promises without        *)
(* relying on the order in which application/main.cpp does things.         *)
(***************************************************************************)
EXTENDS Device

CONSTANTS
  Words,         \* the words that occur in requests and in the flash
  Requests,      \* the requests that may arrive
  Contents       \* what may be in the flash when the device is switched on

RequestOps ==
  {"info", "erase", "flash", "verify", "bootloader", "reset", "debug", "unknown"}

RequestType == [op : RequestOps, arg : Nat, words : Seq(Words)]

ASSUME AloneAssumption ==
  /\ Erased \in Words
  /\ Requests \subseteq RequestType
  /\ Contents \subseteq [Index -> Words]

TypeOK ==
  /\ ChipTypeOK
  /\ flash \in [Index -> Words]
  /\ usb \in BOOLEAN
  /\ outEp \subseteq Requests
  /\ req \subseteq Requests
  /\ \A a \in inEp : a.ok \in BOOLEAN

Init ==
  /\ \E contents \in Contents : ChipInit(contents)
  /\ PipeInit

\* The host writes a request when the endpoint is free.
Send(pkt) ==
  /\ usb
  /\ outEp = {}
  /\ outEp' = {pkt}
  /\ UNCHANGED <<usb, inEp, chipVars>>

\* The host reads the reply.
Collect ==
  /\ inEp # {}
  /\ inEp' = {}
  /\ UNCHANGED <<usb, outEp, chipVars>>

Next ==
  \/ DeviceStep
  \/ \E pkt \in Requests : Send(pkt)
  \/ Collect

\* The processor runs when it has something to do, the host enumerates a
\* device that appears on the bus, and it polls the IN endpoint regularly.
Fairness == WF_deviceVars(DeviceProgress) /\ WF_deviceVars(Collect)

Spec == Init /\ [][Next]_deviceVars /\ Fairness
=============================================================================
