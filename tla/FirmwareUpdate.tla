--------------------------- MODULE FirmwareUpdate ---------------------------
(***************************************************************************)
(* The whole update path: the device, the cable and the host tool.  The    *)
(* device and the tool interleave; the tool learns that the device left    *)
(* the bus only through its handle.                                        *)
(***************************************************************************)
EXTENDS Device, HostTool

CONSTANT Contents   \* what may be in the flash at first: nothing, or a program

ASSUME UpdateAssumption ==
  /\ HostPacketWords = PacketWords
  /\ \A c \in Contents :
       c = [i \in Index |-> Erased] \/ \E p \in Programs : Holds(c, p)

vars == <<deviceVars, hostVars>>

Init ==
  /\ \E c \in Contents : ChipInit(c)
  /\ PipeInit
  /\ HostInit

\* The device is on the bus again, or will never be.
Settled == (usb /\ phase # "resetting") \/ phase \in Stopped

Device ==
  /\ DeviceStep
  /\ handle' = HandleAfter(usb')
  /\ UNCHANGED <<hpc, step, want, attempts, hq, prog, sent, report>>

Host ==
  /\ HostStep(Settled)
  /\ UNCHANGED chipVars

Next == Device \/ Host

\* The processor runs while it has something to do.  The tool and the
\* operating system run while they have something to do; that a command is
\* ever given is not assumed, nor is anything that Disruptions allow.
Fairness ==
  /\ WF_vars(Device /\ DeviceProgress)
  /\ WF_vars(Host /\ HostProgress(Settled))
  /\ WF_vars(Host /\ (CollectReport \/ DropReport))

Spec == Init /\ [][Next]_vars /\ Fairness

-----------------------------------------------------------------------------
(* Safety.                                                                  *)

TypeOK ==
  /\ ChipTypeOK
  /\ HostTypeOK
  /\ usb \in BOOLEAN
  /\ \A pkt \in outEp \cup req : pkt.op \in {"erase", "flash", "verify", "bootloader", "reset", "debug"}
  /\ \A a \in inEp : a.ok \in BOOLEAN
  /\ \A i \in DOMAIN hq : hq[i].ok \in BOOLEAN

\* The area holds one of the programs, complete with its trailer.
HoldsAProgram == \E p \in Programs : Holds(flash, p)

\* The bootloader starts the firmware only when the area holds a complete
\* program, whatever interrupted the updates before (firmware_is_valid: "We
\* use that to verify the program before running it").
RunsOnlyCompleteFirmware == phase = "firmware" => HoldsAProgram

\* When cells and pages may fail to change, words of an older image can stay
\* behind the program, or one image's words among another's.  Even then the
\* firmware that runs is the whole of a program, from its vector table to its
\* trailer, unless the trailer that was found is that of no words
\* (firmware_is_valid: "We use that to verify the program before running it").
RunsWholeFirmware ==
  phase = "firmware" =>
    TrailerOfNothing(flash) \/ \E p \in Programs : BeginsWith(flash, p)

\* "Successfully flashed program" is the truth, even when the reply that the
\* tool took for the verify answer may be one to an earlier request
\* (flash_program, send_receive).
SuccessMeansInstalled == report = "installed" => Holds(flash, prog)

\* No word of an update is programmed over another: every cell that a flash
\* request reaches is erased (the order of the exchanges in flash_program,
\* erase_program, and requests left behind by a tool that was killed).
ProgramsOnlyErasedWords ==
  phase = "programming" =>
    \A pkt \in req : \A k \in (cur + 1)..Len(pkt.words) :
      pkt.arg + k \in Index => flash[pkt.arg + k] = Erased

\* What this system implements: the promise of SafeUpdate.
StoredProgram ==
  IF HoldsAProgram THEN CHOOSE p \in Programs : Holds(flash, p) ELSE <<"nothing">>

\* What runs: firmware out of an area that holds none of the programs is none
\* of them, but something runs.
RunningProgram ==
  IF phase # "firmware" THEN <<"nothing">>
  ELSE IF HoldsAProgram THEN StoredProgram
  ELSE <<"incomplete">>

Promise ==
  INSTANCE SafeUpdate WITH
    Nothing <- <<"nothing">>,
    stored  <- StoredProgram,
    running <- RunningProgram,
    told    <- IF report = "installed" THEN prog ELSE <<"nothing">>

\* Every behaviour of the device and the tool, with their interruptions, is
\* one of SafeUpdate: nothing runs but a complete program out of an area that
\* holds it, no step changes what is stored while it runs or after success was
\* reported, and no complete program but one of Programs appears.
KeepsThePromise == Promise!Spec

\* When nothing disrupts it, the update with a file that the tool accepts does
\* not fail, however its exchanges interleave with the reset that an earlier
\* command caused and with the retries of enter_device_mode.
NoSpuriousFailure ==
  want /\ FitsHostLimit(prog) => report \notin {"failed", "crashed"}

\* When the tool reports success the device has left the bootloader, or is in
\* the reset that takes it away, and no flag will hold it there: whatever
\* commands came before, the reset request that asked for the bootloader has
\* been overruled (flash_program, REQUEST_RESET with argument zero).
LeavesTheBootloader ==
  report = "installed" => phase \in {"resetting", "boot", "firmware"} /\ ~bkp

\* Every boot ends in the bootloader or in the firmware.
BootNeverFaults == phase # "fault"

-----------------------------------------------------------------------------
(* Liveness.                                                                *)

\* Every command ends (enter_device_mode, send_receive).
CommandsEnd == hpc # "idle" ~> hpc = "idle"

\* After a successful flash command the device runs the new firmware, unless
\* the tool is started again first (REQUEST_RESET with argument zero, and the
\* boot that follows).
SuccessLeadsToFirmware ==
  report = "installed" ~> (phase = "firmware" \/ report # "installed")
=============================================================================
