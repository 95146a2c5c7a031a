------------------------------ MODULE HostTool ------------------------------
(***************************************************************************)
(* The host tool (application/main.cpp): one command after the other, each *)
(* a sequence of exchanges with the device.  "flash" finds the device in   *)
(* bootloader mode or resets it into it, erases, writes the image packet   *)
(* by packet, compares a CRC over the whole area and resets the device;    *)
(* "debug" finds the device in application mode and sends one request.     *)
(*                                                                         *)
(* The operating system sits between the tool and the cable: it collects   *)
(* reports for a handle that is open, and a handle whose device went away  *)
(* stays open but no longer works.  Replies carry no number and the tool   *)
(* does not look at the request they repeat, so a reply is taken for the   *)
(* answer to whatever was sent last.                                       *)
(***************************************************************************)
EXTENDS UsbPipe, ProgramFlash

CONSTANTS
  HostPacketWords,  \* words the tool puts in a flash request
  MaxAttempts,      \* attempts of enter_device_mode: 5
  Programs          \* the contents of the files given to the flash command

ASSUME HostAssumption ==
  /\ HostPacketWords \in Nat \ {0}
  /\ MaxAttempts \in Nat \ {0}
  /\ Programs \subseteq Seq(NumWord)

VARIABLES
  hpc,        \* where the tool is, see HostPoints
  step,       \* which exchange it is in or about to start, see Steps
  want,       \* the mode enter_device_mode is to reach: TRUE for bootloader
  attempts,   \* attempts left
  handle,     \* the value of the handle, see Handles
  hq,         \* reports the operating system keeps for the handle
  prog,       \* the program of the last flash command
  sent,       \* words of the image put into requests so far
  report      \* what the last command told the user

hostVars == <<hpc, step, want, attempts, handle, hq, prog, sent, report>>

HostPoints == {"idle", "connect", "send", "recv", "sleep"}

Steps == {"ask", "modeReset", "erase", "flash", "verify", "reset", "debug"}

Handles ==
  { "null",     \* no device was found yet
    "live",     \* open, and the device is there
    "stale",    \* open, but the device has left the bus since
    "closed" }  \* hid_close was called and the pointer was kept

Reports == {"none", "installed", "debugged", "refused", "failed", "crashed"}

HostInit ==
  /\ hpc = "idle" /\ step = "ask" /\ want = FALSE /\ attempts = 0
  /\ handle = "null" /\ hq = <<>>
  /\ prog \in Programs /\ sent = 0 /\ report = "none"

HostTypeOK ==
  /\ hpc \in HostPoints
  /\ step \in Steps
  /\ want \in BOOLEAN
  /\ attempts \in 0..MaxAttempts
  /\ handle \in Handles
  /\ prog \in Programs
  /\ sent \in 0..(Len(prog) + 3)
  /\ report \in Reports

-----------------------------------------------------------------------------
(* The parts of a step.  q is what is left of hq.                           *)

\* main returns: the operating system closes the handle and drops its reports.
Exit(result) ==
  /\ hpc' = "idle" /\ handle' = "null" /\ hq' = <<>> /\ report' = result
  /\ UNCHANGED <<step, want, attempts, prog, sent>>

\* enter_device_mode is called.
EnterMode(bootloader) ==
  /\ hpc' = "connect" /\ step' = "ask" /\ want' = bootloader
  /\ attempts' = MaxAttempts
  /\ report' = "none"
  /\ UNCHANGED <<handle, hq>>

\* The next exchange begins.
Begin(exchange, q) ==
  /\ hpc' = "send" /\ step' = exchange /\ hq' = q
  /\ UNCHANGED <<want, attempts, handle, prog, sent, report>>

\* Mutant: the attempts are not counted down.
RetryForever(q) ==
  /\ hpc' = "sleep" /\ hq' = q
  /\ UNCHANGED <<step, want, attempts, handle, prog, sent, report>>

\* The device was not found, or did not answer: sleep and try again, unless
\* this was the last attempt.  The handle is kept as it is.
RetryOrGiveUp(q) ==
  IF attempts = 1
  THEN Exit("failed")
  ELSE /\ attempts' = attempts - 1 /\ hpc' = "sleep" /\ hq' = q
       /\ UNCHANGED <<step, want, handle, prog, sent, report>>

\* hid_close after the reset request, whatever came of that request.
CloseAndSleep ==
  /\ hpc' = "sleep" /\ handle' = "closed" /\ hq' = <<>>
  /\ UNCHANGED <<step, want, attempts, prog, sent, report>>

\* send_receive returned false.
ExchangeFailed(q) ==
  CASE step = "ask"       -> RetryOrGiveUp(q)
    [] step = "modeReset" -> CloseAndSleep
    [] OTHER              -> Exit("failed")

-----------------------------------------------------------------------------
(* The commands.                                                            *)

\* feof is not yet true after a file of exactly MAX_PROGRAM_SIZE bytes has been
\* read, so that file is refused; one that is some bytes shorter is padded to
\* the same number of words and accepted.
MayBeRefused(p) == Len(p) + 3 >= ProgramWords

\* flash <file>: p is the file, padded to whole words.
StartFlash(p) ==
  /\ hpc = "idle"
  /\ prog' = p /\ sent' = 0
  /\ \/ FitsHostLimit(p) /\ EnterMode(TRUE)
     \/ /\ MayBeRefused(p)
        /\ report' = "refused"
        /\ UNCHANGED <<hpc, step, want, attempts, handle, hq>>
  /\ UNCHANGED pipeVars

StartDebug ==
  /\ hpc = "idle"
  /\ EnterMode(FALSE)
  /\ UNCHANGED <<prog, sent, pipeVars>>

\* connect finds the device on the bus and opens it.
ConnectOpens ==
  /\ hpc = "connect"
  /\ usb
  /\ hpc' = "send" /\ step' = "ask" /\ handle' = "live" /\ hq' = <<>>
  /\ UNCHANGED <<want, attempts, prog, sent, report, pipeVars>>

\* connect finds no device: the pointer keeps its value, and a pointer that
\* is not null passes for a connection.
ConnectFindsNothing ==
  /\ hpc = "connect"
  /\ ~usb
  /\ IF handle = "null" THEN RetryOrGiveUp(hq) ELSE Begin("ask", hq)
  /\ UNCHANGED pipeVars

\* Mutant: the tool does not wait until the device is back.
WakeUpAtOnce(settled) ==
  /\ hpc = "sleep"
  /\ hpc' = "connect"
  /\ UNCHANGED <<step, want, attempts, handle, hq, prog, sent, report, pipeVars>>

\* The sleep of one or two seconds ends.  settled says that the device is back
\* from its reset, which it is by then unless it is "slow".
WakeUp(settled) ==
  /\ hpc = "sleep"
  /\ settled \/ "slow" \in Disruptions
  /\ hpc' = "connect"
  /\ UNCHANGED <<step, want, attempts, handle, hq, prog, sent, report, pipeVars>>

-----------------------------------------------------------------------------
(* Exchanges: send_receive.                                                 *)

\* Mutant: a full packet passes for one word more.
LastWordOneMore(first) ==
  IF first + HostPacketWords <= Len(prog) + 3
  THEN first + HostPacketWords + 1 ELSE Len(prog) + 3

LastWord(first) ==
  IF first + HostPacketWords <= Len(prog) + 3
  THEN first + HostPacketWords ELSE Len(prog) + 3

\* Mutant: the last reset asks for the bootloader as well.
RequestAlwaysToBootloader ==
  CASE step = "ask"       -> Packet("bootloader", 0, <<>>)
    [] step = "modeReset" -> Packet("reset", IF want THEN 1 ELSE 0, <<>>)
    [] step = "erase"     -> Packet("erase", 0, <<>>)
    [] step = "flash"     -> Packet("flash", sent,
                                    SubSeq(Image(prog), sent + 1, LastWord(sent)))
    [] step = "verify"    -> Packet("verify", ProgramWords, <<>>)
    [] step = "reset"     -> Packet("reset", 1, <<>>)
    [] step = "debug"     -> Packet("debug", 0, <<>>)

Request ==
  CASE step = "ask"       -> Packet("bootloader", 0, <<>>)
    [] step = "modeReset" -> Packet("reset", IF want THEN 1 ELSE 0, <<>>)
    [] step = "erase"     -> Packet("erase", 0, <<>>)
    [] step = "flash"     -> Packet("flash", sent,
                                    SubSeq(Image(prog), sent + 1, LastWord(sent)))
    [] step = "verify"    -> Packet("verify", ProgramWords, <<>>)
    [] step = "reset"     -> Packet("reset", 0, <<>>)
    [] step = "debug"     -> Packet("debug", 0, <<>>)

\* Mutant: the words are counted before the address of the request is taken.
SendRequestCountingFirst ==
  /\ hpc = "send" /\ handle = "live" /\ outEp = {}
  /\ hpc' = "recv"
  /\ sent' = IF step = "flash" THEN LastWord(sent) ELSE sent
  /\ outEp' = {IF step = "flash" THEN [Request EXCEPT !.arg = sent'] ELSE Request}
  /\ UNCHANGED <<usb, inEp, step, want, attempts, handle, hq, prog, report>>

\* hid_write blocks until the endpoint takes the request.
SendRequest ==
  /\ hpc = "send"
  /\ handle = "live"
  /\ outEp = {}
  /\ outEp' = {Request}
  /\ hpc' = "recv"
  /\ sent' = IF step = "flash" THEN LastWord(sent) ELSE sent
  /\ UNCHANGED <<usb, inEp, step, want, attempts, handle, hq, prog, report>>

\* hid_write on a handle that no longer works fails.
SendFails ==
  /\ hpc = "send"
  /\ handle # "live"
  /\ ExchangeFailed(hq)
  /\ UNCHANGED pipeVars

\* hid_write on a handle that was closed may do anything; besides failing,
\* the tool may crash.
UseAfterClose ==
  /\ hpc = "send"
  /\ handle = "closed"
  /\ Exit("crashed")
  /\ UNCHANGED pipeVars

\* Mutant: the program is written without erasing the one before.
ModeKnownWithoutErase(isBootloader, q) ==
  IF isBootloader = want
  THEN Begin(IF want THEN "flash" ELSE "debug", q)
  ELSE IF attempts = 1
       THEN Exit("failed")
       ELSE /\ attempts' = attempts - 1 /\ hpc' = "send" /\ step' = "modeReset" /\ hq' = q
            /\ UNCHANGED <<want, handle, prog, sent, report>>

\* The device answered "bootloader" or not: go on, or reset it into the other
\* mode, or give up.
ModeKnown(isBootloader, q) ==
  IF isBootloader = want
  THEN Begin(IF want THEN "erase" ELSE "debug", q)
  ELSE IF attempts = 1
       THEN Exit("failed")
       ELSE /\ attempts' = attempts - 1 /\ hpc' = "send" /\ step' = "modeReset" /\ hq' = q
            /\ UNCHANGED <<want, handle, prog, sent, report>>

\* is_bootloader looks at the first data byte only, which may be a one in a
\* CRC as well.
SaysBootloader(data) == IF IsNum(data) THEN {data[2] % 256 = 1} ELSE BOOLEAN

\* Mutant: any answer to the verify request will do.
ReplyOkUnverified(data, q) ==
  CASE step = "ask"       -> \E b \in SaysBootloader(data) : ModeKnown(b, q)
    [] step = "modeReset" -> CloseAndSleep
    [] step = "erase"     -> Begin("flash", q)
    [] step = "flash"     -> Begin(IF sent < Len(prog) + 3 THEN "flash" ELSE "verify", q)
    [] step = "verify"    -> Begin("reset", q)
    [] step = "reset"     -> Exit("installed")
    [] step = "debug"     -> Exit("debugged")

\* What follows a reply of RESPONSE_OK.
ReplyOk(data, q) ==
  CASE step = "ask"       -> \E b \in SaysBootloader(data) : ModeKnown(b, q)
    [] step = "modeReset" -> CloseAndSleep
    [] step = "erase"     -> Begin("flash", q)
    [] step = "flash"     -> Begin(IF sent < Len(prog) + 3 THEN "flash" ELSE "verify", q)
    [] step = "verify"    -> IF data = CrcOf(Buffer(prog), ProgramWords)
                             THEN Begin("reset", q) ELSE Exit("failed")
    [] step = "reset"     -> Exit("installed")
    [] step = "debug"     -> Exit("debugged")

\* hid_read_timeout has a report for the handle.
ReceiveReply ==
  /\ hpc = "recv"
  /\ hq # <<>>
  /\ IF Head(hq).ok THEN ReplyOk(Head(hq).data, Tail(hq)) ELSE ExchangeFailed(Tail(hq))
  /\ UNCHANGED pipeVars

\* The device is gone, or thirty seconds have passed.  Once the device is gone
\* the read may fail even if a report is waiting.
ReceiveFails ==
  /\ hpc = "recv"
  /\ \/ handle = "stale" /\ (hq = <<>> \/ "lateAck" \in Disruptions)
     \/ "timeout" \in Disruptions
  /\ ExchangeFailed(hq)
  /\ UNCHANGED pipeVars

\* The user interrupts the tool.
Kill ==
  /\ "kill" \in Disruptions
  /\ hpc # "idle"
  /\ Exit("failed")
  /\ UNCHANGED pipeVars

-----------------------------------------------------------------------------
(* The operating system.                                                    *)

\* It polls the IN endpoint and keeps the report for the open handle.
CollectReport ==
  /\ handle = "live"
  /\ inEp # {}
  /\ \E answer \in inEp : hq' = Append(hq, answer)
  /\ inEp' = {}
  /\ UNCHANGED <<usb, outEp, hpc, step, want, attempts, handle, prog, sent, report>>

\* A report that no handle is open for is dropped if it is polled at all.
DropReport ==
  /\ handle # "live"
  /\ inEp # {}
  /\ inEp' = {}
  /\ UNCHANGED <<usb, outEp, hostVars>>

\* A handle does not survive its device leaving the bus.
HandleAfter(attached) ==
  IF handle = "live" /\ ~attached THEN "stale" ELSE handle

-----------------------------------------------------------------------------

HostCommand == StartDebug \/ \E p \in Programs : StartFlash(p)

\* What the tool does once it runs, and the operating system on its behalf.
HostProgress(settled) ==
  \/ ConnectOpens
  \/ ConnectFindsNothing
  \/ WakeUp(settled)
  \/ SendRequest
  \/ SendFails
  \/ UseAfterClose
  \/ ReceiveReply
  \/ ReceiveFails
  \/ CollectReport
  \/ DropReport

HostStep(settled) == HostCommand \/ HostProgress(settled) \/ Kill
=============================================================================
