--------------------------- MODULE QuietInvariant ---------------------------
(***************************************************************************)
(* Why an update that nothing disrupts does not fail.  Tool and device go  *)
(* in step: while the tool waits, its request or the reply to it is in     *)
(* exactly one place, and when it does not wait there is nothing on the    *)
(* way.  The one thing that the tool can meet unprepared is a device that  *)
(* is still on its way through the reset that the command before asked     *)
(* for: that costs one attempt.  Resetting a running firmware costs        *)
(* another, and then the flag keeps the device in the bootloader.          *)
(***************************************************************************)
EXTENDS UpdateInvariant, SuccessInvariant

\* Nothing goes wrong, the tool may try three times, and the image leaves the
\* last word of the area free, which the bootloader refuses to write.
Undisturbed ==
  /\ Disruptions = {}
  /\ MaxAttempts >= 3
  /\ EndWord # Zero
  /\ \A p \in Accepted : Programmable(Len(p) + 2)

-----------------------------------------------------------------------------

\* The first attempt of enter_device_mode.
Fresh == attempts = MaxAttempts

\* The device takes requests.
AtWork == usb /\ phase \in {"bootloader", "firmware"}

NoRequest == outEp = {} /\ req = {} /\ phase \notin {"erasing", "programming"}
NoReply == inEp = {} /\ hq = <<>>

WholeImage == flash = Written(prog, Len(prog) + 3)

\* What has to hold for the request of the step to be answered.
Ready ==
  /\ AtWork \/ (step = "ask" /\ Fresh)
  /\ step \in {"erase", "flash", "verify", "reset"} => phase = "bootloader"
  /\ step = "flash" => unlocked
  /\ step \in {"verify", "reset"} => WholeImage

\* The tool opened a device that then went through its reset.
Missed == handle = "stale" /\ step = "ask" /\ Fresh /\ NoRequest /\ NoReply

-----------------------------------------------------------------------------
(* Where the request of the tool, or the reply to it, may be.               *)

Waiting ==
  /\ handle = "live" /\ NoReply /\ Ready
  /\ req = {} /\ phase \notin {"erasing", "programming"}
  /\ \E pkt \in outEp :
       /\ outEp = {pkt}
       /\ IF step = "flash"
          THEN Chunk(pkt, prog) /\ ChunkEnd(pkt) = sent /\ flash = Written(prog, pkt.arg)
          ELSE pkt = Request

Working ==
  /\ handle = "live" /\ NoReply /\ outEp = {} /\ usb /\ unlocked
  /\ \/ /\ step = "erase" /\ phase = "erasing"
        /\ \A i \in Index : i <= cur * PageWords => flash[i] = Erased
     \/ /\ step = "flash" /\ phase = "programming"
        /\ \E pkt \in req : req = {pkt} /\ Writes(pkt, prog) /\ ChunkEnd(pkt) = sent

\* The reply is what the tool hopes for.
Right(a) ==
  /\ a.ok
  /\ step = "ask" => a.data = IF phase = "bootloader" THEN Num(1) ELSE Zero
  /\ step = "verify" => a.data = CrcOf(Buffer(prog), ProgramWords)

\* What a request has brought about when it is answered.
Done ==
  /\ step \notin {"modeReset", "reset"} => AtWork /\ handle = "live"
  /\ step \in {"erase", "flash", "verify"} => phase = "bootloader"
  /\ step = "erase" => unlocked /\ flash = Written(prog, 0)
  /\ step = "flash" => unlocked /\ flash = Written(prog, sent)
  /\ step \in {"verify", "reset"} => WholeImage

Answered ==
  /\ handle = "live" /\ NoRequest /\ hq = <<>> /\ Done
  /\ \E a \in inEp : inEp = {a} /\ Right(a)

Collected ==
  /\ handle \in {"live", "stale"} /\ NoRequest /\ inEp = {} /\ Done
  /\ hq = <<hq[1]>> /\ Right(hq[1])

-----------------------------------------------------------------------------

\* The tool between two exchanges, and within one.
Pausing ==
  hpc \in {"idle", "connect", "sleep"} =>
    /\ NoRequest /\ NoReply /\ handle # "live"
    /\ hpc = "idle" => handle = "null"
    /\ hpc = "connect" => AtWork \/ (Fresh /\ handle = "null")

Sending ==
  hpc = "send" =>
    \/ Missed
    \/ /\ handle = "live" /\ NoRequest /\ NoReply /\ Ready
       /\ step = "flash" => flash = Written(prog, sent) /\ sent < Len(prog) + 3

Receiving == hpc = "recv" => Waiting \/ Working \/ Answered \/ Collected \/ Missed

FromTheStart == hpc # "idle" /\ want /\ step \in {"ask", "modeReset", "erase"} => sent = 0

\* Whenever the device may boot, the area is blank or holds a program.
Bootable ==
  \/ flash = [i \in Index |-> Erased]
  \/ \E p \in Accepted : flash = Buffer(p)

BootsWell ==
  /\ Bootable \/ (hpc \in {"send", "recv"} /\ step \in {"erase", "flash"})
  /\ phase \notin Stopped
  /\ phase = "boot" => ~usb

\* Two attempts are enough: the second one is spent on a reset into the
\* bootloader.
InTime ==
  hpc # "idle" /\ want /\ step \in {"ask", "modeReset"} =>
    /\ attempts + 2 >= MaxAttempts
    /\ attempts + 2 = MaxAttempts =>
         \/ phase = "bootloader"
         \/ (phase \in {"boot", "resetting"} /\ bkp)
         \/ (step = "modeReset" /\ (hpc = "send" \/ outEp # {}))

\* The inductive invariant, together with TypeOK, Sequences and Commanded.
QuietInv ==
  /\ Pausing /\ Sending /\ Receiving /\ FromTheStart /\ BootsWell /\ InTime
  /\ NoSpuriousFailure

-----------------------------------------------------------------------------
(* After the update.                                                        *)

\* The last reset request of an update has been taken.
Dismissed == report = "installed" \/ (hpc = "recv" /\ step = "reset" /\ outEp = {})

\* Nobody holds the button, and the reset vector of each file lies in the area.
Unheld ==
  /\ TRUE \notin ButtonLevels
  /\ \A p \in Accepted : ResetVectorInArea(Buffer(p))

\* Inductive together with QuietInv and SuccessInv.
Leaving == Dismissed => phase \in {"resetting", "boot", "firmware"} /\ ~bkp
=============================================================================
