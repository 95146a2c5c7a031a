---------------------------- MODULE QuietProofs -----------------------------
(***************************************************************************)
(* An update that nothing disrupts does not fail (module QuietInvariant    *)
(* has the argument): for every layout, every program that leaves the last *)
(* word of the area free, every packet size, and whether or not the user   *)
(* holds the button, as long as the tool may try three times.              *)
(***************************************************************************)
EXTENDS SuccessProofs, QuietInvariant

-----------------------------------------------------------------------------
(* Words, packets and reports.                                              *)

\* The first byte of the answer to "bootloader" says which program answers.
LEMMA AnswersAreClear ==
  /\ \A b \in SaysBootloader(Num(1)) : b = TRUE
  /\ \A b \in SaysBootloader(Zero) : b = FALSE
<1>1. 1 % 256 = 1 /\ 0 % 256 = 0
  OBVIOUS
<1>2. Num(1)[1] = "num" /\ Num(1)[2] = 1 /\ Zero[1] = "num" /\ Zero[2] = 0
  BY DEF Num, Zero
<1>3. IsNum(Num(1)) /\ IsNum(Zero)
  BY <1>2 DEF IsNum
<1>4. (Num(1)[2] % 256 = 1) = TRUE /\ (Zero[2] % 256 = 1) = FALSE
  BY <1>1, <1>2
<1>5. SaysBootloader(Num(1)) = {Num(1)[2] % 256 = 1}
  BY <1>3 DEF SaysBootloader
<1>6. SaysBootloader(Zero) = {Zero[2] % 256 = 1}
  BY <1>3 DEF SaysBootloader
<1> QED
  BY <1>4, <1>5, <1>6, Zenon

\* Behind the last zero of a buffer there are erased words, so the search finds
\* the end of the trailer.
LEMMA TrailerIsFound ==
  ASSUME EndWord # Zero, NEW p \in Accepted
  PROVE  LastZero(Buffer(p)) = {Len(p) + 3}
<1> DEFINE L == Len(p)
           f == Buffer(p)
<1>1. /\ L \in Nat /\ L + 3 \in Index /\ L + 3 <= ProgramWords /\ f[L + 3] = Zero
      /\ \A i \in Index : i > L + 3 => f[i] = Erased
  BY BufferWords DEF Accepted, FitsHostLimit
<1> HIDE DEF L, f
<1>2. L + 3 \in ZeroWords(f)
  BY <1>1, Layout DEF ZeroWords, ReadWord, Index
<1>3. ASSUME NEW z \in ZeroWords(f) PROVE z \in Nat /\ z <= L + 3
  <2>1. z \in 3..(ProgramWords + 1) /\ ReadWord(f, z) = Zero
    BY DEF ZeroWords
  <2>2. z \in Index /\ f[z] = Zero
    BY <2>1 DEF ReadWord
  <2>3. z \in Nat
    BY <2>2, Layout DEF Index
  <2>4. ~(z > L + 3)
    BY <1>1, <2>2, WordKinds
  <2> QED
    BY <1>1, <2>3, <2>4
<1>4. L + 3 \in LastZero(f)
  BY <1>2, <1>3 DEF LastZero
<1>5. ASSUME NEW z \in LastZero(f) PROVE z = L + 3
  BY <1>1, <1>2, <1>3 DEF LastZero
<1>6. LastZero(f) = {L + 3}
  BY <1>4, <1>5
<1> QED
  BY <1>6 DEF L, f

\* The length in front of it is that of the program, and the CRC matches.
LEMMA TrailerIsRight ==
  ASSUME EndWord # Zero, NEW p \in Accepted
  PROVE  ~LengthIsWild(Buffer(p)) /\ TrailerMatches(Buffer(p))
<1> DEFINE L == Len(p)
           f == Buffer(p)
<1>1. /\ L \in Nat /\ L <= ProgramWords /\ ProgramWords \in Nat
      /\ f[L + 1] = Num(L) /\ f[L + 2] = CrcOf(p, L)
      /\ \A i \in 1..L : f[i] = p[i]
  BY BufferWords, Layout DEF Accepted, FitsHostLimit
<1>2. LastZero(f) = {L + 3}
  BY TrailerIsFound
<1> HIDE DEF L, f
<1>3. (L + 3) - 2 = L + 1 /\ (L + 3) - 1 = L + 2
  BY <1>1
<1>4. LengthInArea(f, L + 3)
  BY <1>1, <1>3 DEF LengthInArea, IsNum, Num
<1>5. CrcOf(f, L) = CrcOf(p, L)
  <2>1. Prefix(f, L) = Prefix(p, L)
    BY <1>1 DEF Prefix
  <2> QED
    BY <2>1 DEF CrcOf
<1>6. f[(L + 3) - 1] = CrcOf(f, f[(L + 3) - 2][2])
  BY <1>1, <1>3, <1>5 DEF Num
<1>7. ~LengthIsWild(f) /\ TrailerMatches(f)
  BY <1>2, <1>4, <1>6 DEF LengthIsWild, TrailerMatches
<1> QED
  BY <1>7 DEF f

\* The check at boot does not read outside the area when it is blank or holds
\* a program: the word in front of the last CRC is a length.
LEMMA NoFaultAtBoot ==
  ASSUME EndWord # Zero, Bootable
  PROVE  "fault" \notin FirmwareCheck(flash)
<1>1. CASE flash = [i \in Index |-> Erased]
  <2>1. \A i \in 1..PageWords : flash[i] = Erased
    BY <1>1, Layout DEF Index
  <2> QED
    BY <2>1, ErasedIsInvalid
<1>2. CASE \E p \in Accepted : flash = Buffer(p)
  BY <1>2, TrailerIsRight DEF FirmwareCheck
<1> QED
  BY <1>1, <1>2 DEF Bootable

LEMMA WholeIsBuffer ==
  ASSUME WholeImage
  PROVE  flash = Buffer(prog)
BY DEF WholeImage, Written, Buffer

-----------------------------------------------------------------------------
(* The device on its way through boot, enumeration or reset.                *)

\* What Boot, Enumerate and SystemReset have in common.
Wanders ==
  /\ ~AtWork
  /\ phase \notin {"erasing", "programming"}
  /\ phase' \notin {"erasing", "programming"}
  /\ phase' = "boot" => ~usb'
  /\ UNCHANGED flash
  /\ req' \in {req, {}} /\ outEp' \in {outEp, {}} /\ inEp' \in {inEp, {}}
  /\ handle = "live" =>
       /\ phase = "resetting" /\ handle' = "stale" /\ inEp = {}
       /\ outEp' = {} /\ inEp' = {} /\ req' = {}
  /\ handle # "live" => UNCHANGED handle
  /\ phase = "bootloader" => phase' = "bootloader"
  /\ phase \in {"boot", "resetting"} /\ bkp =>
       phase' = "bootloader" \/ (phase' = "boot" /\ bkp')

LEMMA WanderingSteps ==
  ASSUME Undisturbed, Known, BootsWell, handle' = HandleAfter(usb'),
         Boot \/ Enumerate \/ SystemReset
  PROVE  Wanders
<1>1. handle = "live" => usb
  BY DEF Known, SuccessInv, Commanded
<1>2. CASE Boot
  <2>1. /\ phase = "boot" /\ ~usb /\ phase' \in {"bootloader", "firmware", "fault"}
        /\ bkp => phase' = "bootloader"
        /\ UNCHANGED <<flash, req, usb, outEp, inEp>>
    <3>1. CASE BootHeldByButton \/ BootByFlag
      BY <3>1 DEF BootHeldByButton, BootByFlag, pipeVars, BootsWell
    <3>2. CASE BootByContents
      BY <3>2 DEF BootByContents, pipeVars, BootsWell, FirmwareCheck
    <3> QED
      BY <1>2, <3>1, <3>2 DEF Boot
  <2> QED
    BY <1>1, <2>1 DEF Wanders, AtWork, HandleAfter
<1>3. CASE Enumerate
  <2>1. /\ phase \in {"bootloader", "firmware"} /\ ~usb /\ outEp' = {} /\ inEp' = {}
        /\ UNCHANGED <<phase, flash, req, bkp>>
    BY <1>3 DEF Enumerate, PipeUp, chipVars
  <2> QED
    BY <1>1, <2>1 DEF Wanders, AtWork, HandleAfter
<1>4. CASE SystemReset
  <2>1. /\ phase = "resetting" /\ inEp = {} /\ phase' = "boot" /\ usb' = FALSE
        /\ outEp' = {} /\ inEp' = {} /\ req' = {} /\ UNCHANGED <<flash, bkp>>
    BY <1>4 DEF SystemReset, Restart, PipeDown, Undisturbed
  <2> QED
    BY <1>1, <2>1 DEF Wanders, AtWork, HandleAfter
<1> QED
  BY <1>2, <1>3, <1>4

LEMMA WanderingQuiet ==
  ASSUME Undisturbed, Known, QuietInv, HostWaits, Wanders, phase' \notin Stopped
  PROVE  QuietInv'
<1> USE DEF HostWaits, QuietInv
<1>1. NoRequest => NoRequest'
  BY DEF Wanders, NoRequest
<1>2. NoReply => NoReply'
  BY DEF Wanders, NoReply
<1>3. handle' # "live" /\ (handle = "null" => handle' = "null")
  BY DEF Wanders
<1>4. Missed => Missed'
  BY <1>1, <1>2 DEF Wanders, Missed, Fresh
<1>5. Pausing'
  BY <1>1, <1>2, <1>3 DEF Pausing, Wanders, Fresh
<1>6. Sending'
  <2>1. CASE hpc = "send" /\ ~Missed
    <3>1. handle = "live" /\ NoRequest /\ NoReply /\ step = "ask" /\ Fresh
      BY <2>1 DEF Sending, Ready, Wanders
    <3>2. Missed'
      BY <1>1, <1>2, <3>1 DEF Wanders, Missed, Fresh
    <3> QED
      BY <3>2 DEF Sending
  <2> QED
    BY <1>4, <2>1 DEF Sending
<1>7. Receiving'
  <2>1. CASE Waiting
    <3>1. handle = "live" /\ NoReply /\ step = "ask" /\ Fresh
      BY <2>1 DEF Waiting, Ready, Wanders
    <3>2. Missed'
      BY <1>2, <3>1 DEF Wanders, Missed, Fresh, NoRequest
    <3> QED
      BY <3>2 DEF Receiving
  <2>2. ~Working
    BY DEF Wanders, Working
  <2>3. ~Answered
    BY DEF Wanders, Answered
  <2>4. CASE Collected
    <3>1. step \in {"modeReset", "reset"}
      <4>1. step \in Steps
        BY DEF Known, TypeOK, HostTypeOK
      <4> QED
        BY <2>4, <4>1 DEF Collected, Done, Wanders
    <3>2. handle' \in {"live", "stale"} /\ inEp' = {}
      BY <2>4 DEF Collected, Wanders
    <3>3. Done'
      BY <2>4, <3>1 DEF Collected, Done, WholeImage, Written, Wanders
    <3>4. Right(hq[1])'
      BY <2>4, <3>1 DEF Collected, Right
    <3> QED
      BY <1>1, <2>4, <3>2, <3>3, <3>4 DEF Collected, Receiving
  <2> QED
    BY <1>4, <2>1, <2>2, <2>3, <2>4 DEF Receiving
<1>8. BootsWell'
  BY DEF BootsWell, Stopped, Bootable, Wanders
<1>9. InTime'
  <2>1. CASE step = "modeReset" /\ outEp # {} /\ hpc # "idle"
    <3>1. hpc = "recv" /\ Waiting
      BY <2>1 DEF Known, TypeOK, HostTypeOK, HostPoints, Pausing, Sending, Receiving, Missed,
                  NoRequest, Working, Answered, Collected
    <3> QED
      BY <2>1, <3>1 DEF Waiting, Ready, Wanders
  <2> QED
    BY <2>1 DEF InTime, Wanders
<1> QED
  BY <1>5, <1>6, <1>7, <1>8, <1>9 DEF FromTheStart, NoSpuriousFailure, FitsHostLimit

-----------------------------------------------------------------------------
(* The device at work.                                                      *)

\* While the tool waits the device only moves its request along.
LEMMA MovedAlong ==
  ASSUME QuietInv, HostWaits, UNCHANGED handle, hpc = "recv", Working' \/ Answered',
         BootsWell', InTime'
  PROVE  QuietInv'
BY DEF QuietInv, HostWaits, Pausing, Sending, Receiving, FromTheStart, NoSpuriousFailure,
       FitsHostLimit

\* The answer to a request that asks for no reset keeps the device as it is.
LEMMA RepliedQuiet ==
  ASSUME Known, QuietInv, HostWaits, UNCHANGED handle, hpc = "recv", Waiting, AtWork,
         step \in {"ask", "verify", "debug"},
         NEW pkt, NEW answer, Right(answer), JustReply(pkt, answer)
  PROVE  QuietInv'
<1>1. /\ handle = "live" /\ inEp = {} /\ hq = <<>> /\ usb /\ req = {}
      /\ phase \in {"bootloader", "firmware"}
  BY DEF Waiting, NoReply, AtWork
<1>2. outEp' = {} /\ inEp' = {answer} /\ UNCHANGED <<usb, phase, flash, unlocked, bkp, req>>
  BY <1>1 DEF JustReply, TakeRequest, Reply, chipVars
<1>3. Right(answer)'
  BY <1>2 DEF Right, HostWaits
<1>4. Done'
  BY <1>1, <1>2 DEF Waiting, Ready, Done, AtWork, WholeImage, Written, HostWaits
<1>5. Answered'
  BY <1>1, <1>2, <1>3, <1>4 DEF Answered, NoRequest, HostWaits
<1>6. BootsWell'
  BY <1>2 DEF QuietInv, BootsWell, Bootable, HostWaits
<1>7. InTime'
  BY <1>2 DEF QuietInv, InTime, HostWaits
<1> QED
  BY <1>5, <1>6, <1>7, MovedAlong

\* The reply to a reset request comes before the reset.
LEMMA ResetQuiet ==
  ASSUME Known, QuietInv, HostWaits, UNCHANGED handle, hpc = "recv", Waiting, AtWork,
         step \in {"modeReset", "reset"},
         NEW pkt, step = "modeReset" => pkt.arg = (IF want THEN 1 ELSE 0), HandleReset(pkt)
  PROVE  QuietInv'
<1>1. /\ handle = "live" /\ inEp = {} /\ hq = <<>> /\ usb /\ req = {}
      /\ phase \in {"bootloader", "firmware"}
  BY DEF Waiting, NoReply, AtWork
<1>2. /\ outEp' = {} /\ inEp' = {Answer(TRUE, Zero)} /\ phase' = "resetting"
      /\ bkp' = (pkt.arg = 1) /\ UNCHANGED <<usb, flash, unlocked, req>>
  BY <1>1 DEF HandleReset, TakeRequest, Reply
<1>3. Right(Answer(TRUE, Zero))'
  BY DEF Right, Answer, HostWaits
<1>4. Done'
  BY <1>1, <1>2 DEF Waiting, Ready, Done, AtWork, WholeImage, Written, HostWaits
<1>5. Answered'
  BY <1>1, <1>2, <1>3, <1>4 DEF Answered, NoRequest, HostWaits
<1>6. BootsWell'
  BY <1>2 DEF QuietInv, BootsWell, Stopped, Bootable, HostWaits
<1>7. InTime'
  <2>1. want /\ step = "modeReset" => bkp'
    BY <1>2
  <2> QED
    BY <1>2, <2>1 DEF QuietInv, InTime, HostWaits
<1> QED
  BY <1>5, <1>6, <1>7, MovedAlong

LEMMA EraseBegins ==
  ASSUME Known, QuietInv, HostWaits, UNCHANGED handle, hpc = "recv", Waiting, AtWork,
         step = "erase", NEW pkt, HandleErase(pkt)
  PROVE  QuietInv'
<1>1. /\ handle = "live" /\ inEp = {} /\ hq = <<>> /\ usb
  BY DEF Waiting, NoReply, AtWork
<1>2. /\ outEp' = {} /\ inEp' = {} /\ phase' = "erasing" /\ cur' = 0 /\ unlocked'
      /\ UNCHANGED <<usb, flash, bkp>>
  BY <1>1 DEF HandleErase, TakeRequest
<1>3. \A i \in Index : ~(i <= 0 * PageWords)
  BY Layout, PageWordsBelow DEF Index
<1>4. Working'
  BY <1>1, <1>2, <1>3 DEF Working, NoReply, HostWaits
<1>5. BootsWell' /\ InTime'
  BY <1>2 DEF QuietInv, BootsWell, Stopped, Bootable, InTime, HostWaits
<1> QED
  BY <1>4, <1>5, MovedAlong

LEMMA WritingBegins ==
  ASSUME Known, QuietInv, HostWaits, UNCHANGED handle, hpc = "recv", Waiting, AtWork,
         phase = "bootloader", step = "flash", NEW pkt \in outEp, HandleFlash(pkt)
  PROVE  QuietInv'
<1>1. /\ handle = "live" /\ inEp = {} /\ hq = <<>> /\ usb /\ unlocked
      /\ Chunk(pkt, prog) /\ ChunkEnd(pkt) = sent /\ flash = Written(prog, pkt.arg)
  BY DEF Waiting, NoReply, AtWork, Ready
<1>2. pkt.arg \in Nat /\ Len(pkt.words) \in Nat /\ Len(pkt.words) <= PacketWords
  BY <1>1, BootloaderAssumption DEF Chunk
<1>3. /\ outEp' = {} /\ inEp' = {} /\ phase' = "programming" /\ req' = {pkt} /\ cur' = 0
      /\ UNCHANGED <<usb, flash, unlocked, bkp>>
  <2>1. ~(Len(pkt.words) > PacketWords)
    BY <1>2, BootloaderAssumption
  <2> QED
    BY <1>1, <2>1 DEF HandleFlash, TakeRequest
<1>4. Writes(pkt, prog)'
  <2>1. pkt.arg + cur' = pkt.arg /\ cur' <= Len(pkt.words) /\ prog' = prog
    BY <1>2, <1>3 DEF HostWaits
  <2>2. flash' = Written(prog', pkt.arg + cur')
    BY <1>1, <1>3, <2>1
  <2> QED
    BY <1>1, <1>3, <2>1, <2>2 DEF Writes, Chunk
<1>5. Working'
  BY <1>1, <1>3, <1>4 DEF Working, NoReply, HostWaits, ChunkEnd
<1>6. BootsWell' /\ InTime'
  BY <1>3 DEF QuietInv, BootsWell, Stopped, Bootable, InTime, HostWaits
<1> QED
  BY <1>5, <1>6, MovedAlong

\* A request waits only for a tool that waits for its answer.
LEMMA RequestIsAwaited ==
  ASSUME Known, QuietInv, outEp # {}
  PROVE  hpc = "recv" /\ Waiting
BY DEF Known, TypeOK, HostTypeOK, HostPoints, QuietInv, Pausing, Sending, Receiving, Missed,
       NoRequest, Working, Answered, Collected

LEMMA ServingQuiet ==
  ASSUME Known, QuietInv, HostWaits, UNCHANGED handle, BootloaderRequest \/ FirmwareRequest
  PROVE  QuietInv'
<1>1. PICK pkt \in outEp :
        \/ /\ phase = "bootloader"
           /\ \/ HandleInfo(pkt) \/ HandleErase(pkt) \/ HandleFlash(pkt) \/ HandleVerify(pkt)
              \/ HandleBootloader(pkt) \/ HandleReset(pkt) \/ HandleDebug(pkt)
              \/ HandleUnknown(pkt)
        \/ /\ phase = "firmware"
           /\ \/ HandleReset(pkt)
              \/ pkt.op # "reset" /\ JustReply(pkt, FirmwareAnswer(pkt))
  BY DEF BootloaderRequest, FirmwareRequest
<1>2. hpc = "recv" /\ Waiting
  BY <1>1, RequestIsAwaited
<1>3. AtWork /\ step \in Steps
  BY <1>1, <1>2 DEF Known, TypeOK, HostTypeOK, SuccessInv, Commanded, Waiting, AtWork
<1>4. /\ step \in {"erase", "flash", "verify", "reset"} => phase = "bootloader"
      /\ step = "flash" => pkt.op = "flash"
      /\ step # "flash" => pkt = Request
  BY <1>1, <1>2 DEF Waiting, Ready, Chunk
<1>5. CASE step = "ask"
  <2>1. pkt.op = "bootloader"
    BY <1>3, <1>4, <1>5, RequestOf
  <2>2. CASE phase = "bootloader"
    <3>1. JustReply(pkt, Answer(TRUE, Num(1)))
      BY <1>1, <2>1, <2>2 DEF HandleInfo, HandleErase, HandleFlash, HandleVerify,
            HandleBootloader, HandleReset, HandleDebug, HandleUnknown
    <3>2. Right(Answer(TRUE, Num(1)))
      BY <1>5, <2>2 DEF Right, Answer
    <3> QED
      BY <1>2, <1>3, <1>5, <3>1, <3>2, RepliedQuiet
  <2>3. CASE phase = "firmware"
    <3>1. JustReply(pkt, Answer(TRUE, Zero))
      BY <1>1, <2>1, <2>3 DEF HandleReset, FirmwareAnswer
    <3>2. Right(Answer(TRUE, Zero))
      BY <1>5, <2>3 DEF Right, Answer
    <3> QED
      BY <1>2, <1>3, <1>5, <3>1, <3>2, RepliedQuiet
  <2> QED
    BY <1>1, <2>2, <2>3
<1>6. CASE step \in {"modeReset", "reset"}
  <2>1. pkt.op = "reset" /\ (step = "modeReset" => pkt.arg = IF want THEN 1 ELSE 0)
    BY <1>3, <1>4, <1>6, RequestOf
  <2>2. HandleReset(pkt)
    BY <1>1, <2>1 DEF HandleInfo, HandleErase, HandleFlash, HandleVerify,
          HandleBootloader, HandleDebug, HandleUnknown
  <2> QED
    BY <1>2, <1>3, <1>6, <2>1, <2>2, ResetQuiet
<1>7. CASE step = "erase"
  <2>1. pkt.op = "erase"
    BY <1>3, <1>4, <1>7, RequestOf
  <2>2. HandleErase(pkt)
    BY <1>1, <1>4, <1>7, <2>1 DEF HandleInfo, HandleFlash, HandleVerify,
          HandleBootloader, HandleReset, HandleDebug, HandleUnknown
  <2> QED
    BY <1>2, <1>3, <1>7, <2>2, EraseBegins
<1>8. CASE step = "flash"
  <2>1. HandleFlash(pkt)
    BY <1>1, <1>4, <1>8 DEF HandleInfo, HandleErase, HandleVerify,
          HandleBootloader, HandleReset, HandleDebug, HandleUnknown
  <2> QED
    BY <1>2, <1>3, <1>4, <1>8, <2>1, WritingBegins
<1>9. CASE step = "verify"
  <2>1. pkt.op = "verify" /\ pkt.arg = ProgramWords
    BY <1>3, <1>4, <1>9, RequestOf
  <2>2. HandleVerify(pkt)
    BY <1>1, <1>4, <1>9, <2>1 DEF HandleInfo, HandleErase, HandleFlash,
          HandleBootloader, HandleReset, HandleDebug, HandleUnknown
  <2>3. JustReply(pkt, Answer(TRUE, CrcOf(flash, ProgramWords)))
    BY <2>1, <2>2, VerifyInArea
  <2>4. flash = Buffer(prog)
    BY <1>2, <1>9, WholeIsBuffer DEF Waiting, Ready
  <2>5. Right(Answer(TRUE, CrcOf(flash, ProgramWords)))
    BY <1>9, <2>4 DEF Right, Answer
  <2> QED
    BY <1>2, <1>3, <1>9, <2>3, <2>5, RepliedQuiet
<1>10. CASE step = "debug"
  <2>1. pkt.op = "debug"
    BY <1>3, <1>4, <1>10, RequestOf
  <2>2. JustReply(pkt, Answer(TRUE, Zero))
    BY <1>1, <2>1 DEF HandleInfo, HandleErase, HandleFlash, HandleVerify,
          HandleBootloader, HandleReset, HandleDebug, HandleUnknown, FirmwareAnswer
  <2>3. Right(Answer(TRUE, Zero))
    BY <1>10 DEF Right, Answer
  <2> QED
    BY <1>2, <1>3, <1>10, <2>2, <2>3, RepliedQuiet
<1> QED
  BY <1>3, <1>5, <1>6, <1>7, <1>8, <1>9, <1>10 DEF Steps

-----------------------------------------------------------------------------
(* The loops over pages and words.                                          *)

\* A loop runs only for a tool that waits for its end.
LEMMA LoopIsAwaited ==
  ASSUME Known, QuietInv, phase \in {"erasing", "programming"}
  PROVE  hpc = "recv" /\ Working
BY DEF Known, TypeOK, HostTypeOK, HostPoints, QuietInv, Pausing, Sending, Receiving, Missed,
       NoRequest, Waiting, Answered, Collected

\* Nobody looks at the attempts, or at a blank or a full area, meanwhile.
LEMMA LoopChangesNeither ==
  ASSUME QuietInv, HostWaits, hpc = "recv", step \in {"erase", "flash"},
         phase' # "boot", phase' \notin Stopped
  PROVE  BootsWell' /\ InTime'
<1>1. UNCHANGED <<hpc, step>>
  BY DEF HostWaits
<1>2. BootsWell'
  BY <1>1 DEF BootsWell
<1>3. InTime'
  BY <1>1 DEF InTime
<1> QED
  BY <1>2, <1>3

LEMMA LoopEnds ==
  ASSUME QuietInv, HostWaits, UNCHANGED handle, hpc = "recv", Working, unlocked,
         step \in {"erase", "flash"}, FinishHandler(Answer(TRUE, Zero)), UNCHANGED flash,
         step = "erase" => flash = Written(prog, 0),
         step = "flash" => flash = Written(prog, sent)
  PROVE  QuietInv'
<1>1. /\ handle = "live" /\ inEp = {} /\ hq = <<>> /\ usb /\ outEp = {}
  BY DEF Working, NoReply
<1>2. /\ inEp' = {Answer(TRUE, Zero)} /\ phase' = "bootloader" /\ req' = {}
      /\ UNCHANGED <<usb, outEp, unlocked>>
  BY <1>1 DEF FinishHandler, Reply
<1>3. Right(Answer(TRUE, Zero))'
  BY DEF Right, Answer, HostWaits
<1>4. Done'
  <2>1. /\ step = "erase" => flash' = Written(prog', 0)
        /\ step = "flash" => flash' = Written(prog', sent')
    BY DEF HostWaits
  <2> QED
    BY <1>1, <1>2, <2>1 DEF Done, AtWork, HostWaits
<1>5. Answered'
  BY <1>1, <1>2, <1>3, <1>4 DEF Answered, NoRequest, HostWaits
<1> QED
  <2>1. BootsWell' /\ InTime'
    BY <1>2, LoopChangesNeither DEF Stopped
  <2> QED
    BY <1>5, <2>1, MovedAlong

LEMMA ErasingQuiet ==
  ASSUME Undisturbed, Known, QuietInv, HostWaits, UNCHANGED handle, ErasePageStep \/ EraseDone
  PROVE  QuietInv'
<1>1. phase = "erasing" /\ cur \in Nat
  BY DEF ErasePageStep, EraseDone, Known, TypeOK, ChipTypeOK
<1>2. /\ hpc = "recv" /\ Working /\ handle = "live" /\ NoReply /\ outEp = {} /\ usb /\ unlocked
      /\ step = "erase" /\ \A i \in Index : i <= cur * PageWords => flash[i] = Erased
  BY <1>1, LoopIsAwaited DEF Working
<1>3. CASE ErasePageStep
  <2>1. /\ flash' = ErasePage(flash, cur) /\ cur' = cur + 1
        /\ UNCHANGED <<phase, unlocked, usb, outEp, inEp>>
    BY <1>3 DEF ErasePageStep, Undisturbed, pipeVars
  <2>2. \A i \in Index : i <= cur' * PageWords => flash'[i] = Erased
    BY <1>1, <1>2, <2>1, OnePageMore
  <2>3. Working'
    BY <1>1, <1>2, <2>1, <2>2 DEF Working, NoReply, HostWaits
  <2> QED
    <3>1. BootsWell' /\ InTime'
      BY <1>1, <1>2, <2>1, LoopChangesNeither DEF Stopped
    <3> QED
      BY <1>2, <2>3, <3>1, MovedAlong
<1>4. CASE EraseDone
  <2>1. cur > Pages
    BY <1>1, <1>4, Layout DEF EraseDone, EraseMore
  <2>2. \A i \in Index : flash[i] = Erased
    BY <1>1, <1>2, <2>1, AllPagesErased
  <2>3. flash = Written(prog, 0)
    <3>1. flash = [i \in Index |-> flash[i]]
      BY DEF Known, SuccessInv, Sequences
    <3>2. flash = [i \in Index |-> Erased]
      BY <2>2, <3>1
    <3> QED
      BY <3>2 DEF Written, Index
  <2>4. FinishHandler(Answer(TRUE, Zero)) /\ UNCHANGED flash
    <3>1. Blank(flash) = TRUE
      BY <2>2 DEF Blank
    <3> QED
      BY <1>4, <3>1 DEF EraseDone
  <2> QED
    BY <1>2, <2>3, <2>4, LoopEnds
<1> QED
  BY <1>3, <1>4

LEMMA ProgrammingQuiet ==
  ASSUME Undisturbed, Known, QuietInv, HostWaits, UNCHANGED handle,
         ProgramWordStep \/ ProgramDone
  PROVE  QuietInv'
<1>1. phase = "programming" /\ cur \in Nat
  BY DEF ProgramWordStep, ProgramDone, Known, TypeOK, ChipTypeOK
<1>2. /\ hpc = "recv" /\ Working /\ handle = "live" /\ NoReply /\ outEp = {} /\ usb /\ unlocked
      /\ step = "flash"
  BY <1>1, LoopIsAwaited DEF Working
<1>3. PICK pkt : req = {pkt} /\ Writes(pkt, prog) /\ ChunkEnd(pkt) = sent
  BY <1>1, <1>2 DEF Working
<1>4. prog \in Accepted
  BY <1>2 DEF Known, TypeOK, HostTypeOK, SuccessInv, Commanded, Accepted
<1>5. CASE ProgramWordStep
  <2>1. /\ cur < Len(pkt.words)
        /\ IF ~Programmable(pkt.arg + cur)
           THEN FinishHandler(Answer(FALSE, Zero)) /\ UNCHANGED flash
           ELSE \E stored \in MayStore(flash[pkt.arg + cur + 1], pkt.words[cur + 1]) :
                  /\ flash' = [flash EXCEPT ![pkt.arg + cur + 1] = stored]
                  /\ IF ReadsBack(stored, pkt.words[cur + 1])
                     THEN /\ cur' = cur + 1
                          /\ UNCHANGED <<phase, unlocked, bkp, dbp, req, pipeVars>>
                     ELSE FinishHandler(Answer(FALSE, Zero))
    <3>1. /\ cur < Len(pkt.words)
          /\ \/ ~Programmable(pkt.arg + cur) /\ WordFails /\ UNCHANGED flash
             \/ WordInArea(pkt.arg + cur, pkt.words[cur + 1])
             \/ WordInFront(pkt.arg + cur)
      BY <1>3, <1>5 DEF ProgramWordStep
    <3>2. Chunk(pkt, prog) /\ pkt.arg \in Nat
      BY <1>3 DEF Writes, Chunk
    <3>3. pkt.arg + cur < ProgramWords
      BY <1>1, <1>4, <3>1, <3>2, ChunkInArea
    <3> QED
      BY <1>1, <3>1, <3>2, <3>3, WordInItsPlace
  <2>2. /\ pkt.arg + cur \in Nat /\ pkt.arg + cur + 1 <= ChunkEnd(pkt)
        /\ ChunkEnd(pkt) <= Len(prog) + 3 /\ Len(prog) \in Nat
        /\ flash[pkt.arg + cur + 1] = Erased
        /\ [flash EXCEPT ![pkt.arg + cur + 1] = pkt.words[cur + 1]]
             = Written(prog, pkt.arg + cur + 1)
    BY <1>1, <1>3, <1>4, <2>1, NextWord
  <2>3. Programmable(pkt.arg + cur)
    <3>1. ChunkEnd(pkt) \in Nat
      BY <1>3 DEF Writes, Chunk, ChunkEnd
    <3>2. pkt.arg + cur <= Len(prog) + 2
      BY <2>2, <3>1
    <3>3. Len(prog) + 2 < ProgramWords - 1
      <4>1. Len(prog) + 2 <= ProgramWords /\ Len(prog) + 2 \in Nat
        BY <1>4, <2>2, Layout DEF Accepted, FitsHostLimit
      <4>2. Programmable(Len(prog) + 2)
        BY <1>4 DEF Undisturbed
      <4> QED
        BY <4>1, <4>2, AddressInArea
    <3>4. pkt.arg + cur <= ProgramWords /\ pkt.arg + cur < ProgramWords - 1
      BY <2>2, <3>2, <3>3, Layout
    <3> QED
      BY <2>2, <3>4, AddressInArea
  <2>4. MayStore(flash[pkt.arg + cur + 1], pkt.words[cur + 1]) = {pkt.words[cur + 1]}
    BY <1>2, <2>2 DEF MayStore, Programmed, Undisturbed
  <2>5. /\ flash' = Written(prog, pkt.arg + cur + 1) /\ cur' = cur + 1
        /\ UNCHANGED <<phase, unlocked, req, usb, outEp, inEp>>
    BY <2>1, <2>2, <2>3, <2>4 DEF ReadsBack, pipeVars
  <2>6. Writes(pkt, prog)'
    <3>1. pkt.arg \in Nat /\ Len(pkt.words) \in Nat
      BY <1>3 DEF Writes, Chunk
    <3>2. pkt.arg + cur + 1 = pkt.arg + cur' /\ cur' <= Len(pkt.words) /\ prog' = prog
      BY <1>1, <2>1, <2>5, <3>1 DEF HostWaits
    <3>3. flash' = Written(prog', pkt.arg + cur')
      BY <2>5, <3>2
    <3> QED
      BY <1>2, <1>3, <2>5, <3>2, <3>3 DEF Writes, Chunk
  <2>7. Working'
    BY <1>1, <1>2, <1>3, <2>5, <2>6 DEF Working, NoReply, HostWaits, ChunkEnd
  <2> QED
    <3>1. BootsWell' /\ InTime'
      BY <1>1, <1>2, <2>5, LoopChangesNeither DEF Stopped
    <3> QED
      BY <1>2, <2>7, <3>1, MovedAlong
<1>6. CASE ProgramDone
  <2>1. cur = Len(pkt.words) /\ FinishHandler(Answer(TRUE, Zero)) /\ UNCHANGED flash
    BY <1>3, <1>6 DEF ProgramDone
  <2>2. flash = Written(prog, sent)
    BY <1>3, <2>1 DEF Writes, ChunkEnd
  <2> QED
    BY <1>2, <2>1, <2>2, LoopEnds
<1> QED
  BY <1>5, <1>6

LEMMA DeviceQuiet ==
  ASSUME Undisturbed, Known, QuietInv, Device
  PROVE  QuietInv'
<1>1. DeviceStep /\ handle' = HandleAfter(usb') /\ HostWaits
  BY DEF Device, HostWaits
<1>2. ASSUME usb' = usb PROVE UNCHANGED handle
  BY <1>1, <1>2 DEF Known, SuccessInv, Commanded, HandleAfter
<1>3. CASE Boot \/ Enumerate \/ SystemReset
  <2>1. Wanders
    BY <1>1, <1>3, WanderingSteps DEF QuietInv
  <2>2. phase' \notin Stopped
    <3>1. CASE Boot
      <4>1. phase = "boot" /\ ~AtWork
        BY <3>1, <2>1 DEF Boot, BootHeldByButton, BootByFlag, BootByContents, Wanders
      <4>2. ~(hpc \in {"send", "recv"} /\ step \in {"erase", "flash"})
        BY <4>1 DEF QuietInv, Sending, Receiving, Missed, Waiting, Working, Answered, Collected,
                    Ready, Done
      <4>3. Bootable
        BY <4>2 DEF QuietInv, BootsWell
      <4>4. "fault" \notin FirmwareCheck(flash)
        BY <4>3, NoFaultAtBoot DEF Undisturbed
      <4>5. FirmwareCheck(flash) \subseteq {"valid", "invalid", "fault"}
        BY DEF FirmwareCheck
      <4> QED
        BY <3>1, <4>4, <4>5 DEF Boot, BootHeldByButton, BootByFlag, BootByContents, Stopped
    <3>2. CASE Enumerate \/ SystemReset
      BY <3>2 DEF Enumerate, SystemReset, Restart, QuietInv, BootsWell, chipVars, Stopped
    <3> QED
      BY <1>3, <3>1, <3>2
  <2> QED
    BY <1>1, <2>1, <2>2, WanderingQuiet
<1>4. CASE BootloaderRequest \/ FirmwareRequest
  <2>1. usb' = usb
    BY <1>4 DEF BootloaderRequest, FirmwareRequest, HandleInfo, HandleErase, HandleFlash,
          HandleVerify, HandleBootloader, HandleReset, HandleDebug, HandleUnknown, JustReply
  <2> QED
    BY <1>1, <1>2, <1>4, <2>1, ServingQuiet
<1>5. CASE ErasePageStep \/ EraseDone
  <2>1. usb' = usb
    BY <1>5 DEF ErasePageStep, EraseDone, FinishHandler, pipeVars
  <2> QED
    BY <1>1, <1>2, <1>5, <2>1, ErasingQuiet
<1>6. CASE ProgramWordStep \/ ProgramDone
  <2>1. usb' = usb
    BY <1>6, WordStepOutline DEF ProgramDone, FinishHandler
  <2> QED
    BY <1>1, <1>2, <1>6, <2>1, ProgrammingQuiet
<1>7. ~PowerCycle /\ ~BusReset /\ ~Rollover
  BY DEF Undisturbed, PowerCycle, BusReset, Rollover
<1> QED
  BY <1>1, <1>3, <1>4, <1>5, <1>6, <1>7 DEF DeviceStep, BootloaderStep, FirmwareStep

-----------------------------------------------------------------------------
(* The tool.                                                                *)

\* Nothing is under way.
Clear == NoRequest /\ inEp = {}

LEMMA DeviceStandsStill ==
  ASSUME UNCHANGED <<chipVars, usb, outEp, inEp>>
  PROVE  /\ Clear => Clear' /\ NoRequest'
         /\ AtWork => AtWork'
         /\ Bootable => Bootable'
         /\ UNCHANGED <<phase, flash, unlocked, bkp, req, usb, outEp, inEp>>
BY DEF chipVars, Clear, NoRequest, AtWork, Bootable

\* The command ends.
LEMMA ExitQuiet ==
  ASSUME QuietInv, UNCHANGED <<chipVars, pipeVars>>, Clear, Bootable,
         NEW result, Exit(result), want => result \notin {"failed", "crashed"}
  PROVE  QuietInv'
<1>1. /\ UNCHANGED <<phase, usb>> /\ Clear' /\ NoRequest' /\ Bootable'
  BY DeviceStandsStill DEF pipeVars
<1>2. /\ hpc' = "idle" /\ handle' = "null" /\ hq' = <<>> /\ report' = result
      /\ UNCHANGED <<step, want, prog, sent>>
  BY DEF Exit
<1>3. Pausing'
  BY <1>1, <1>2 DEF Pausing, NoReply, Clear
<1>4. BootsWell'
  BY <1>1 DEF QuietInv, BootsWell
<1>5. Sending' /\ Receiving' /\ FromTheStart' /\ InTime'
  BY <1>2 DEF Sending, Receiving, FromTheStart, InTime
<1>6. NoSpuriousFailure'
  BY <1>2 DEF NoSpuriousFailure
<1> QED
  BY <1>3, <1>4, <1>5, <1>6 DEF QuietInv

\* The tool sleeps.
LEMMA SleepQuiet ==
  ASSUME QuietInv, UNCHANGED <<chipVars, pipeVars>>, Clear, Bootable, hpc # "idle",
         hpc' = "sleep", handle' # "live", hq' = <<>>,
         UNCHANGED <<step, want, prog, sent, report>>, InTime'
  PROVE  QuietInv'
<1>1. /\ UNCHANGED <<phase, usb>> /\ Clear' /\ NoRequest' /\ Bootable'
  BY DeviceStandsStill DEF pipeVars
<1>2. Pausing'
  BY <1>1 DEF Pausing, NoReply, Clear
<1>3. BootsWell'
  BY <1>1 DEF QuietInv, BootsWell
<1>4. Sending' /\ Receiving' /\ FromTheStart'
  BY DEF QuietInv, Sending, Receiving, FromTheStart
<1>5. NoSpuriousFailure'
  BY DEF QuietInv, NoSpuriousFailure, FitsHostLimit
<1> QED
  BY <1>2, <1>3, <1>4, <1>5 DEF QuietInv

\* The tool is about to send its next request.
LEMMA SendQuiet ==
  ASSUME QuietInv, UNCHANGED <<chipVars, pipeVars>>, Clear, hpc # "idle",
         hpc' = "send", handle' = "live", hq' = <<>>, UNCHANGED <<want, prog, sent, report>>,
         Bootable \/ step' \in {"erase", "flash"},
         Ready', step' = "flash" => flash = Written(prog, sent) /\ sent < Len(prog) + 3,
         FromTheStart', InTime'
  PROVE  QuietInv'
<1>1. /\ UNCHANGED <<phase, flash, usb>> /\ Clear' /\ NoRequest' /\ (Bootable => Bootable')
  BY DeviceStandsStill DEF pipeVars
<1>2. Sending'
  <2>1. step' = "flash" => flash' = Written(prog', sent') /\ sent' < Len(prog') + 3
    BY <1>1
  <2> QED
    BY <1>1, <2>1 DEF Sending, NoReply, Clear
<1>3. BootsWell'
  BY <1>1 DEF QuietInv, BootsWell
<1>4. Pausing' /\ Receiving'
  BY DEF Pausing, Receiving
<1>5. NoSpuriousFailure'
  BY DEF QuietInv, NoSpuriousFailure, FitsHostLimit
<1> QED
  BY <1>2, <1>3, <1>4, <1>5 DEF QuietInv

LEMMA ManyAttempts ==
  ASSUME Undisturbed, Known
  PROVE  /\ attempts \in Nat /\ MaxAttempts \in Nat /\ MaxAttempts >= 3
         /\ Fresh => attempts # 1 /\ (attempts - 1) + 2 > MaxAttempts
BY HostAssumption DEF Undisturbed, Known, TypeOK, HostTypeOK, Fresh

\* An attempt fails only once, and it is the first one.
LEMMA FirstAttemptFails ==
  ASSUME Undisturbed, Known, QuietInv, UNCHANGED <<chipVars, pipeVars>>, Clear, Bootable,
         hpc # "idle", Fresh, handle # "live", hq = <<>>, RetryOrGiveUp(hq)
  PROVE  QuietInv'
<1>1. attempts # 1 /\ (attempts - 1) + 2 > MaxAttempts
  BY ManyAttempts
<1>2. /\ hpc' = "sleep" /\ attempts' = attempts - 1 /\ hq' = <<>>
      /\ UNCHANGED <<step, want, handle, prog, sent, report>>
  BY <1>1 DEF RetryOrGiveUp
<1>3. attempts' + 2 > MaxAttempts
  BY <1>1, <1>2
<1>4. attempts' + 2 \in Nat
  BY <1>2, <1>3, ManyAttempts
<1>5. InTime'
  BY <1>3, <1>4, ManyAttempts DEF InTime
<1> QED
  BY <1>2, <1>5, SleepQuiet

LEMMA MissedQuiet ==
  ASSUME Undisturbed, Known, QuietInv, UNCHANGED <<chipVars, pipeVars>>,
         hpc \in {"send", "recv"}, Missed, ExchangeFailed(hq)
  PROVE  QuietInv'
<1>1. /\ step = "ask" /\ Fresh /\ handle # "live" /\ Clear /\ hq = <<>>
  BY DEF Missed, NoReply, Clear
<1>2. RetryOrGiveUp(hq)
  BY <1>1 DEF ExchangeFailed
<1>3. Bootable
  BY <1>1 DEF QuietInv, BootsWell
<1> QED
  BY <1>1, <1>2, <1>3, FirstAttemptFails

\* The device said which mode it is in, and it is in that mode.
LEMMA ModeKnownQuiet ==
  ASSUME Undisturbed, Known, QuietInv, UNCHANGED <<chipVars, pipeVars>>,
         hpc = "recv", step = "ask", handle = "live", AtWork, Clear,
         NEW b, b = (phase = "bootloader"), ModeKnown(b, <<>>)
  PROVE  QuietInv'
<1>1. want \in BOOLEAN /\ sent \in Nat
  BY ImageWords DEF Known, TypeOK, HostTypeOK
<1>2. Bootable /\ phase # "boot" /\ phase # "resetting"
  BY DEF QuietInv, BootsWell, AtWork
<1>3. UNCHANGED <<phase, flash, unlocked, bkp, usb, outEp>> /\ AtWork' /\ Bootable'
  BY <1>2, DeviceStandsStill DEF pipeVars
<1>4. CASE b = want
  <2>1. /\ hpc' = "send" /\ step' = (IF want THEN "erase" ELSE "debug") /\ hq' = <<>>
        /\ UNCHANGED <<want, attempts, handle, prog, sent, report>>
    BY <1>4 DEF ModeKnown, Begin
  <2>2. step' = "erase" => want /\ phase = "bootloader"
    BY <1>4, <2>1
  <2>3. Ready'
    BY <1>3, <2>1, <2>2 DEF Ready
  <2>4. FromTheStart'
    BY <2>1 DEF QuietInv, FromTheStart
  <2>5. InTime'
    BY <2>1 DEF InTime
  <2> QED
    BY <1>2, <2>1, <2>3, <2>4, <2>5, SendQuiet
<1>5. CASE b # want /\ want
  <2>1. phase # "bootloader"
    BY <1>5
  <2>2. attempts + 2 >= MaxAttempts /\ attempts + 2 # MaxAttempts
    BY <1>2, <1>5, <2>1 DEF QuietInv, InTime
  <2>3. attempts # 1 /\ (attempts - 1) + 2 >= MaxAttempts
    BY <2>2, ManyAttempts
  <2>4. /\ attempts' = attempts - 1 /\ hpc' = "send" /\ step' = "modeReset" /\ hq' = <<>>
        /\ UNCHANGED <<want, handle, prog, sent, report>>
    BY <1>5, <2>3 DEF ModeKnown
  <2>5. Ready'
    BY <1>3, <2>4 DEF Ready
  <2>6. FromTheStart'
    BY <2>4 DEF QuietInv, FromTheStart
  <2>7. InTime'
    BY <2>3, <2>4 DEF InTime
  <2> QED
    BY <1>2, <2>4, <2>5, <2>6, <2>7, SendQuiet
<1>6. CASE b # want /\ ~want
  <2>1. CASE attempts = 1
    <3>1. Exit("failed")
      BY <1>6, <2>1 DEF ModeKnown
    <3> QED
      BY <1>2, <1>6, <3>1, ExitQuiet
  <2>2. CASE attempts # 1
    <3>1. /\ hpc' = "send" /\ step' = "modeReset" /\ hq' = <<>>
          /\ UNCHANGED <<want, handle, prog, sent, report>>
      BY <1>6, <2>2 DEF ModeKnown
    <3>2. Ready'
      BY <1>3, <3>1 DEF Ready
    <3>3. FromTheStart' /\ InTime'
      BY <1>6, <3>1 DEF FromTheStart, InTime
    <3> QED
      BY <1>2, <3>1, <3>2, <3>3, SendQuiet
  <2> QED
    BY <2>1, <2>2
<1> QED
  BY <1>1, <1>4, <1>5, <1>6

\* The answer is the right one, and the tool goes on.
LEMMA AnswerQuiet ==
  ASSUME Undisturbed, Known, QuietInv, UNCHANGED <<chipVars, pipeVars>>,
         hpc = "recv", Clear, Done, NEW a, hq = <<a>>, Right(a), ReplyOk(a.data, <<>>)
  PROVE  QuietInv'
<1>1. /\ step \in Steps /\ prog \in Programs /\ Len(prog) \in Nat
      /\ sent \in Nat /\ sent <= Len(prog) + 3
      /\ step \in {"erase", "flash", "verify", "reset"} => want /\ prog \in Accepted
  BY ImageWords DEF Known, TypeOK, HostTypeOK, SuccessInv, Commanded, Accepted
<1>2. step \notin {"erase", "flash"} => Bootable
  BY DEF QuietInv, BootsWell
<1>3. UNCHANGED <<phase, flash, unlocked, bkp, usb, outEp, inEp>> /\ (AtWork => AtWork')
  BY DeviceStandsStill DEF pipeVars
<1>4. CASE step = "ask"
  <2>1. PICK b \in SaysBootloader(a.data) : ModeKnown(b, <<>>)
    BY <1>4 DEF ReplyOk
  <2>2. b = (phase = "bootloader")
    <3>1. CASE phase = "bootloader"
      <4>1. a.data = Num(1)
        BY <1>4, <3>1 DEF Right
      <4>2. b = TRUE
        BY <2>1, <4>1, AnswersAreClear
      <4> QED
        BY <3>1, <4>2
    <3>2. CASE phase # "bootloader"
      <4>1. a.data = Zero
        BY <1>4, <3>2 DEF Right
      <4>2. b = FALSE
        BY <2>1, <4>1, AnswersAreClear
      <4> QED
        BY <3>2, <4>2
    <3> QED
      BY <3>1, <3>2
  <2> QED
    BY <1>4, <2>1, <2>2, ModeKnownQuiet DEF Done
<1>5. CASE step = "modeReset"
  <2>1. /\ hpc' = "sleep" /\ handle' = "closed" /\ hq' = <<>>
        /\ UNCHANGED <<step, want, attempts, prog, sent, report>>
    BY <1>5 DEF ReplyOk, CloseAndSleep
  <2>2. InTime'
    BY <1>3, <2>1 DEF QuietInv, InTime, Clear, NoRequest
  <2> QED
    BY <1>2, <1>5, <2>1, <2>2, SleepQuiet
<1>6. CASE step = "erase"
  <2>1. /\ hpc' = "send" /\ step' = "flash" /\ hq' = <<>>
        /\ UNCHANGED <<want, attempts, handle, prog, sent, report>>
    BY <1>6 DEF ReplyOk, Begin
  <2>2. sent = 0
    BY <1>1, <1>6 DEF QuietInv, FromTheStart
  <2>3. /\ flash = Written(prog, sent) /\ sent < Len(prog) + 3
        /\ phase = "bootloader" /\ unlocked /\ handle = "live" /\ AtWork
    BY <1>1, <1>6, <2>2 DEF Done
  <2>4. Ready'
    BY <1>3, <2>1, <2>3 DEF Ready
  <2>5. FromTheStart' /\ InTime'
    BY <2>1 DEF FromTheStart, InTime
  <2> QED
    BY <2>1, <2>3, <2>4, <2>5, SendQuiet
<1>7. CASE step = "flash"
  <2>1. /\ flash = Written(prog, sent)
        /\ phase = "bootloader" /\ unlocked /\ handle = "live" /\ AtWork
    BY <1>7 DEF Done
  <2>2. CASE sent < Len(prog) + 3
    <3>1. /\ hpc' = "send" /\ step' = "flash" /\ hq' = <<>>
          /\ UNCHANGED <<want, attempts, handle, prog, sent, report>>
      BY <1>7, <2>2 DEF ReplyOk, Begin
    <3>2. Ready'
      BY <1>3, <2>1, <3>1 DEF Ready
    <3>3. FromTheStart' /\ InTime'
      BY <3>1 DEF FromTheStart, InTime
    <3> QED
      BY <2>1, <2>2, <3>1, <3>2, <3>3, SendQuiet
  <2>3. CASE ~(sent < Len(prog) + 3)
    <3>1. /\ hpc' = "send" /\ step' = "verify" /\ hq' = <<>>
          /\ UNCHANGED <<want, attempts, handle, prog, sent, report>>
      BY <1>7, <2>3 DEF ReplyOk, Begin
    <3>2. sent = Len(prog) + 3
      BY <1>1, <2>3
    <3>3. WholeImage /\ WholeImage'
      BY <1>3, <2>1, <3>1, <3>2 DEF WholeImage
    <3>4. Bootable
      BY <1>1, <1>7, <3>3, WholeIsBuffer DEF Bootable
    <3>5. Ready'
      BY <1>3, <2>1, <3>1, <3>3 DEF Ready
    <3>6. FromTheStart' /\ InTime'
      BY <3>1 DEF FromTheStart, InTime
    <3> QED
      BY <2>1, <3>1, <3>4, <3>5, <3>6, SendQuiet
  <2> QED
    BY <2>2, <2>3
<1>8. CASE step = "verify"
  <2>1. a.data = CrcOf(Buffer(prog), ProgramWords)
    BY <1>8 DEF Right
  <2>2. /\ hpc' = "send" /\ step' = "reset" /\ hq' = <<>>
        /\ UNCHANGED <<want, attempts, handle, prog, sent, report>>
    BY <1>8, <2>1 DEF ReplyOk, Begin
  <2>3. phase = "bootloader" /\ handle = "live" /\ AtWork /\ WholeImage
    BY <1>8 DEF Done
  <2>4. WholeImage'
    BY <1>3, <2>2, <2>3 DEF WholeImage
  <2>5. Ready'
    BY <1>3, <2>2, <2>3, <2>4 DEF Ready
  <2>6. FromTheStart' /\ InTime'
    BY <2>2 DEF FromTheStart, InTime
  <2> QED
    BY <1>2, <1>8, <2>2, <2>3, <2>5, <2>6, SendQuiet
<1>9. CASE step \in {"reset", "debug"}
  <2>1. Exit("installed") \/ Exit("debugged")
    BY <1>9 DEF ReplyOk
  <2> QED
    BY <1>2, <1>9, <2>1, ExitQuiet
<1> QED
  BY <1>1, <1>4, <1>5, <1>6, <1>7, <1>8, <1>9 DEF Steps

LEMMA ReceiveQuiet ==
  ASSUME Undisturbed, Known, QuietInv, UNCHANGED chipVars, ReceiveReply \/ ReceiveFails
  PROVE  QuietInv'
<1>1. hpc = "recv" /\ UNCHANGED <<chipVars, pipeVars>>
  BY DEF ReceiveReply, ReceiveFails
<1>2. CASE hq # <<>>
  <2>1. ReceiveReply
    BY <1>2 DEF ReceiveReply, ReceiveFails, Undisturbed
  <2>2. Collected
    BY <1>1, <1>2 DEF QuietInv, Receiving, Waiting, Working, Answered, Missed, NoReply
  <2>3. PICK a : hq = <<a>> /\ a = hq[1]
    BY <2>2 DEF Collected
  <2>4. Head(hq) = a /\ Tail(hq) = <<>>
    BY <2>3
  <2>5. a.ok /\ Right(a) /\ Clear /\ Done
    BY <2>2, <2>3 DEF Collected, Right, Clear
  <2>6. ReplyOk(a.data, <<>>)
    BY <2>1, <2>4, <2>5 DEF ReceiveReply
  <2> QED
    BY <1>1, <2>3, <2>5, <2>6, AnswerQuiet
<1>3. CASE hq = <<>>
  <2>1. ReceiveFails /\ handle = "stale"
    BY <1>3 DEF ReceiveReply, ReceiveFails, Undisturbed
  <2>2. Missed
    BY <1>1, <1>3, <2>1 DEF QuietInv, Receiving, Waiting, Working, Answered, Collected
  <2> QED
    BY <1>1, <2>1, <2>2, MissedQuiet DEF ReceiveFails
<1> QED
  BY <1>2, <1>3

\* A request goes out while nothing else is on the way.
LEMMA SendRequestQuiet ==
  ASSUME Known, QuietInv, UNCHANGED chipVars, SendRequest
  PROVE  QuietInv'
<1>1. PICK pkt : pkt = Request
  OBVIOUS
<1>2. /\ hpc = "send" /\ handle = "live" /\ outEp' = {pkt} /\ hpc' = "recv"
      /\ sent' = IF step = "flash" THEN LastWord(sent) ELSE sent
      /\ UNCHANGED <<usb, inEp, step, want, attempts, handle, hq, prog, report>>
      /\ UNCHANGED <<phase, flash, unlocked, bkp, req>>
  BY <1>1 DEF SendRequest, chipVars
<1>3. /\ NoRequest /\ NoReply /\ Ready
      /\ step = "flash" => flash = Written(prog, sent) /\ sent < Len(prog) + 3
  BY <1>2 DEF QuietInv, Sending, Missed
<1>4. step \in Steps /\ sent \in Nat /\ (step = "flash" => prog \in Accepted)
  BY <1>2, ImageWords DEF Known, TypeOK, HostTypeOK, SuccessInv, Commanded, Accepted
<1>5. NoReply' /\ req' = {} /\ phase' \notin {"erasing", "programming"}
  BY <1>2, <1>3 DEF NoReply, NoRequest
<1>6. Ready'
  <2>1. WholeImage => WholeImage'
    BY <1>2 DEF WholeImage
  <2> QED
    BY <1>2, <1>3, <2>1 DEF Ready, AtWork, Fresh
<1>7. Waiting'
  <2>1. CASE step = "flash"
    <3>1. Chunk(pkt, prog) /\ ChunkEnd(pkt) = LastWord(sent) /\ pkt.arg = sent
      BY <1>1, <1>3, <1>4, <2>1, RequestIsChunk
    <3>2. Chunk(pkt, prog') /\ ChunkEnd(pkt) = sent' /\ flash' = Written(prog', pkt.arg)
      BY <1>2, <1>3, <2>1, <3>1
    <3> QED
      BY <1>2, <1>5, <1>6, <2>1, <3>2 DEF Waiting
  <2>2. CASE step # "flash"
    <3>1. Request' = Request
      BY <1>2, <1>4, <2>2 DEF Request, Packet, Steps
    <3> QED
      BY <1>1, <1>2, <1>5, <1>6, <2>2, <3>1 DEF Waiting
  <2> QED
    BY <2>1, <2>2
<1>8. Pausing' /\ Sending' /\ Receiving'
  BY <1>2, <1>7 DEF Pausing, Sending, Receiving
<1>9. FromTheStart'
  BY <1>2 DEF QuietInv, FromTheStart
<1>10. BootsWell'
  BY <1>2 DEF QuietInv, BootsWell, Bootable
<1>11. InTime'
  BY <1>2 DEF QuietInv, InTime
<1>12. NoSpuriousFailure'
  BY <1>2 DEF QuietInv, NoSpuriousFailure, FitsHostLimit
<1> QED
  BY <1>8, <1>9, <1>10, <1>11, <1>12 DEF QuietInv

LEMMA SendFailsQuiet ==
  ASSUME Undisturbed, Known, QuietInv, UNCHANGED chipVars, SendFails \/ UseAfterClose
  PROVE  QuietInv'
<1>1. /\ hpc = "send" /\ handle # "live" /\ UNCHANGED <<chipVars, pipeVars>>
  BY DEF SendFails, UseAfterClose
<1>2. Missed
  BY <1>1 DEF QuietInv, Sending
<1>3. SendFails
  BY <1>2 DEF UseAfterClose, Missed
<1> QED
  BY <1>1, <1>2, <1>3, MissedQuiet DEF SendFails

LEMMA ConnectQuiet ==
  ASSUME Undisturbed, Known, QuietInv, UNCHANGED chipVars, ConnectOpens \/ ConnectFindsNothing
  PROVE  QuietInv'
<1>1. /\ hpc = "connect" /\ UNCHANGED <<chipVars, pipeVars>>
  BY DEF ConnectOpens, ConnectFindsNothing
<1>2. Clear /\ hq = <<>> /\ handle # "live" /\ (AtWork \/ (Fresh /\ handle = "null"))
  BY <1>1 DEF QuietInv, Pausing, NoReply, Clear
<1>3. Bootable /\ step \in {"ask", "modeReset"}
  BY <1>1 DEF QuietInv, BootsWell, Known, SuccessInv, Commanded
<1>4. CASE ConnectOpens
  <2>1. /\ hpc' = "send" /\ step' = "ask" /\ handle' = "live" /\ hq' = <<>>
        /\ UNCHANGED <<want, attempts, prog, sent, report>>
    BY <1>4 DEF ConnectOpens
  <2>2. Ready'
    <3>1. AtWork => AtWork'
      BY <1>1, DeviceStandsStill DEF pipeVars
    <3> QED
      BY <1>2, <2>1, <3>1 DEF Ready, Fresh
  <2>3. FromTheStart'
    BY <1>1, <1>3, <2>1 DEF QuietInv, FromTheStart
  <2>4. InTime'
    BY <1>1, <1>2, <1>3, <2>1 DEF QuietInv, InTime, Clear, NoRequest, chipVars, pipeVars
  <2> QED
    BY <1>1, <1>2, <1>3, <2>1, <2>2, <2>3, <2>4, SendQuiet
<1>5. CASE ConnectFindsNothing
  <2>1. Fresh /\ handle = "null"
    BY <1>2, <1>5 DEF ConnectFindsNothing, AtWork
  <2>2. RetryOrGiveUp(hq)
    BY <1>5, <2>1 DEF ConnectFindsNothing
  <2> QED
    BY <1>1, <1>2, <1>3, <2>1, <2>2, FirstAttemptFails
<1> QED
  BY <1>4, <1>5

\* The device is back when the tool wakes up.
LEMMA WakeUpQuiet ==
  ASSUME Undisturbed, Known, QuietInv, UNCHANGED chipVars, WakeUp(Settled)
  PROVE  QuietInv'
<1>1. /\ hpc = "sleep" /\ hpc' = "connect" /\ Settled
      /\ UNCHANGED <<step, want, attempts, handle, hq, prog, sent, report>>
      /\ UNCHANGED <<phase, flash, unlocked, bkp, req, usb, outEp, inEp>>
  BY DEF WakeUp, Undisturbed, chipVars, pipeVars
<1>2. NoRequest /\ NoReply /\ handle # "live"
  BY <1>1 DEF QuietInv, Pausing
<1>3. phase \in Phases
  BY DEF Known, TypeOK, ChipTypeOK
<1>4. AtWork
  BY <1>1, <1>2, <1>3 DEF Settled, QuietInv, BootsWell, NoRequest, Phases, Stopped, AtWork
<1>5. Pausing'
  BY <1>1, <1>2, <1>4 DEF Pausing, NoRequest, NoReply, AtWork
<1>6. Sending' /\ Receiving'
  BY <1>1 DEF Sending, Receiving
<1>7. FromTheStart' /\ BootsWell' /\ InTime'
  BY <1>1 DEF QuietInv, FromTheStart, BootsWell, Bootable, InTime
<1>8. NoSpuriousFailure'
  BY <1>1 DEF QuietInv, NoSpuriousFailure, FitsHostLimit
<1> QED
  BY <1>5, <1>6, <1>7, <1>8 DEF QuietInv

LEMMA CommandQuiet ==
  ASSUME Undisturbed, Known, QuietInv, UNCHANGED chipVars, HostCommand
  PROVE  QuietInv'
<1>1. /\ hpc = "idle" /\ UNCHANGED <<handle, hq>>
      /\ UNCHANGED <<phase, flash, unlocked, bkp, req, usb, outEp, inEp>>
  BY DEF HostCommand, StartDebug, StartFlash, EnterMode, chipVars, pipeVars
<1>2. NoRequest /\ NoReply /\ handle = "null" /\ Bootable
  BY <1>1 DEF QuietInv, Pausing, BootsWell
<1>3. NoRequest' /\ NoReply' /\ Bootable'
  BY <1>1, <1>2 DEF NoRequest, NoReply, Bootable
<1>4. BootsWell'
  BY <1>1, <1>3 DEF QuietInv, BootsWell
<1>5. CASE StartDebug \/ \E p \in Programs : StartFlash(p) /\ EnterMode(TRUE)
  <2>1. /\ hpc' = "connect" /\ step' = "ask" /\ attempts' = MaxAttempts /\ report' = "none"
        /\ want' => sent' = 0
    BY <1>5 DEF StartDebug, StartFlash, EnterMode
  <2>2. Pausing'
    BY <1>1, <1>2, <1>3, <2>1 DEF Pausing, Fresh
  <2>3. Sending' /\ Receiving' /\ FromTheStart'
    BY <2>1 DEF Sending, Receiving, FromTheStart
  <2>4. InTime'
    BY <2>1, ManyAttempts DEF InTime
  <2>5. NoSpuriousFailure'
    BY <2>1 DEF NoSpuriousFailure
  <2> QED
    BY <1>4, <2>2, <2>3, <2>4, <2>5 DEF QuietInv
<1>6. CASE \E p \in Programs : StartFlash(p) /\ report' = "refused"
                               /\ UNCHANGED <<hpc, step, want, attempts, handle, hq>>
  <2>1. hpc' = "idle" /\ report' = "refused"
    BY <1>1, <1>6
  <2>2. Pausing' /\ Sending' /\ Receiving' /\ FromTheStart' /\ InTime'
    BY <1>1, <1>2, <1>3, <2>1 DEF Pausing, Sending, Receiving, FromTheStart, InTime
  <2>3. NoSpuriousFailure'
    BY <2>1 DEF NoSpuriousFailure
  <2> QED
    BY <1>4, <2>2, <2>3 DEF QuietInv
<1> QED
  BY <1>5, <1>6 DEF HostCommand, StartFlash

LEMMA CollectQuiet ==
  ASSUME Known, QuietInv, UNCHANGED chipVars, CollectReport \/ DropReport
  PROVE  QuietInv'
<1>1. /\ inEp # {} /\ inEp' = {}
      /\ UNCHANGED <<hpc, step, want, attempts, handle, prog, sent, report, usb, outEp>>
      /\ UNCHANGED <<phase, flash, unlocked, bkp, req>>
  BY DEF CollectReport, DropReport, hostVars, chipVars
<1>2. hpc = "recv" /\ Answered
  BY <1>1 DEF Known, TypeOK, HostTypeOK, HostPoints, QuietInv, Pausing, Sending, Receiving,
              Missed, NoReply, Waiting, Working, Collected
<1>3. PICK a : inEp = {a} /\ Right(a)
  BY <1>2 DEF Answered
<1>4. CollectReport /\ hq' = Append(<<>>, a)
  BY <1>2, <1>3 DEF Answered, CollectReport, DropReport
<1>5. hq' = <<a>>
  BY <1>4
<1>6. Right(a)'
  BY <1>1, <1>3 DEF Right
<1>7. Done' /\ NoRequest'
  BY <1>1, <1>2 DEF Answered, Done, AtWork, WholeImage, NoRequest
<1>8. Collected'
  BY <1>1, <1>2, <1>5, <1>6, <1>7 DEF Answered, Collected
<1>9. Pausing' /\ Sending' /\ Receiving'
  BY <1>1, <1>2, <1>8 DEF Pausing, Sending, Receiving
<1>10. FromTheStart' /\ BootsWell' /\ InTime'
  BY <1>1 DEF QuietInv, FromTheStart, BootsWell, Bootable, InTime
<1>11. NoSpuriousFailure'
  BY <1>1 DEF QuietInv, NoSpuriousFailure, FitsHostLimit
<1> QED
  BY <1>9, <1>10, <1>11 DEF QuietInv

LEMMA HostQuiet ==
  ASSUME Undisturbed, Known, QuietInv, Host
  PROVE  QuietInv'
<1>1. HostStep(Settled) /\ UNCHANGED chipVars
  BY DEF Host
<1>2. ~Kill
  BY DEF Undisturbed, Kill
<1> QED
  BY <1>1, <1>2, SendRequestQuiet, SendFailsQuiet, ConnectQuiet, WakeUpQuiet, ReceiveQuiet,
     CommandQuiet, CollectQuiet DEF HostStep, HostProgress

-----------------------------------------------------------------------------

LEMMA InitQuiet ==
  ASSUME Undisturbed, Init
  PROVE  QuietInv
<1>1. PICK c \in Contents : ChipInit(c)
  BY DEF Init
<1>2. /\ phase = "boot" /\ flash = c /\ req = {} /\ usb = FALSE /\ outEp = {} /\ inEp = {}
      /\ hpc = "idle" /\ handle = "null" /\ hq = <<>> /\ report = "none"
  BY <1>1 DEF ChipInit, NoHandler, Init, PipeInit, HostInit
<1>3. Bootable
  BY <1>2, UpdateAssumption DEF Bootable, Holds, Accepted
<1> QED
  BY <1>2, <1>3 DEF QuietInv, Pausing, Sending, Receiving, FromTheStart, BootsWell, InTime,
                    NoSpuriousFailure, NoRequest, NoReply, Stopped

LEMMA StutterQuiet ==
  ASSUME QuietInv, UNCHANGED vars
  PROVE  QuietInv'
<1>1. /\ UNCHANGED <<phase, flash, unlocked, bkp, req, cur, usb, outEp, inEp>>
      /\ UNCHANGED <<hpc, step, want, attempts, handle, hq, prog, sent, report>>
  BY DEF vars, deviceVars, chipVars, pipeVars, hostVars
<1>2. /\ NoRequest' = NoRequest /\ NoReply' = NoReply /\ AtWork' = AtWork /\ Fresh' = Fresh
      /\ Ready' = Ready /\ Done' = Done /\ Missed' = Missed /\ Request' = Request
  BY <1>1 DEF NoRequest, NoReply, AtWork, Fresh, Ready, Done, Missed, WholeImage, Written,
              Request, LastWord
<1>3. Pausing' /\ Sending'
  BY <1>1, <1>2 DEF QuietInv, Pausing, Sending
<1>4. Receiving'
  <2>1. Waiting => Waiting'
    BY <1>1, <1>2 DEF Waiting
  <2>2. Working => Working'
    BY <1>1, <1>2 DEF Working, Writes
  <2>3. (Answered => Answered') /\ (Collected => Collected')
    BY <1>1, <1>2 DEF Answered, Collected, Right
  <2> QED
    BY <1>1, <1>2, <2>1, <2>2, <2>3 DEF QuietInv, Receiving
<1>5. FromTheStart' /\ BootsWell' /\ InTime' /\ NoSpuriousFailure'
  BY <1>1 DEF QuietInv, FromTheStart, BootsWell, Bootable, InTime, NoSpuriousFailure,
              FitsHostLimit
<1> QED
  BY <1>3, <1>4, <1>5 DEF QuietInv

\* Tool and device go in step (send_receive, endpoint_callback, the delay
\* before scb_reset_system): the inductive invariant.
THEOREM ToolAndDeviceInStep ==
  ASSUME Undisturbed
  PROVE  Spec => []QuietInv
<1>1. Init => QuietInv
  BY InitQuiet
<1>2. Known /\ QuietInv /\ [Next]_vars => QuietInv'
  BY DeviceQuiet, HostQuiet, StutterQuiet DEF Next
<1>3. TypeOK /\ SuccessInv => Known
  BY DEF Known
<1> QED
  BY <1>1, <1>2, <1>3, TypesAreKept, OldRepliesAreUsedUp, PTL DEF Spec

\* When nothing disrupts it, the update with a file that the tool accepts does
\* not fail (enter_device_mode, flash_program): three attempts are enough, one
\* for a device that is still in the reset an earlier command asked for, one
\* to reset the firmware, one to meet the bootloader.
THEOREM QuietUpdatesDoNotFail ==
  ASSUME Undisturbed
  PROVE  Spec => []NoSpuriousFailure
<1>1. QuietInv => NoSpuriousFailure
  BY DEF QuietInv
<1> QED
  BY <1>1, ToolAndDeviceInStep, PTL

-----------------------------------------------------------------------------
(* After the update: the device leaves the bootloader.                      *)

\* The steps of the tool that end or continue a command.
LEMMA HostLeaves ==
  ASSUME Known, QuietInv, Leaving, UNCHANGED chipVars, HostStep(Settled)
  PROVE  Leaving'
<1>1. UNCHANGED <<phase, bkp>>
  BY DEF chipVars
<1>2. SUFFICES ASSUME Dismissed' PROVE Dismissed
  BY <1>1 DEF Leaving
<1>3. CASE SendRequest
  BY <1>2, <1>3 DEF SendRequest, Dismissed
<1>4. CASE ReceiveReply
  <2>1. hpc = "recv" /\ hq # <<>> /\ UNCHANGED outEp /\ report # "installed"
    BY <1>4 DEF ReceiveReply, pipeVars, Known, SuccessInv, StaysInstalled
  <2>2. outEp = {}
    BY <2>1 DEF QuietInv, Receiving, Waiting, Working, Answered, Collected, Missed,
                NoReply, NoRequest
  <2>3. hpc' # "recv" /\ (report' = "installed" => step = "reset")
    <3>1. ReplyOk(Head(hq).data, Tail(hq)) \/ ExchangeFailed(Tail(hq))
      BY <1>4 DEF ReceiveReply
    <3>2. CASE ExchangeFailed(Tail(hq))
      BY <2>1, <3>2 DEF ExchangeFailed, RetryOrGiveUp, CloseAndSleep, Exit
    <3>3. CASE ReplyOk(Head(hq).data, Tail(hq))
      BY <2>1, <3>3 DEF ReplyOk, ModeKnown, Begin, CloseAndSleep, Exit, Known, TypeOK,
                        HostTypeOK, Steps
    <3> QED
      BY <3>1, <3>2, <3>3
  <2> QED
    BY <1>2, <2>1, <2>2, <2>3 DEF Dismissed
<1>5. CASE HostCommand
  BY <1>2, <1>5 DEF HostCommand, StartDebug, StartFlash, EnterMode, Dismissed
<1>6. CASE CollectReport \/ DropReport
  BY <1>2, <1>6 DEF CollectReport, DropReport, hostVars, Dismissed
<1>7. CASE SendFails \/ ReceiveFails
  <2>1. ExchangeFailed(hq)
    BY <1>7 DEF SendFails, ReceiveFails
  <2>2. hpc' # "recv" /\ report' \in {report, "failed"}
    BY <2>1 DEF ExchangeFailed, RetryOrGiveUp, CloseAndSleep, Exit
  <2> QED
    BY <1>2, <2>2 DEF Dismissed
<1>8. CASE ConnectOpens \/ ConnectFindsNothing \/ WakeUp(Settled) \/ UseAfterClose \/ Kill
  <2>1. hpc' # "recv" /\ report' \in {report, "failed", "crashed"}
    BY <1>8 DEF ConnectOpens, ConnectFindsNothing, WakeUp, UseAfterClose, Kill, Exit,
                RetryOrGiveUp, Begin
  <2> QED
    BY <1>2, <2>1 DEF Dismissed
<1> QED
  BY <1>3, <1>4, <1>5, <1>6, <1>7, <1>8 DEF HostStep, HostProgress

\* The device takes the last reset request, which clears the flag, and then
\* resets, boots and runs the firmware.
LEMMA DeviceLeaves ==
  ASSUME Undisturbed, Unheld, Known, QuietInv, Leaving, Device
  PROVE  Leaving'
<1>1. DeviceStep /\ UNCHANGED <<hpc, step, want, attempts, hq, prog, sent, report>>
  BY DEF Device
<1>2. SUFFICES ASSUME Dismissed'
               PROVE  phase' \in {"resetting", "boot", "firmware"} /\ ~bkp'
  BY DEF Leaving
<1>3. ~PowerCycle /\ ~BusReset /\ ~Rollover
  BY DEF Undisturbed, PowerCycle, BusReset, Rollover
<1>4. step \in Steps /\ hpc \in HostPoints
  BY DEF Known, TypeOK, HostTypeOK
<1>5. CASE Dismissed
  <2>1. phase \in {"resetting", "boot", "firmware"} /\ ~bkp
    BY <1>5 DEF Leaving
  <2>2. flash = Buffer(prog) /\ prog \in Accepted
    BY <1>5 DEF Known, TypeOK, HostTypeOK, SuccessInv, StaysInstalled, Installed, Holds,
                Dismissed, Accepted
  <2>3. outEp = {}
    BY <1>5 DEF Known, SuccessInv, StaysInstalled, QuietInv, Pausing, NoRequest, Dismissed
  <2>4. ~BootloaderRequest /\ ~FirmwareStep /\ ~ErasePageStep /\ ~EraseDone
        /\ ~ProgramWordStep /\ ~ProgramDone
    BY <2>1, <2>3 DEF BootloaderRequest, FirmwareStep, FirmwareRequest, ErasePageStep,
                      EraseDone, ProgramWordStep, ProgramDone
  <2>5. CASE Boot
    <3>1. BootByContents
      BY <2>1, <2>5 DEF Boot, BootHeldByButton, BootByFlag, Unheld
    <3>2. FirmwareCheck(flash) = {"valid"}
      BY <2>2, TrailerIsRight DEF FirmwareCheck, Unheld, Undisturbed
    <3> QED
      BY <2>1, <3>1, <3>2 DEF BootByContents
  <2>6. CASE Enumerate \/ SystemReset
    BY <2>1, <2>6 DEF Enumerate, SystemReset, Restart, chipVars
  <2> QED
    BY <1>1, <1>3, <2>4, <2>5, <2>6 DEF DeviceStep, BootloaderStep
<1>6. CASE ~Dismissed
  <2>1. hpc = "recv" /\ step = "reset" /\ outEp # {} /\ outEp' = {}
    BY <1>1, <1>2, <1>6 DEF Dismissed
  <2>2. Waiting
    BY <2>1 DEF QuietInv, Receiving, Working, Answered, Collected, Missed, NoRequest
  <2>3. outEp = {Request} /\ usb /\ phase = "bootloader"
    BY <2>1, <2>2 DEF Waiting, Ready, AtWork
  <2>4. Request.op = "reset" /\ Request.arg = 0
    BY <1>4, <2>1, RequestOf
  <2>5. BootloaderRequest
    BY <1>1, <1>3, <2>3 DEF DeviceStep, BootloaderStep, Boot, BootHeldByButton, BootByFlag,
       BootByContents, FirmwareStep, FirmwareRequest, ErasePageStep, EraseDone,
       ProgramWordStep, ProgramDone, Enumerate, PipeUp, SystemReset
  <2>6. HandleReset(Request)
    BY <2>3, <2>4, <2>5 DEF BootloaderRequest, HandleInfo, HandleErase, HandleFlash,
       HandleVerify, HandleBootloader, HandleDebug, HandleUnknown
  <2>7. phase' = "resetting" /\ bkp' = (Request.arg = 1)
    BY <2>6 DEF HandleReset
  <2>8. (Request.arg = 1) = FALSE
    BY <2>4
  <2>9. bkp' = FALSE
    BY <2>7, <2>8
  <2> QED
    BY <2>7, <2>9
<1> QED
  BY <1>5, <1>6

\* After a reported success the device does not stay in the bootloader, and no
\* flag of an earlier reset request holds it there (flash_program,
\* should_run_firmware).
THEOREM TheBootloaderIsLeft ==
  ASSUME Undisturbed, Unheld
  PROVE  Spec => []LeavesTheBootloader
<1>1. Init => Leaving
  BY DEF Init, HostInit, Leaving, Dismissed
<1>2. Known /\ QuietInv /\ Leaving /\ [Next]_vars => Leaving'
  <2> SUFFICES ASSUME Known, QuietInv, Leaving, [Next]_vars PROVE Leaving'
    OBVIOUS
  <2>1. CASE Device
    BY <2>1, DeviceLeaves
  <2>2. CASE Host
    BY <2>2, HostLeaves DEF Host
  <2>3. CASE UNCHANGED vars
    BY <2>3 DEF vars, deviceVars, hostVars, chipVars, pipeVars, Leaving, Dismissed
  <2> QED
    BY <2>1, <2>2, <2>3 DEF Next
<1>3. TypeOK /\ SuccessInv => Known
  BY DEF Known
<1>4. Leaving => LeavesTheBootloader
  BY DEF Leaving, Dismissed, LeavesTheBootloader
<1> QED
  BY <1>1, <1>2, <1>3, <1>4, TypesAreKept, OldRepliesAreUsedUp, ToolAndDeviceInStep, PTL
     DEF Spec
=============================================================================
