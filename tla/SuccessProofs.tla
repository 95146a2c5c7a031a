---------------------------- MODULE SuccessProofs ----------------------------
(***************************************************************************)
(* What the tool reports is true (module SuccessInvariant has the          *)
(* argument): for every layout, every set of programs, every packet size   *)
(* and whatever goes wrong, worn cells and pages included.  Nothing is     *)
(* assumed but the assumptions on the constants.  At the end are the types *)
(* of the update path.                                                     *)
(***************************************************************************)
EXTENDS UpdateProofs, SuccessInvariant

-----------------------------------------------------------------------------
(* Words and reports.                                                       *)

\* The CRC that the tool expects is no number.
LEMMA VerdictIsNoNumber ==
  ASSUME NEW ok, NEW n
  PROVE  ~Vouches(Answer(ok, Num(n)))
<1>1. CrcOf(Buffer(prog), ProgramWords) # Num(n)
  BY WordKinds, Layout
<1> QED
  BY <1>1 DEF Vouches, Answer

LEMMA PlainAnswers ==
  ASSUME NEW ok
  PROVE  ~Vouches(Answer(ok, Zero)) /\ ~Vouches(Answer(ok, Num(1)))
BY VerdictIsNoNumber DEF Zero

\* Only an area that holds the buffer of the tool has its CRC.
LEMMA VerdictMeansStored ==
  ASSUME flash = [i \in Index |-> flash[i]], NEW n,
         Vouches(Answer(TRUE, CrcOf(flash, n)))
  PROVE  flash = Buffer(prog)
<1>1. CrcOf(flash, n) = CrcOf(Buffer(prog), ProgramWords)
  BY DEF Vouches, Answer
<1>2. CrcOf(Buffer(prog), ProgramWords) = <<"crc", Prefix(Buffer(prog), ProgramWords)>>
  BY Layout DEF CrcOf
<1>3. n # 0
  <2>1. CrcOf(flash, 0) = Num(MaxWord)
    BY DEF CrcOf, Erased
  <2> QED
    BY <1>1, <2>1, WordKinds, Layout
<1>4. Prefix(flash, n) = Prefix(Buffer(prog), ProgramWords)
  BY <1>1, <1>2, <1>3 DEF CrcOf
<1>5. \A i \in Index : flash[i] = Buffer(prog)[i]
  <2>1. DOMAIN Prefix(flash, n) = 1..n /\ \A i \in 1..n : Prefix(flash, n)[i] = flash[i]
    BY DEF Prefix
  <2>2. /\ DOMAIN Prefix(Buffer(prog), ProgramWords) = Index
        /\ \A i \in Index : Prefix(Buffer(prog), ProgramWords)[i] = Buffer(prog)[i]
    BY DEF Prefix, Index
  <2> QED
    BY <1>4, <2>1, <2>2
<1> QED
  BY <1>5 DEF Buffer

\* What the operating system keeps is a sequence of reports.
LEMMA ReportsAreASequence ==
  ASSUME Sequences
  PROVE  \E S : hq \in Seq(S)
<1> DEFINE n == Len(hq)
           S == {hq[i] : i \in 1..n}
<1>1. n \in Nat /\ hq = [i \in 1..n |-> hq[i]]
  BY DEF Sequences
<1>2. hq \in [1..n -> S]
  BY <1>1
<1>3. hq \in Seq(S)
  BY <1>1, <1>2, SeqDef
<1> QED
  BY <1>3

\* A sequence is a function on its indices.
LEMMA SequenceIsFunction ==
  ASSUME NEW S, NEW s \in Seq(S)
  PROVE  Len(s) \in Nat /\ DOMAIN s = 1..Len(s) /\ s = [i \in 1..Len(s) |-> s[i]]
OBVIOUS

LEMMA FirstReport ==
  ASSUME Sequences, hq # <<>>
  PROVE  /\ Len(hq) >= 1 /\ Head(hq) = hq[1] /\ 1 \in DOMAIN hq
         /\ Len(Tail(hq)) = Len(hq) - 1 /\ DOMAIN Tail(hq) = 1..(Len(hq) - 1)
         /\ Tail(hq) = [i \in 1..Len(Tail(hq)) |-> Tail(hq)[i]]
         /\ \A i \in 1..(Len(hq) - 1) : Tail(hq)[i] = hq[i + 1] /\ i + 1 \in DOMAIN hq
<1>1. PICK S : hq \in Seq(S)
  BY ReportsAreASequence
<1>2. /\ Tail(hq) \in Seq(S) /\ Len(Tail(hq)) = Len(hq) - 1
      /\ \A i \in 1..Len(Tail(hq)) : Tail(hq)[i] = hq[i + 1]
  BY <1>1, HeadTailProperties
<1>3. Len(hq) \in Nat /\ Len(hq) >= 1 /\ DOMAIN hq = 1..Len(hq) /\ Head(hq) = hq[1]
  BY <1>1
<1>4. DOMAIN Tail(hq) = 1..(Len(hq) - 1)
  BY <1>2
<1>5. Tail(hq) = [i \in 1..Len(Tail(hq)) |-> Tail(hq)[i]]
  BY <1>2, SequenceIsFunction
<1> QED
  BY <1>2, <1>3, <1>4, <1>5

LEMMA LastReport ==
  ASSUME Sequences, NEW answer
  PROVE  /\ Len(Append(hq, answer)) = Len(hq) + 1
         /\ DOMAIN Append(hq, answer) = 1..(Len(hq) + 1)
         /\ Append(hq, answer) = [i \in 1..(Len(hq) + 1) |-> Append(hq, answer)[i]]
         /\ \A i \in 1..Len(hq) : Append(hq, answer)[i] = hq[i] /\ i \in DOMAIN hq
         /\ Append(hq, answer)[Len(hq) + 1] = answer
<1>1. PICK S : hq \in Seq(S)
  BY ReportsAreASequence
<1> DEFINE T == S \cup {answer}
<1>2. hq \in Seq(T) /\ answer \in T
  BY <1>1
<1> HIDE DEF T
<1>3. /\ Append(hq, answer) \in Seq(T) /\ Len(Append(hq, answer)) = Len(hq) + 1
      /\ \A i \in 1..Len(hq) : Append(hq, answer)[i] = hq[i]
      /\ Append(hq, answer)[Len(hq) + 1] = answer
  BY <1>2, AppendProperties
<1>4. DOMAIN hq = 1..Len(hq) /\ Len(hq) \in Nat
  BY <1>2
<1>5. /\ DOMAIN Append(hq, answer) = 1..(Len(hq) + 1)
      /\ Append(hq, answer) = [i \in 1..(Len(hq) + 1) |-> Append(hq, answer)[i]]
  BY <1>3, SequenceIsFunction
<1> QED
  BY <1>3, <1>4, <1>5

-----------------------------------------------------------------------------
(* The device.                                                              *)

\* What a step of the device may do to replies and requests: a verdict comes
\* into the endpoint when it is empty, from a verify request, and is true; a
\* request that stays gets no further back; and nothing starts to change the
\* area but a request that does.
DeviceKeeps ==
  /\ flash' = [i \in Index |-> flash'[i]]
  /\ \A a \in inEp' : Vouches(a) =>
       \/ a \in inEp
       \/ /\ inEp = {} /\ \E pkt \in outEp : pkt.op = "verify"
          /\ flash' = Buffer(prog) /\ Quiet'
  /\ \A pkt \in outEp' : pkt \in outEp /\ InReplies' + Due' <= InReplies + Due
  /\ Quiet => Quiet' /\ UNCHANGED flash

\* A reply that is not a verdict.
LEMMA ReplyKeeps ==
  ASSUME NEW answer, Reply(answer), ~Vouches(answer)
  PROVE  \A a \in inEp' : Vouches(a) => a \in inEp
BY DEF Reply

LEMMA InterruptKeeps ==
  ASSUME Sequences, NEW pkt \in outEp, NEW answer, JustReply(pkt, answer),
         phase \in {"bootloader", "firmware"},
         Vouches(answer) => pkt.op = "verify" /\ flash = Buffer(prog)
  PROVE  DeviceKeeps
<1>1. outEp' = {} /\ UNCHANGED <<phase, flash>> /\ Reply(answer)
  BY DEF JustReply, TakeRequest, chipVars
<1>2. Quiet'
  BY <1>1 DEF Quiet
<1>3. \A a \in inEp' : a \in inEp \/ (a = answer /\ inEp = {})
  BY <1>1 DEF Reply
<1> QED
  BY <1>1, <1>2, <1>3 DEF DeviceKeeps, Sequences

LEMMA FinishKeeps ==
  ASSUME flash' = [i \in Index |-> flash'[i]], NEW ok, FinishHandler(Answer(ok, Zero)),
         phase \in {"erasing", "programming"}
  PROVE  DeviceKeeps
<1>1. phase' = "bootloader" /\ outEp' = outEp /\ Reply(Answer(ok, Zero))
  BY DEF FinishHandler
<1>2. ~Quiet
  BY DEF Quiet
<1>3. \A a \in inEp' : Vouches(a) => a \in inEp
  BY <1>1, ReplyKeeps, PlainAnswers
<1>4. InReplies' + Due' <= InReplies + Due
  BY <1>1 DEF InReplies, Due
<1> QED
  BY <1>1, <1>2, <1>3, <1>4 DEF DeviceKeeps

LEMMA RequestKeeps ==
  ASSUME Sequences, BootloaderRequest
  PROVE  DeviceKeeps
<1>1. PICK pkt \in outEp :
        \/ HandleInfo(pkt) \/ HandleErase(pkt) \/ HandleFlash(pkt) \/ HandleVerify(pkt)
        \/ HandleBootloader(pkt) \/ HandleReset(pkt) \/ HandleDebug(pkt)
        \/ HandleUnknown(pkt)
  BY DEF BootloaderRequest
<1>2. phase = "bootloader"
  BY DEF BootloaderRequest
<1>3. CASE HandleInfo(pkt) \/ HandleDebug(pkt) \/ HandleBootloader(pkt) \/ HandleUnknown(pkt)
  BY <1>2, <1>3, PlainAnswers, InterruptKeeps
     DEF HandleInfo, HandleDebug, HandleBootloader, HandleUnknown
<1>4. CASE HandleVerify(pkt)
  <2>1. CASE JustReply(pkt, Answer(FALSE, Zero))
    BY <1>2, <2>1, PlainAnswers, InterruptKeeps
  <2>2. CASE JustReply(pkt, Answer(TRUE, CrcOf(flash, pkt.arg)))
    <3> DEFINE answer == Answer(TRUE, CrcOf(flash, pkt.arg))
    <3>1. JustReply(pkt, answer) /\ pkt.op = "verify"
      BY <1>4, <2>2 DEF HandleVerify
    <3>2. Vouches(answer) => flash = Buffer(prog)
      BY VerdictMeansStored DEF Sequences
    <3> QED
      BY <1>2, <3>1, <3>2, InterruptKeeps
  <2>3. CASE TakeRequest(pkt) /\ phase' = "fault" /\ UNCHANGED <<usb, inEp, flash>>
    BY <1>2, <2>3 DEF TakeRequest, DeviceKeeps, Sequences, Quiet, InReplies, Due
  <2> QED
    BY <1>4, <2>1, <2>2, <2>3 DEF HandleVerify
<1>5. CASE HandleReset(pkt)
  <2>1. outEp' = {} /\ phase' = "resetting" /\ flash' = flash /\ Reply(Answer(TRUE, Zero))
    BY <1>5 DEF HandleReset, TakeRequest
  <2>2. \A a \in inEp' : Vouches(a) => a \in inEp
    BY <2>1, ReplyKeeps, PlainAnswers
  <2> QED
    BY <2>1, <2>2 DEF DeviceKeeps, Sequences, Quiet
<1>6. CASE HandleErase(pkt)
  BY <1>6 DEF HandleErase, TakeRequest, DeviceKeeps, Sequences, Quiet
<1>7. CASE HandleFlash(pkt)
  <2>1. CASE Len(pkt.words) > PacketWords
    BY <1>2, <1>7, <2>1, PlainAnswers, InterruptKeeps DEF HandleFlash
  <2>2. CASE ~(Len(pkt.words) > PacketWords)
    BY <1>7, <2>2 DEF HandleFlash, TakeRequest, DeviceKeeps, Sequences, Quiet
  <2> QED
    BY <2>1, <2>2
<1> QED
  BY <1>1, <1>3, <1>4, <1>5, <1>6, <1>7

LEMMA LoopKeeps ==
  ASSUME Sequences, ErasePageStep \/ EraseDone \/ ProgramWordStep \/ ProgramDone
  PROVE  DeviceKeeps
<1>1. phase \in {"erasing", "programming"} /\ ~Quiet
  BY DEF ErasePageStep, EraseDone, ProgramWordStep, ProgramDone, Quiet
<1>2. ASSUME UNCHANGED <<phase, outEp, inEp>>, flash' = [i \in Index |-> flash'[i]]
      PROVE  DeviceKeeps
  <2>1. InReplies' = InReplies /\ Due' = Due /\ InReplies \in Nat /\ Due \in Nat
    BY <1>2 DEF InReplies, Due
  <2> QED
    BY <1>1, <1>2, <2>1 DEF DeviceKeeps
<1>3. CASE ErasePageStep
  <2>1. flash' \in {ErasePage(flash, cur), flash} /\ UNCHANGED <<phase, outEp, inEp>>
    BY <1>3 DEF ErasePageStep, pipeVars
  <2>2. flash' = [i \in Index |-> flash'[i]]
    BY <2>1 DEF Sequences, ErasePage
  <2> QED
    BY <1>2, <2>1, <2>2
<1>4. CASE EraseDone \/ ProgramDone
  BY <1>1, <1>4, FinishKeeps DEF EraseDone, ProgramDone, Sequences
<1>5. CASE ProgramWordStep
  <2>1. /\ flash' = flash \/ \E i, stored : flash' = [flash EXCEPT ![i] = stored]
        /\ \/ FinishHandler(Answer(FALSE, Zero))
           \/ phase' \in {phase, "fault", "damaged"} /\ UNCHANGED <<outEp, inEp>>
    BY <1>5, WordStepOutline
  <2>2. flash' = [i \in Index |-> flash'[i]]
    BY <2>1 DEF Sequences
  <2>3. CASE phase' \in {"fault", "damaged"} /\ UNCHANGED <<outEp, inEp>>
    <3>1. InReplies' = InReplies /\ InReplies \in Nat /\ Due' = 0 /\ Due = 1
      BY <1>1, <2>3 DEF InReplies, Due
    <3> QED
      BY <1>1, <2>2, <2>3, <3>1 DEF DeviceKeeps
  <2> QED
    BY <1>1, <1>2, <2>1, <2>2, <2>3, FinishKeeps
<1> QED
  BY <1>3, <1>4, <1>5

LEMMA DeviceStepKeeps ==
  ASSUME Sequences, DeviceStep
  PROVE  DeviceKeeps
<1>1. ASSUME outEp' = {}, inEp' = {}, UNCHANGED flash,
             phase' \in {phase, "boot"}
      PROVE  DeviceKeeps
  BY <1>1 DEF DeviceKeeps, Sequences, Quiet
<1>2. CASE Boot
  <2>1. /\ phase = "boot" /\ phase' \notin {"erasing", "programming"}
        /\ UNCHANGED <<flash, outEp, inEp>>
    <3>1. CASE BootHeldByButton \/ BootByFlag
      BY <3>1 DEF BootHeldByButton, BootByFlag, pipeVars
    <3>2. CASE BootByContents
      <4>1. PICK outcome \in FirmwareCheck(flash) :
              phase' = CASE outcome = "valid"   -> "firmware"
                         [] outcome = "invalid" -> "bootloader"
                         [] outcome = "fault"   -> "fault"
        BY <3>2 DEF BootByContents
      <4>2. outcome \in {"valid", "invalid", "fault"}
        BY DEF FirmwareCheck
      <4> QED
        BY <3>2, <4>1, <4>2 DEF BootByContents, pipeVars
    <3> QED
      BY <1>2, <3>1, <3>2 DEF Boot
  <2>2. InReplies' + Due' <= InReplies + Due
    BY <2>1 DEF InReplies, Due
  <2> QED
    BY <2>1, <2>2 DEF DeviceKeeps, Sequences, Quiet
<1>3. CASE FirmwareStep
  <2>1. PICK pkt \in outEp :
          \/ HandleReset(pkt)
          \/ pkt.op # "reset" /\ JustReply(pkt, FirmwareAnswer(pkt))
    BY <1>3 DEF FirmwareStep, FirmwareRequest
  <2>2. CASE HandleReset(pkt)
    <3>1. outEp' = {} /\ phase' = "resetting" /\ flash' = flash /\ Reply(Answer(TRUE, Zero))
      BY <2>2 DEF HandleReset, TakeRequest
    <3>2. \A a \in inEp' : Vouches(a) => a \in inEp
      BY <3>1, ReplyKeeps, PlainAnswers
    <3> QED
      BY <3>1, <3>2 DEF DeviceKeeps, Sequences, Quiet
  <2>3. CASE JustReply(pkt, FirmwareAnswer(pkt))
    <3>1. ~Vouches(FirmwareAnswer(pkt))
      BY PlainAnswers DEF FirmwareAnswer
    <3> QED
      BY <1>3, <2>3, <3>1, InterruptKeeps DEF FirmwareStep, FirmwareRequest
  <2> QED
    BY <2>1, <2>2, <2>3
<1>4. CASE BootloaderRequest
  BY <1>4, RequestKeeps
<1>5. CASE ErasePageStep \/ EraseDone \/ ProgramWordStep \/ ProgramDone
  BY <1>5, LoopKeeps
<1>6. CASE Enumerate
  BY <1>1, <1>6 DEF Enumerate, PipeUp, chipVars
<1>7. CASE SystemReset \/ PowerCycle \/ Rollover
  BY <1>1, <1>7 DEF SystemReset, PowerCycle, Rollover, Restart, PipeDown
<1>8. CASE BusReset
  BY <1>1, <1>8 DEF BusReset, PipeDown, chipVars
<1> QED
  BY <1>2, <1>3, <1>4, <1>5, <1>6, <1>7, <1>8 DEF DeviceStep, BootloaderStep

\* Places of replies, counted before and after a step.
LEMMA Places ==
  ASSUME NEW l \in Nat, NEW a \in Nat, NEW b \in Nat, NEW c \in Nat, NEW d \in Nat,
         NEW n \in Nat, l + a + b + 1 <= n, c + d <= a + b
  PROVE  l + 1 <= n /\ l + c + d + 1 <= n
OBVIOUS

LEMMA FewPlaces ==
  ASSUME NEW l, l = 0, NEW a \in {0, 1}, NEW b \in {0, 1}
  PROVE  l + a + b + 1 <= 3 /\ l + 1 <= 3
OBVIOUS

\* So no verdict gets further back, and what is installed stays.
LEMMA DeviceKeepsPlaces ==
  ASSUME DeviceKeeps, Sequences, UNCHANGED <<hq, prog>>, NEW n \in Nat, OldVerdictsWithin(n)
  PROVE  OldVerdictsWithin(n)'
<1>1. Len(hq) \in Nat /\ InReplies \in Nat /\ Due \in Nat /\ InReplies' \in Nat /\ Due' \in Nat
  BY DEF Sequences, InReplies, Due
<1>2. \A a \in inEp' : Vouches(a) => Len(hq) + 1 <= n
  <2> SUFFICES ASSUME NEW a \in inEp', Vouches(a) PROVE Len(hq) + 1 <= n
    OBVIOUS
  <2>1. CASE a \in inEp
    BY <2>1 DEF OldVerdictsWithin
  <2>2. ASSUME NEW pkt \in outEp, pkt.op = "verify" PROVE Len(hq) + 1 <= n
    <3>1. Len(hq) + InReplies + Due + 1 <= n
      BY <2>2 DEF OldVerdictsWithin
    <3> QED
      BY <1>1, <3>1
  <2> QED
    BY <2>1, <2>2 DEF DeviceKeeps
<1>3. \A pkt \in outEp' : pkt.op = "verify" => Len(hq) + InReplies' + Due' + 1 <= n
  <2> SUFFICES ASSUME NEW pkt \in outEp', pkt.op = "verify"
               PROVE  Len(hq) + InReplies' + Due' + 1 <= n
    OBVIOUS
  <2>1. Len(hq) + InReplies + Due + 1 <= n /\ InReplies' + Due' <= InReplies + Due
    BY DEF DeviceKeeps, OldVerdictsWithin
  <2> QED
    BY <1>1, <2>1, Places
<1> QED
  BY <1>2, <1>3 DEF OldVerdictsWithin, Vouches

LEMMA DeviceKeepsSuccess ==
  ASSUME SuccessInv, Device
  PROVE  SuccessInv'
<1>1. /\ DeviceStep /\ handle' = HandleAfter(usb')
      /\ UNCHANGED <<hpc, step, want, attempts, hq, prog, sent, report>>
  BY DEF Device
<1>2. DeviceKeeps
  BY <1>1, DeviceStepKeeps DEF SuccessInv
<1>3. Sequences'
  BY <1>1, <1>2 DEF SuccessInv, Sequences, DeviceKeeps
<1>4. handle' = "live" => handle = "live" /\ usb'
  BY <1>1 DEF HandleAfter
<1>5. Commanded'
  BY <1>1, <1>4 DEF SuccessInv, Commanded
<1>6. LateReplies'
  BY <1>1, <1>2, <1>4, DeviceKeepsPlaces DEF SuccessInv, LateReplies
<1>7. Installed => Installed'
  BY <1>1, <1>2 DEF Installed, DeviceKeeps, Holds
<1>8. VerdictIsTrue'
  <2> SUFFICES ASSUME step = "verify", hpc = "recv"
               PROVE  /\ \A i \in DOMAIN hq : Vouches(hq[i]) => Installed'
                      /\ \A a \in inEp' : Vouches(a) => Installed'
    BY <1>1 DEF VerdictIsTrue, Vouches
  <2>1. \A i \in DOMAIN hq : Vouches(hq[i]) => Installed'
    BY <1>7 DEF SuccessInv, VerdictIsTrue
  <2>2. FitsHostLimit(prog)
    BY DEF SuccessInv, Commanded
  <2>3. \A a \in inEp' : Vouches(a) => Installed'
    BY <1>1, <1>2, <1>7, <2>2 DEF SuccessInv, VerdictIsTrue, DeviceKeeps, Installed, Holds
  <2> QED
    BY <2>1, <2>3
<1>9. StaysInstalled'
  BY <1>1, <1>7 DEF SuccessInv, StaysInstalled
<1> QED
  BY <1>3, <1>5, <1>6, <1>8, <1>9 DEF SuccessInv

-----------------------------------------------------------------------------
(* The tool.                                                                *)

IsReports(q) == Len(q) \in Nat /\ q = [i \in 1..Len(q) |-> q[i]]

LEMMA NoReports == IsReports(<<>>)
BY DEF IsReports

\* Between its commands the tool has told the truth.
LEMMA IdleKeeps ==
  ASSUME IsReports(hq'), flash' = [i \in Index |-> flash'[i]],
         hpc' = "idle", step' \in Steps, handle' = "live" => usb',
         report' = "installed" => Installed'
  PROVE  SuccessInv'
BY DEF SuccessInv, Sequences, IsReports, Commanded, LateReplies, VerdictIsTrue,
       StaysInstalled, HostPoints

\* Nothing is at stake before the device is found.
LEMMA SearchKeeps ==
  ASSUME IsReports(hq'), flash' = [i \in Index |-> flash'[i]],
         hpc' \in {"connect", "sleep"}, step' \in {"ask", "modeReset"},
         handle' = "live" => usb', want' => FitsHostLimit(prog'), report' # "installed"
  PROVE  SuccessInv'
BY DEF SuccessInv, Sequences, IsReports, Commanded, LateReplies, VerdictIsTrue,
       StaysInstalled, HostPoints, Steps

\* When an exchange begins, the old verdicts must be near enough.
LEMMA SendKeeps ==
  ASSUME IsReports(hq'), flash' = [i \in Index |-> flash'[i]],
         hpc' = "send", step' \in Steps,
         handle' = "live" => usb', want' => FitsHostLimit(prog'), report' # "installed",
         step' \in {"erase", "flash", "verify", "reset"} => want',
         handle' = "live" =>
           /\ step' = "ask" => OldVerdictsWithin(3)'
           /\ step' = "erase" => OldVerdictsWithin(2)'
           /\ step' = "flash" => OldVerdictsWithin(1)'
           /\ step' = "verify" => OldVerdictsWithin(0)',
         step' = "reset" => Installed'
  PROVE  SuccessInv'
BY DEF SuccessInv, Sequences, IsReports, Commanded, LateReplies, VerdictIsTrue,
       StaysInstalled, HostPoints

\* The tool keeps its hands off the device, and the file stays.
Hands == UNCHANGED chipVars /\ UNCHANGED pipeVars

LEMMA HandsKeepInstalled ==
  ASSUME Hands, UNCHANGED prog
  PROVE  Installed' = Installed
BY DEF Hands, chipVars, pipeVars, Installed, Quiet, Holds

\* A reply that is used up brings the ones behind it nearer.
LEMMA NearerByOne ==
  ASSUME Sequences, hq # <<>>, hq' = Tail(hq), Hands, UNCHANGED prog,
         NEW n \in Nat, OldVerdictsWithin(n + 1)
  PROVE  IsReports(hq') /\ OldVerdictsWithin(n)'
<1>1. /\ Len(hq) \in Nat /\ Len(hq') = Len(hq) - 1 /\ Len(hq) >= 1
      /\ DOMAIN hq' = 1..(Len(hq) - 1) /\ IsReports(hq')
      /\ \A i \in 1..(Len(hq) - 1) : hq'[i] = hq[i + 1] /\ i + 1 \in DOMAIN hq
  BY FirstReport DEF Sequences, IsReports
<1>2. /\ inEp' = inEp /\ outEp' = outEp /\ InReplies' = InReplies /\ Due' = Due
      /\ InReplies \in Nat /\ Due \in Nat
  BY DEF Hands, chipVars, pipeVars, InReplies, Due
<1>3. \A i \in DOMAIN hq' : Vouches(hq'[i]) => i <= n
  <2> SUFFICES ASSUME NEW i \in 1..(Len(hq) - 1), Vouches(hq'[i]) PROVE i <= n
    BY <1>1
  <2>1. i + 1 \in DOMAIN hq /\ Vouches(hq[i + 1])
    BY <1>1
  <2>2. i + 1 <= n + 1
    BY <2>1 DEF OldVerdictsWithin
  <2> QED
    BY <1>1, <2>2
<1>4. \A a \in inEp' : Vouches(a) => Len(hq') + 1 <= n
  BY <1>1, <1>2 DEF OldVerdictsWithin
<1>5. \A pkt \in outEp' : pkt.op = "verify" => Len(hq') + InReplies' + Due' + 1 <= n
  <2> SUFFICES ASSUME NEW pkt \in outEp, pkt.op = "verify"
               PROVE  Len(hq') + InReplies' + Due' + 1 <= n
    BY <1>2
  <2>1. Len(hq) + InReplies + Due + 1 <= n + 1
    BY DEF OldVerdictsWithin
  <2> QED
    BY <1>1, <1>2, <2>1
<1> QED
  BY <1>1, <1>3, <1>4, <1>5 DEF OldVerdictsWithin, Vouches

LEMMA NearerIsEnough ==
  ASSUME NEW n \in Nat, OldVerdictsWithin(n), Sequences
  PROVE  OldVerdictsWithin(n + 1)
<1>1. Len(hq) \in Nat /\ InReplies \in Nat /\ Due \in Nat /\ DOMAIN hq = 1..Len(hq)
  BY DEF Sequences, InReplies, Due
<1>2. \A i \in DOMAIN hq : Vouches(hq[i]) => i <= n + 1
  BY <1>1 DEF OldVerdictsWithin
<1>3. \A a \in inEp : Vouches(a) => Len(hq) + 1 <= n + 1
  BY <1>1 DEF OldVerdictsWithin
<1>4. \A pkt \in outEp : pkt.op = "verify" => Len(hq) + InReplies + Due + 1 <= n + 1
  <2> SUFFICES ASSUME NEW pkt \in outEp, pkt.op = "verify"
               PROVE  Len(hq) + InReplies + Due + 1 <= n + 1
    OBVIOUS
  <2>1. Len(hq) + InReplies + Due + 1 <= n
    BY DEF OldVerdictsWithin
  <2> QED
    BY <1>1, <2>1
<1> QED
  BY <1>2, <1>3, <1>4 DEF OldVerdictsWithin

LEMMA ExitKeeps ==
  ASSUME SuccessInv, Hands, NEW result, Exit(result), result = "installed" => Installed
  PROVE  SuccessInv'
<1>1. Installed' = Installed
  BY HandsKeepInstalled DEF Exit
<1>2. flash' = [i \in Index |-> flash'[i]]
  BY DEF SuccessInv, Sequences, Hands, chipVars
<1>3. IsReports(hq')
  BY NoReports DEF Exit
<1> QED
  BY <1>1, <1>2, <1>3, IdleKeeps DEF Exit, SuccessInv, Commanded

\* A failed exchange leads back to the search or ends the command.
LEMMA FailureKeeps ==
  ASSUME SuccessInv, Hands, hpc # "idle", NEW q, IsReports(q),
         \/ ExchangeFailed(q)
         \/ RetryOrGiveUp(q) /\ step \in {"ask", "modeReset"}
         \/ CloseAndSleep /\ step = "modeReset"
  PROVE  SuccessInv'
<1>1. flash' = [i \in Index |-> flash'[i]] /\ usb' = usb
  BY DEF SuccessInv, Sequences, Hands, chipVars, pipeVars
<1>2. report # "installed" /\ (handle = "live" => usb) /\ (want => FitsHostLimit(prog))
  BY DEF SuccessInv, StaysInstalled, Commanded
<1>3. CASE Exit("failed")
  BY <1>3, ExitKeeps
<1>4. CASE RetryOrGiveUp(q) /\ step \in {"ask", "modeReset"}
  <2>1. CASE attempts = 1
    BY <1>3, <1>4, <2>1 DEF RetryOrGiveUp
  <2>2. CASE attempts # 1
    <3>1. hpc' = "sleep" /\ hq' = q /\ UNCHANGED <<step, want, handle, prog, sent, report>>
      BY <1>4, <2>2 DEF RetryOrGiveUp
    <3> QED
      BY <1>1, <1>2, <1>4, <3>1, SearchKeeps
  <2> QED
    BY <2>1, <2>2
<1>5. CASE CloseAndSleep /\ step = "modeReset"
  <2>1. IsReports(hq')
    BY <1>5, NoReports DEF CloseAndSleep
  <2> QED
    BY <1>1, <1>2, <1>5, <2>1, SearchKeeps DEF CloseAndSleep
<1>6. CASE ExchangeFailed(q)
  <2>1. CASE step = "ask"
    BY <1>4, <1>6, <2>1 DEF ExchangeFailed
  <2>2. CASE step = "modeReset"
    BY <1>5, <1>6, <2>2 DEF ExchangeFailed
  <2>3. CASE step \notin {"ask", "modeReset"}
    BY <1>3, <1>6, <2>3 DEF ExchangeFailed
  <2> QED
    BY <2>1, <2>2, <2>3
<1> QED
  BY <1>4, <1>5, <1>6

\* A reply of RESPONSE_OK: one less between the tool and the old verdicts.
LEMMA ReplyOkKeeps ==
  ASSUME SuccessInv, Hands, hpc = "recv", hq # <<>>, Head(hq).ok,
         ReplyOk(Head(hq).data, Tail(hq))
  PROVE  SuccessInv'
<1>1. flash' = [i \in Index |-> flash'[i]] /\ usb' = usb
  BY DEF SuccessInv, Sequences, Hands, chipVars, pipeVars
<1>2. report # "installed" /\ (handle = "live" => usb) /\ (want => FitsHostLimit(prog))
  BY DEF SuccessInv, StaysInstalled, Commanded
<1>3. Sequences /\ IsReports(Tail(hq)) /\ step \in Steps
  BY FirstReport DEF SuccessInv, Sequences, IsReports, Commanded
<1> DEFINE Goes(exchange) ==
             /\ hpc' = "send" /\ step' = exchange /\ hq' = Tail(hq)
             /\ UNCHANGED <<want, handle, prog, report>>
<1>4. ASSUME NEW exchange, Begin(exchange, Tail(hq)) PROVE Goes(exchange)
  BY <1>4 DEF Begin
<1>5. CASE step = "ask"
  <2>1. PICK b : ModeKnown(b, Tail(hq))
    BY <1>5 DEF ReplyOk
  <2>2. OldVerdictsWithin(2 + 1)
    BY <1>5 DEF SuccessInv, LateReplies
  <2>3. CASE b = want /\ want
    <3>1. Goes("erase")
      BY <1>4, <2>1, <2>3 DEF ModeKnown
    <3>2. OldVerdictsWithin(2)'
      BY <1>3, <2>2, <3>1, NearerByOne
    <3> QED
      BY <1>1, <1>2, <1>3, <2>3, <3>1, <3>2, SendKeeps DEF Steps
  <2>4. CASE b = want /\ ~want
    <3>1. Goes("debug")
      BY <1>4, <2>1, <2>4 DEF ModeKnown
    <3> QED
      BY <1>1, <1>2, <1>3, <3>1, SendKeeps DEF Steps
  <2>5. CASE b # want /\ attempts = 1
    BY <2>1, <2>5, ExitKeeps DEF ModeKnown
  <2>6. CASE b # want /\ attempts # 1
    <3>1. Goes("modeReset")
      BY <2>1, <2>6 DEF ModeKnown
    <3> QED
      BY <1>1, <1>2, <1>3, <3>1, SendKeeps DEF Steps
  <2> QED
    BY <2>3, <2>4, <2>5, <2>6
<1>6. CASE step = "modeReset"
  BY <1>3, <1>6, FailureKeeps DEF ReplyOk
<1>7. CASE step = "erase"
  <2>1. OldVerdictsWithin(1 + 1) /\ want
    BY <1>7 DEF SuccessInv, LateReplies, Commanded
  <2>2. Goes("flash")
    BY <1>4, <1>7 DEF ReplyOk
  <2>3. OldVerdictsWithin(1)'
    BY <1>3, <2>1, <2>2, NearerByOne
  <2> QED
    BY <1>1, <1>2, <1>3, <2>1, <2>2, <2>3, SendKeeps DEF Steps
<1>8. CASE step = "flash"
  <2>1. OldVerdictsWithin(0 + 1) /\ want
    BY <1>8 DEF SuccessInv, LateReplies, Commanded
  <2>2. Goes("flash") \/ Goes("verify")
    BY <1>4, <1>8 DEF ReplyOk
  <2>3. OldVerdictsWithin(0)' /\ Sequences'
    BY <1>1, <1>3, <2>1, <2>2, NearerByOne DEF Sequences, IsReports
  <2>4. OldVerdictsWithin(1)'
    <3>1. OldVerdictsWithin(1)
      BY <2>1
    <3>2. OldVerdictsWithin(1 + 1)
      BY <1>3, <3>1, NearerIsEnough
    <3> QED
      BY <1>3, <2>2, <3>2, NearerByOne
  <2> QED
    BY <1>1, <1>2, <1>3, <2>1, <2>2, <2>3, <2>4, SendKeeps DEF Steps
<1>9. CASE step = "verify"
  <2>1. CASE Head(hq).data = CrcOf(Buffer(prog), ProgramWords)
    <3>1. Goes("reset") /\ want
      BY <1>4, <1>9, <2>1 DEF ReplyOk, SuccessInv, Commanded
    <3>2. Vouches(hq[1]) /\ 1 \in DOMAIN hq
      BY <1>3, <2>1, FirstReport DEF Vouches
    <3>3. Installed /\ Installed' = Installed
      BY <1>9, <3>1, <3>2, HandsKeepInstalled DEF SuccessInv, VerdictIsTrue
    <3> QED
      BY <1>1, <1>2, <1>3, <3>1, <3>3, SendKeeps DEF Steps
  <2>2. CASE Head(hq).data # CrcOf(Buffer(prog), ProgramWords)
    BY <1>9, <2>2, ExitKeeps DEF ReplyOk
  <2> QED
    BY <2>1, <2>2
<1>10. CASE step = "reset"
  BY <1>10, ExitKeeps DEF ReplyOk, SuccessInv, StaysInstalled
<1>11. CASE step = "debug"
  BY <1>11, ExitKeeps DEF ReplyOk
<1> QED
  BY <1>3, <1>5, <1>6, <1>7, <1>8, <1>9, <1>10, <1>11 DEF Steps

LEMMA ReceiveKeeps ==
  ASSUME SuccessInv, Hands, ReceiveReply \/ ReceiveFails
  PROVE  SuccessInv'
<1>1. CASE ReceiveFails
  <2>1. hpc # "idle" /\ ExchangeFailed(hq) /\ IsReports(hq)
    BY <1>1 DEF ReceiveFails, SuccessInv, Sequences, IsReports
  <2> QED
    BY <2>1, FailureKeeps
<1>2. CASE ReceiveReply
  <2>1. hpc = "recv" /\ hq # <<>> /\ Sequences
    BY <1>2 DEF ReceiveReply, SuccessInv
  <2>2. IsReports(Tail(hq))
    BY <2>1, FirstReport DEF IsReports, Sequences
  <2>3. CASE Head(hq).ok
    BY <1>2, <2>1, <2>3, ReplyOkKeeps DEF ReceiveReply
  <2>4. CASE ~Head(hq).ok
    BY <1>2, <2>1, <2>2, <2>4, FailureKeeps DEF ReceiveReply
  <2> QED
    BY <2>3, <2>4
<1> QED
  BY <1>1, <1>2

\* The request for the CRC is sent when no old verdict can be left.
LEMMA SendRequestKeeps ==
  ASSUME SuccessInv, UNCHANGED chipVars, SendRequest
  PROVE  SuccessInv'
<1>1. /\ hpc = "send" /\ handle = "live" /\ outEp = {} /\ outEp' = {Request}
      /\ hpc' = "recv"
      /\ UNCHANGED <<usb, inEp, step, want, attempts, handle, hq, prog, report>>
      /\ UNCHANGED <<phase, flash>>
  BY DEF SendRequest, chipVars
<1>2. step \in Steps /\ report # "installed"
  BY <1>1 DEF SuccessInv, Commanded, StaysInstalled
<1>3. /\ Request.op = "verify" => step = "verify"
      /\ step = "reset" => Request.op \notin {"erase", "flash"}
  BY <1>2 DEF Request, Steps, Packet
<1>4. Sequences' /\ Commanded'
  BY <1>1 DEF SuccessInv, Sequences, Commanded, HostPoints
<1>5. LateReplies'
  <2>1. ASSUME NEW n \in Nat, OldVerdictsWithin(n), step # "verify"
        PROVE  OldVerdictsWithin(n)'
    BY <1>1, <1>3, <2>1 DEF OldVerdictsWithin, Vouches
  <2> QED
    BY <1>1, <2>1 DEF SuccessInv, LateReplies
<1>6. VerdictIsTrue'
  <2> SUFFICES ASSUME step = "verify"
               PROVE  /\ \A i \in DOMAIN hq : ~Vouches(hq[i])
                      /\ \A a \in inEp : ~Vouches(a)
    BY <1>1 DEF VerdictIsTrue, Vouches
  <2>1. OldVerdictsWithin(0)
    BY <1>1 DEF SuccessInv, LateReplies
  <2>2. Len(hq) \in Nat /\ DOMAIN hq = 1..Len(hq)
    BY DEF SuccessInv, Sequences
  <2> QED
    BY <2>1, <2>2 DEF OldVerdictsWithin
<1>7. StaysInstalled'
  <2>1. step = "reset" => Installed'
    BY <1>1, <1>3 DEF SuccessInv, StaysInstalled, Installed, Quiet, Holds
  <2> QED
    BY <1>1, <1>2, <2>1 DEF StaysInstalled
<1> QED
  BY <1>4, <1>5, <1>6, <1>7 DEF SuccessInv

\* The operating system moves a reply nearer, or drops one.
LEMMA OperatingSystemKeeps ==
  ASSUME SuccessInv, UNCHANGED chipVars, CollectReport \/ DropReport
  PROVE  SuccessInv'
<1>1. /\ inEp # {} /\ inEp' = {}
      /\ UNCHANGED <<usb, outEp, hpc, step, want, attempts, handle, prog, sent, report>>
      /\ UNCHANGED <<phase, flash>>
      /\ hq' = hq \/ \E answer \in inEp : hq' = Append(hq, answer)
  BY DEF CollectReport, DropReport, chipVars, hostVars
<1>2. Installed' = Installed
  BY <1>1 DEF Installed, Quiet, Holds
<1>3. /\ Len(hq) \in Nat /\ InReplies = 1 /\ InReplies' = 0
      /\ Due \in Nat /\ Due' = Due /\ Sequences /\ DOMAIN hq = 1..Len(hq)
  BY <1>1 DEF SuccessInv, Sequences, InReplies, Due
<1>4. CASE hq' = hq
  <2>1. ASSUME NEW n \in Nat, OldVerdictsWithin(n) PROVE OldVerdictsWithin(n)'
    <3>1. \A pkt \in outEp' : pkt.op = "verify" => Len(hq') + InReplies' + Due' + 1 <= n
      <4> SUFFICES ASSUME NEW pkt \in outEp, pkt.op = "verify"
                   PROVE  Len(hq') + InReplies' + Due' + 1 <= n
        BY <1>1
      <4>1. Len(hq) + InReplies + Due + 1 <= n
        BY <2>1 DEF OldVerdictsWithin
      <4> QED
        BY <1>3, <1>4, <4>1, Places
    <3> QED
      BY <1>1, <1>4, <2>1, <3>1 DEF OldVerdictsWithin, Vouches
  <2>2. Sequences' /\ Commanded' /\ VerdictIsTrue' /\ StaysInstalled'
    BY <1>1, <1>2, <1>4
       DEF SuccessInv, Sequences, Commanded, VerdictIsTrue, StaysInstalled, Vouches
  <2>3. LateReplies'
    BY <1>1, <2>1 DEF SuccessInv, LateReplies
  <2> QED
    BY <2>2, <2>3 DEF SuccessInv
<1>5. ASSUME NEW answer \in inEp, hq' = Append(hq, answer) PROVE SuccessInv'
  <2>1. /\ Len(hq') = Len(hq) + 1 /\ DOMAIN hq' = 1..(Len(hq) + 1)
        /\ IsReports(hq')
        /\ \A i \in 1..Len(hq) : hq'[i] = hq[i] /\ i \in DOMAIN hq
        /\ hq'[Len(hq) + 1] = answer
    BY <1>3, <1>5, LastReport DEF IsReports
  <2>2. ASSUME NEW n \in Nat, OldVerdictsWithin(n) PROVE OldVerdictsWithin(n)'
    <3>1. \A i \in DOMAIN hq' : Vouches(hq'[i]) => i <= n
      <4> SUFFICES ASSUME NEW i \in 1..(Len(hq) + 1), Vouches(hq'[i]) PROVE i <= n
        BY <2>1
      <4>1. CASE i \in 1..Len(hq)
        BY <2>1, <2>2, <4>1 DEF OldVerdictsWithin
      <4>2. CASE i = Len(hq) + 1
        BY <2>1, <2>2, <4>2 DEF OldVerdictsWithin
      <4> QED
        BY <1>3, <4>1, <4>2
    <3>2. \A pkt \in outEp' : pkt.op = "verify" => Len(hq') + InReplies' + Due' + 1 <= n
      <4> SUFFICES ASSUME NEW pkt \in outEp, pkt.op = "verify"
                   PROVE  Len(hq') + InReplies' + Due' + 1 <= n
        BY <1>1
      <4>1. Len(hq) + InReplies + Due + 1 <= n
        BY <2>2 DEF OldVerdictsWithin
      <4> QED
        BY <1>3, <2>1, <4>1
    <3> QED
      BY <1>1, <3>1, <3>2 DEF OldVerdictsWithin, Vouches
  <2>3. VerdictIsTrue'
    <3> SUFFICES ASSUME step = "verify", hpc = "recv", NEW i \in 1..(Len(hq) + 1),
                        Vouches(hq'[i])
                 PROVE  Installed
      BY <1>1, <1>2, <2>1 DEF VerdictIsTrue, Vouches
    <3>1. CASE i \in 1..Len(hq)
      BY <2>1, <3>1 DEF SuccessInv, VerdictIsTrue
    <3>2. CASE i = Len(hq) + 1
      BY <2>1, <3>2 DEF SuccessInv, VerdictIsTrue
    <3> QED
      BY <1>3, <3>1, <3>2
  <2>4. Sequences'
    BY <1>1, <1>3, <2>1 DEF Sequences, IsReports
  <2>5. Commanded' /\ StaysInstalled'
    BY <1>1, <1>2 DEF SuccessInv, Commanded, StaysInstalled
  <2>6. LateReplies'
    BY <1>1, <2>2 DEF SuccessInv, LateReplies
  <2> QED
    BY <2>3, <2>4, <2>5, <2>6 DEF SuccessInv
<1> QED
  BY <1>1, <1>4, <1>5

\* When it has connected, three replies may come from exchanges before that.
LEMMA ConnectKeeps ==
  ASSUME SuccessInv, Hands, ConnectOpens \/ ConnectFindsNothing \/ WakeUp(Settled)
  PROVE  SuccessInv'
<1>1. /\ flash' = [i \in Index |-> flash'[i]] /\ usb' = usb
      /\ IsReports(hq) /\ (handle = "live" => usb)
  BY DEF SuccessInv, Sequences, Commanded, IsReports, Hands, chipVars, pipeVars
<1>2. /\ hpc \in {"connect", "sleep"} /\ hpc # "idle" /\ step \in {"ask", "modeReset"}
      /\ report # "installed" /\ (want => FitsHostLimit(prog))
  BY DEF ConnectOpens, ConnectFindsNothing, WakeUp, SuccessInv, StaysInstalled, Commanded
<1>3. CASE ConnectOpens
  <2>1. /\ hpc' = "send" /\ step' = "ask" /\ handle' = "live" /\ hq' = <<>> /\ usb
        /\ UNCHANGED <<want, attempts, prog, sent, report>>
    BY <1>3 DEF ConnectOpens
  <2>2. OldVerdictsWithin(3)'
    <3>1. Len(hq') = 0 /\ (\A i \in DOMAIN hq' : FALSE)
      BY <2>1
    <3>2. InReplies' \in {0, 1} /\ Due' \in {0, 1}
      BY DEF InReplies, Due
    <3>3. Len(hq') + InReplies' + Due' + 1 <= 3 /\ Len(hq') + 1 <= 3
      BY <3>1, <3>2, FewPlaces
    <3> QED
      BY <3>1, <3>3 DEF OldVerdictsWithin
  <2>3. IsReports(hq')
    BY <2>1, NoReports
  <2> QED
    BY <1>1, <1>2, <2>1, <2>2, <2>3, SendKeeps DEF Steps
<1>4. CASE ConnectFindsNothing
  <2>1. CASE handle = "null"
    BY <1>1, <1>2, <1>4, <2>1, FailureKeeps DEF ConnectFindsNothing
  <2>2. CASE handle # "null"
    <3>1. /\ hpc' = "send" /\ step' = "ask" /\ hq' = hq /\ ~usb
          /\ UNCHANGED <<want, attempts, handle, prog, sent, report>>
      BY <1>4, <2>2 DEF ConnectFindsNothing, Begin
    <3> QED
      BY <1>1, <1>2, <3>1, SendKeeps DEF Steps
  <2> QED
    BY <2>1, <2>2
<1>5. CASE WakeUp(Settled)
  <2>1. hpc' = "connect" /\ UNCHANGED <<step, want, handle, hq, prog, report>>
    BY <1>5 DEF WakeUp
  <2> QED
    BY <1>1, <1>2, <2>1, SearchKeeps
<1> QED
  BY <1>3, <1>4, <1>5

LEMMA CommandKeeps ==
  ASSUME SuccessInv, UNCHANGED chipVars, HostCommand
  PROVE  SuccessInv'
<1>1. /\ flash' = [i \in Index |-> flash'[i]] /\ IsReports(hq)
      /\ (handle = "live" => usb) /\ step \in Steps
  BY DEF SuccessInv, Sequences, Commanded, IsReports, chipVars
<1>2. CASE StartDebug
  <2>1. /\ hpc' = "connect" /\ step' = "ask" /\ want' = FALSE /\ report' = "none"
        /\ UNCHANGED <<handle, hq, usb>>
    BY <1>2 DEF StartDebug, EnterMode, pipeVars
  <2> QED
    BY <1>1, <2>1, SearchKeeps
<1>3. ASSUME NEW p \in Programs, StartFlash(p) PROVE SuccessInv'
  <2>1. CASE FitsHostLimit(p) /\ EnterMode(TRUE)
    <3>1. /\ hpc' = "connect" /\ step' = "ask" /\ want' = TRUE /\ report' = "none"
          /\ prog' = p /\ UNCHANGED <<handle, hq, usb>>
      BY <1>3, <2>1 DEF StartFlash, EnterMode, pipeVars
    <3> QED
      BY <1>1, <2>1, <3>1, SearchKeeps DEF FitsHostLimit
  <2>2. CASE report' = "refused" /\ UNCHANGED <<hpc, step, want, attempts, handle, hq>>
    <3>1. hpc' = "idle" /\ usb' = usb
      BY <1>3, <2>2 DEF StartFlash, pipeVars
    <3> QED
      BY <1>1, <2>2, <3>1, IdleKeeps
  <2> QED
    BY <1>3, <2>1, <2>2 DEF StartFlash
<1> QED
  BY <1>2, <1>3 DEF HostCommand

LEMMA HostKeepsSuccess ==
  ASSUME SuccessInv, Host
  PROVE  SuccessInv'
<1>1. HostStep(Settled) /\ UNCHANGED chipVars
  BY DEF Host
<1>2. CASE HostCommand
  BY <1>1, <1>2, CommandKeeps
<1>3. CASE SendRequest
  BY <1>1, <1>3, SendRequestKeeps
<1>4. CASE CollectReport \/ DropReport
  BY <1>1, <1>4, OperatingSystemKeeps
<1>5. CASE ConnectOpens \/ ConnectFindsNothing \/ WakeUp(Settled)
  <2>1. UNCHANGED pipeVars
    BY <1>5 DEF ConnectOpens, ConnectFindsNothing, WakeUp, pipeVars
  <2> QED
    BY <1>1, <1>5, <2>1, ConnectKeeps DEF Hands
<1>6. CASE ReceiveReply \/ ReceiveFails
  BY <1>1, <1>6, ReceiveKeeps DEF ReceiveReply, ReceiveFails, Hands
<1>7. CASE SendFails
  <2>1. hpc # "idle" /\ ExchangeFailed(hq) /\ IsReports(hq) /\ Hands
    BY <1>1, <1>7 DEF SendFails, SuccessInv, Sequences, IsReports, Hands
  <2> QED
    BY <2>1, FailureKeeps
<1>8. CASE UseAfterClose \/ Kill
  BY <1>1, <1>8, ExitKeeps DEF UseAfterClose, Kill, Hands
<1> QED
  BY <1>1, <1>2, <1>3, <1>4, <1>5, <1>6, <1>7, <1>8 DEF HostStep, HostProgress

-----------------------------------------------------------------------------

LEMMA InitialContents ==
  ASSUME Init
  PROVE  flash = [i \in Index |-> flash[i]]
<1>1. PICK c \in Contents : flash = c
  BY DEF Init, ChipInit
<1>2. CASE c = [i \in Index |-> Erased]
  BY <1>1, <1>2
<1>3. CASE \E p \in Programs : Holds(c, p)
  BY <1>1, <1>3 DEF Holds, Buffer
<1> QED
  BY <1>2, <1>3, UpdateAssumption

LEMMA InitSuccess ==
  ASSUME Init
  PROVE  SuccessInv
<1>1. /\ hpc = "idle" /\ step = "ask" /\ handle = "null" /\ hq = <<>> /\ report = "none"
  BY DEF Init, HostInit
<1>2. Sequences
  BY <1>1, InitialContents, NoReports DEF Sequences, IsReports
<1> QED
  BY <1>1, <1>2 DEF SuccessInv, Commanded, LateReplies, VerdictIsTrue, StaysInstalled,
                    HostPoints, Steps

LEMMA StutterSuccess ==
  ASSUME SuccessInv, UNCHANGED vars
  PROVE  SuccessInv'
<1>1. /\ UNCHANGED <<phase, flash, usb, outEp, inEp>>
      /\ UNCHANGED <<hpc, step, want, attempts, handle, hq, prog, sent, report>>
  BY DEF vars, deviceVars, chipVars, pipeVars, hostVars
<1> QED
  BY <1>1 DEF SuccessInv, Sequences, Commanded, LateReplies, VerdictIsTrue, StaysInstalled,
              OldVerdictsWithin, Vouches, Installed, Quiet, InReplies, Due, Holds

-----------------------------------------------------------------------------

\* Old verdicts stay far enough away, and what the tool takes for the answer
\* to its verify request is the truth (send_receive, flash_program): the
\* inductive invariant.
THEOREM OldRepliesAreUsedUp == Spec => []SuccessInv
<1>1. Init => SuccessInv
  BY InitSuccess
<1>2. SuccessInv /\ [Next]_vars => SuccessInv'
  BY DeviceKeepsSuccess, HostKeepsSuccess, StutterSuccess DEF Next
<1> QED
  BY <1>1, <1>2, PTL DEF Spec

\* When the tool reports success, the area holds the file, even if replies to
\* earlier requests were taken for answers, cells are worn, or the power
\* failed in between (flash_program, send_receive).
THEOREM SuccessIsTrue == Spec => []SuccessMeansInstalled
<1>1. SuccessInv => SuccessMeansInstalled
  BY DEF SuccessInv, StaysInstalled, Installed, SuccessMeansInstalled
<1> QED
  BY <1>1, OldRepliesAreUsedUp, PTL

-----------------------------------------------------------------------------
(* The types of the whole update path, for every value of the constants.    *)
(* Two of them are bounds that something must keep: the attempts of         *)
(* enter_device_mode never run below zero, because the loop ends at one,    *)
(* and the position in the image never passes its end, because the last     *)
(* packet is cut short.                                                     *)

\* A command that goes on has an attempt left.
AttemptLeft == hpc # "idle" => attempts # 0

TypeInv == TypeOK /\ AttemptLeft

Ops == {"erase", "flash", "verify", "bootloader", "reset", "debug"}

-----------------------------------------------------------------------------

\* Types of what the pipe carries, and of the device alone.
PipeTypes ==
  /\ usb \in BOOLEAN
  /\ \A pkt \in outEp \cup req : pkt.op \in Ops
  /\ \A a \in inEp : a.ok \in BOOLEAN

LEMMA TypesApart == TypeOK <=> ChipTypeOK /\ HostTypeOK /\ PipeTypes /\ \A i \in DOMAIN hq : hq[i].ok \in BOOLEAN
BY DEF TypeOK, PipeTypes, Ops

LEMMA ReplyTypes ==
  ASSUME PipeTypes, NEW ok \in BOOLEAN, NEW data, Reply(Answer(ok, data))
  PROVE  \A a \in inEp' : a.ok \in BOOLEAN
BY DEF PipeTypes, Reply, Answer

LEMMA AnyReplyTypes ==
  ASSUME ChipTypeOK, PipeTypes, NEW pkt, NEW answer, answer.ok \in BOOLEAN,
         JustReply(pkt, answer)
  PROVE  ChipTypeOK' /\ PipeTypes'
<1>1. \A a \in inEp' : a.ok \in BOOLEAN
  BY DEF JustReply, Reply, PipeTypes
<1> QED
  BY <1>1 DEF JustReply, TakeRequest, ChipTypeOK, PipeTypes, chipVars

LEMMA JustReplyTypes ==
  ASSUME ChipTypeOK, PipeTypes, NEW pkt, NEW ok \in BOOLEAN, NEW data,
         JustReply(pkt, Answer(ok, data))
  PROVE  ChipTypeOK' /\ PipeTypes'
<1>1. Answer(ok, data).ok \in BOOLEAN
  BY DEF Answer
<1> QED
  BY <1>1, AnyReplyTypes

LEMMA HandleResetTypes ==
  ASSUME ChipTypeOK, PipeTypes, NEW pkt, HandleReset(pkt)
  PROVE  ChipTypeOK' /\ PipeTypes'
<1>1. \A a \in inEp' : a.ok \in BOOLEAN
  BY ReplyTypes DEF HandleReset
<1> QED
  BY <1>1 DEF HandleReset, TakeRequest, ChipTypeOK, PipeTypes, Phases

LEMMA FinishTypes ==
  ASSUME ChipTypeOK, PipeTypes, NEW ok \in BOOLEAN, NEW data,
         FinishHandler(Answer(ok, data)), DOMAIN flash' = Index
  PROVE  ChipTypeOK' /\ PipeTypes'
<1>1. \A a \in inEp' : a.ok \in BOOLEAN
  BY ReplyTypes DEF FinishHandler
<1> QED
  BY <1>1 DEF FinishHandler, ChipTypeOK, PipeTypes, Phases

LEMMA RequestTypes ==
  ASSUME ChipTypeOK, PipeTypes, BootloaderRequest
  PROVE  ChipTypeOK' /\ PipeTypes'
<1>1. PICK pkt \in outEp :
        \/ HandleInfo(pkt) \/ HandleErase(pkt) \/ HandleFlash(pkt) \/ HandleVerify(pkt)
        \/ HandleBootloader(pkt) \/ HandleReset(pkt) \/ HandleDebug(pkt)
        \/ HandleUnknown(pkt)
  BY DEF BootloaderRequest
<1>2. ASSUME NEW ok \in BOOLEAN, NEW data, JustReply(pkt, Answer(ok, data))
      PROVE  ChipTypeOK' /\ PipeTypes'
  BY <1>2, JustReplyTypes
<1>3. CASE HandleInfo(pkt) \/ HandleDebug(pkt) \/ HandleBootloader(pkt) \/ HandleUnknown(pkt)
  BY <1>2, <1>3 DEF HandleInfo, HandleDebug, HandleBootloader, HandleUnknown
<1>4. CASE HandleVerify(pkt)
  <2>1. CASE JustReply(pkt, Answer(FALSE, Zero))
    BY <1>2, <2>1
  <2>2. CASE JustReply(pkt, Answer(TRUE, CrcOf(flash, pkt.arg)))
    <3>1. PICK ok \in BOOLEAN : \E data : JustReply(pkt, Answer(ok, data))
      BY <2>2, Zenon
    <3> QED
      BY <1>2, <3>1
  <2>3. CASE /\ TakeRequest(pkt) /\ phase' = "fault"
             /\ UNCHANGED <<usb, inEp, flash, unlocked, bkp, dbp, req, cur>>
    BY <2>3 DEF TakeRequest, ChipTypeOK, PipeTypes, Phases
  <2> QED
    BY <1>4, <2>1, <2>2, <2>3 DEF HandleVerify
<1>5. CASE HandleReset(pkt)
  BY <1>5, HandleResetTypes
<1>6. CASE HandleErase(pkt)
  <2>1. /\ outEp' = {} /\ phase' = "erasing" /\ req' = {pkt} /\ cur' = 0 /\ unlocked' = TRUE
        /\ UNCHANGED <<usb, inEp, flash, bkp, dbp>>
    BY <1>6 DEF HandleErase, TakeRequest
  <2> QED
    BY <2>1 DEF ChipTypeOK, PipeTypes, Phases
<1>7. CASE HandleFlash(pkt)
  <2>1. CASE Len(pkt.words) > PacketWords
    BY <1>2, <1>7, <2>1 DEF HandleFlash
  <2>2. CASE ~(Len(pkt.words) > PacketWords)
    <3>1. /\ outEp' = {} /\ phase' = "programming" /\ req' = {pkt} /\ cur' = 0
          /\ UNCHANGED <<usb, inEp, flash, unlocked, bkp, dbp>>
      BY <1>7, <2>2 DEF HandleFlash, TakeRequest
    <3> QED
      BY <3>1 DEF ChipTypeOK, PipeTypes, Phases
  <2> QED
    BY <2>1, <2>2
<1> QED
  BY <1>1, <1>3, <1>4, <1>5, <1>6, <1>7

LEMMA LoopTypes ==
  ASSUME ChipTypeOK, PipeTypes, ErasePageStep \/ EraseDone \/ ProgramWordStep \/ ProgramDone
  PROVE  ChipTypeOK' /\ PipeTypes'
<1>1. CASE ErasePageStep
  <2>1. /\ flash' \in {ErasePage(flash, cur), flash} /\ cur' = cur + 1
        /\ UNCHANGED <<phase, unlocked, bkp, dbp, req, usb, outEp, inEp>>
    BY <1>1 DEF ErasePageStep, pipeVars
  <2>2. DOMAIN flash' = Index
    BY <2>1 DEF ErasePage, ChipTypeOK
  <2> QED
    BY <2>1, <2>2 DEF ChipTypeOK, PipeTypes
<1>2. CASE EraseDone \/ ProgramDone
  <2>1. \E ok \in BOOLEAN : FinishHandler(Answer(ok, Zero)) /\ UNCHANGED flash
    BY <1>2 DEF EraseDone, ProgramDone, Blank
  <2> QED
    BY <2>1, FinishTypes DEF ChipTypeOK
<1>3. CASE ProgramWordStep
  <2>1. DOMAIN flash' = Index
    BY <1>3, WordStepOutline DEF ChipTypeOK
  <2>2. CASE FinishHandler(Answer(FALSE, Zero))
    BY <2>1, <2>2, FinishTypes
  <2>3. CASE /\ phase' \in {phase, "fault", "damaged"} /\ cur' \in {cur, cur + 1}
             /\ UNCHANGED <<unlocked, bkp, dbp, req, usb, outEp, inEp>>
    BY <2>1, <2>3 DEF ChipTypeOK, PipeTypes, Phases
  <2> QED
    BY <1>3, <2>2, <2>3, WordStepOutline
<1> QED
  BY <1>1, <1>2, <1>3

LEMMA DeviceTypes ==
  ASSUME ChipTypeOK, PipeTypes, DeviceStep
  PROVE  ChipTypeOK' /\ PipeTypes'
<1>1. CASE Boot
  <2>1. CASE BootHeldByButton \/ BootByFlag
    BY <2>1 DEF BootHeldByButton, BootByFlag, pipeVars, ChipTypeOK, PipeTypes, Phases
  <2>2. CASE BootByContents
    <3>1. PICK outcome \in FirmwareCheck(flash) :
            phase' = CASE outcome = "valid"   -> "firmware"
                       [] outcome = "invalid" -> "bootloader"
                       [] outcome = "fault"   -> "fault"
      BY <2>2 DEF BootByContents
    <3>2. phase' \in Phases
      BY <3>1 DEF FirmwareCheck, Phases
    <3> QED
      BY <2>2, <3>2 DEF BootByContents, pipeVars, ChipTypeOK, PipeTypes
  <2> QED
    BY <1>1, <2>1, <2>2 DEF Boot
<1>2. CASE FirmwareStep
  <2>1. PICK pkt \in outEp :
          \/ HandleReset(pkt)
          \/ pkt.op # "reset" /\ JustReply(pkt, FirmwareAnswer(pkt))
    BY <1>2 DEF FirmwareStep, FirmwareRequest
  <2>2. \E ok \in BOOLEAN : \E data : FirmwareAnswer(pkt) = Answer(ok, data)
    BY DEF FirmwareAnswer
  <2> QED
    BY <2>1, <2>2, HandleResetTypes, JustReplyTypes
<1>3. CASE BootloaderRequest
  BY <1>3, RequestTypes
<1>4. CASE ErasePageStep \/ EraseDone \/ ProgramWordStep \/ ProgramDone
  BY <1>4, LoopTypes
<1>5. CASE Enumerate
  BY <1>5 DEF Enumerate, PipeUp, chipVars, ChipTypeOK, PipeTypes
<1>6. CASE SystemReset \/ PowerCycle \/ Rollover
  <2>1. Restart /\ bkp' \in {bkp, FALSE}
    BY <1>6 DEF SystemReset, PowerCycle, Rollover
  <2>2. bkp' \in BOOLEAN
    BY <2>1 DEF ChipTypeOK
  <2>3. /\ phase' = "boot" /\ unlocked' = FALSE /\ dbp' = FALSE /\ req' = {} /\ cur' = 0
        /\ usb' = FALSE /\ outEp' = {} /\ inEp' = {} /\ flash' = flash
    BY <2>1 DEF Restart, PipeDown
  <2> QED
    BY <2>2, <2>3 DEF ChipTypeOK, PipeTypes, Phases
<1>7. CASE BusReset
  BY <1>7 DEF BusReset, PipeDown, chipVars, ChipTypeOK, PipeTypes
<1> QED
  BY <1>1, <1>2, <1>3, <1>4, <1>5, <1>6, <1>7 DEF DeviceStep, BootloaderStep

-----------------------------------------------------------------------------
(* The tool.                                                                *)

ReportTypes == \A i \in DOMAIN hq : hq[i].ok \in BOOLEAN

\* The position in the image.
LEMMA LastWordType ==
  ASSUME prog \in Programs, NEW first \in 0..(Len(prog) + 3)
  PROVE  LastWord(first) \in 0..(Len(prog) + 3)
<1>1. Len(prog) \in Nat
  BY HostAssumption
<1> QED
  BY <1>1, HostAssumption DEF LastWord

LEMMA TailTypes ==
  ASSUME Sequences, ReportTypes, hq # <<>>
  PROVE  \A i \in DOMAIN Tail(hq) : Tail(hq)[i].ok \in BOOLEAN
BY FirstReport DEF ReportTypes

LEMMA AppendTypes ==
  ASSUME Sequences, ReportTypes, NEW answer, answer.ok \in BOOLEAN
  PROVE  \A i \in DOMAIN Append(hq, answer) : Append(hq, answer)[i].ok \in BOOLEAN
<1>1. Len(hq) \in Nat
  BY DEF Sequences
<1> QED
  BY <1>1, LastReport DEF ReportTypes

HostTypes == HostTypeOK /\ ReportTypes /\ AttemptLeft

\* How the tool goes on after an exchange; q is what is left of the replies.
LEMMA ExitTypes ==
  ASSUME HostTypes, NEW result \in Reports, Exit(result)
  PROVE  HostTypes'
BY DEF HostTypes, HostTypeOK, ReportTypes, AttemptLeft, Exit, HostPoints, Handles

LEMMA FewerAttempts ==
  ASSUME NEW n \in 0..MaxAttempts, n # 0, n # 1
  PROVE  n - 1 \in 0..MaxAttempts /\ n - 1 # 0
BY HostAssumption

LEMMA RetryTypes ==
  ASSUME HostTypes, hpc # "idle", NEW q, \A i \in DOMAIN q : q[i].ok \in BOOLEAN,
         RetryOrGiveUp(q)
  PROVE  HostTypes'
<1>1. CASE attempts = 1
  BY <1>1, ExitTypes DEF RetryOrGiveUp, Reports
<1>2. CASE attempts # 1
  <2>1. /\ attempts' = attempts - 1 /\ hpc' = "sleep" /\ hq' = q
        /\ UNCHANGED <<step, want, handle, prog, sent, report>>
    BY <1>2 DEF RetryOrGiveUp
  <2>2. attempts' \in 0..MaxAttempts /\ attempts' # 0
    BY <1>2, <2>1, FewerAttempts DEF HostTypes, HostTypeOK, AttemptLeft
  <2> QED
    BY <2>1, <2>2 DEF HostTypes, HostTypeOK, ReportTypes, AttemptLeft, HostPoints
<1> QED
  BY <1>1, <1>2

LEMMA CloseTypes ==
  ASSUME HostTypes, hpc # "idle", CloseAndSleep
  PROVE  HostTypes'
BY DEF HostTypes, HostTypeOK, ReportTypes, AttemptLeft, CloseAndSleep, HostPoints, Handles

LEMMA FailedTypes ==
  ASSUME HostTypes, hpc # "idle", NEW q, \A i \in DOMAIN q : q[i].ok \in BOOLEAN,
         ExchangeFailed(q)
  PROVE  HostTypes'
<1>1. RetryOrGiveUp(q) \/ CloseAndSleep \/ Exit("failed")
  BY DEF ExchangeFailed
<1> QED
  BY <1>1, RetryTypes, CloseTypes, ExitTypes DEF Reports

LEMMA BeginTypes ==
  ASSUME HostTypes, hpc # "idle", NEW q, \A i \in DOMAIN q : q[i].ok \in BOOLEAN,
         NEW exchange \in Steps, Begin(exchange, q)
  PROVE  HostTypes'
BY DEF HostTypes, HostTypeOK, ReportTypes, AttemptLeft, Begin, HostPoints

LEMMA ReplyOkTypes ==
  ASSUME HostTypes, hpc # "idle", NEW q, \A i \in DOMAIN q : q[i].ok \in BOOLEAN,
         NEW data, ReplyOk(data, q)
  PROVE  HostTypes'
<1>1. step \in Steps
  BY DEF HostTypes, HostTypeOK
<1>2. CASE step = "ask"
  <2>1. PICK b : ModeKnown(b, q)
    BY <1>2 DEF ReplyOk
  <2>2. CASE b = want
    BY <2>1, <2>2, BeginTypes DEF ModeKnown, Steps
  <2>3. CASE b # want /\ attempts = 1
    BY <2>1, <2>3, ExitTypes DEF ModeKnown, Reports
  <2>4. CASE b # want /\ attempts # 1
    <3>1. /\ attempts' = attempts - 1 /\ hpc' = "send" /\ step' = "modeReset" /\ hq' = q
          /\ UNCHANGED <<want, handle, prog, sent, report>>
      BY <2>1, <2>4 DEF ModeKnown
    <3>2. attempts' \in 0..MaxAttempts /\ attempts' # 0
      BY <2>4, <3>1, FewerAttempts DEF HostTypes, HostTypeOK, AttemptLeft
    <3> QED
      BY <3>1, <3>2 DEF HostTypes, HostTypeOK, ReportTypes, AttemptLeft, HostPoints, Steps
  <2> QED
    BY <2>2, <2>3, <2>4
<1>3. CASE step = "modeReset"
  BY <1>3, CloseTypes DEF ReplyOk
<1>4. CASE step \in {"erase", "flash"}
  BY <1>4, BeginTypes DEF ReplyOk, Steps
<1>5. CASE step = "verify"
  <2>1. Begin("reset", q) \/ Exit("failed")
    BY <1>5 DEF ReplyOk
  <2> QED
    BY <2>1, BeginTypes, ExitTypes DEF Steps, Reports
<1>6. CASE step \in {"reset", "debug"}
  <2>1. Exit("installed") \/ Exit("debugged")
    BY <1>6 DEF ReplyOk
  <2> QED
    BY <2>1, ExitTypes DEF Reports
<1> QED
  BY <1>1, <1>2, <1>3, <1>4, <1>5, <1>6 DEF Steps

LEMMA CommandTypes ==
  ASSUME HostTypes, HostCommand
  PROVE  HostTypes' /\ UNCHANGED pipeVars
<1>1. MaxAttempts \in 0..MaxAttempts /\ MaxAttempts # 0
  BY HostAssumption
<1>2. CASE StartDebug
  BY <1>1, <1>2 DEF StartDebug, EnterMode, HostTypes, HostTypeOK, ReportTypes, AttemptLeft,
                    HostPoints, Steps, Reports
<1>3. ASSUME NEW p \in Programs, StartFlash(p) PROVE HostTypes' /\ UNCHANGED pipeVars
  <2>1. 0 \in 0..(Len(p) + 3)
    BY HostAssumption
  <2>2. CASE EnterMode(TRUE)
    BY <1>1, <1>3, <2>1, <2>2
       DEF StartFlash, EnterMode, HostTypes, HostTypeOK, ReportTypes, AttemptLeft,
           HostPoints, Steps, Reports
  <2>3. CASE report' = "refused" /\ UNCHANGED <<hpc, step, want, attempts, handle, hq>>
    BY <1>3, <2>1, <2>3
       DEF StartFlash, HostTypes, HostTypeOK, ReportTypes, AttemptLeft, Reports
  <2> QED
    BY <1>3, <2>2, <2>3 DEF StartFlash
<1> QED
  BY <1>2, <1>3 DEF HostCommand

LEMMA HostStepTypes ==
  ASSUME HostTypes, Sequences, PipeTypes, UNCHANGED req, HostStep(Settled)
  PROVE  HostTypes' /\ PipeTypes'
<1>1. UNCHANGED pipeVars => PipeTypes'
  BY DEF pipeVars, PipeTypes
<1>2. \A i \in DOMAIN hq : hq[i].ok \in BOOLEAN
  BY DEF HostTypes, ReportTypes
<1>3. CASE HostCommand
  BY <1>1, <1>3, CommandTypes
<1>4. CASE ConnectOpens \/ WakeUp(Settled)
  <2>1. UNCHANGED pipeVars
    BY <1>4 DEF ConnectOpens, WakeUp
  <2>2. HostTypes'
    BY <1>4 DEF ConnectOpens, WakeUp, HostTypes, HostTypeOK, ReportTypes, AttemptLeft,
                HostPoints, Handles, Steps
  <2> QED
    BY <1>1, <2>1, <2>2
<1>5. CASE ConnectFindsNothing
  <2>1. hpc # "idle" /\ UNCHANGED pipeVars /\ (RetryOrGiveUp(hq) \/ Begin("ask", hq))
    BY <1>5 DEF ConnectFindsNothing
  <2> QED
    BY <1>1, <1>2, <2>1, RetryTypes, BeginTypes DEF Steps
<1>6. CASE SendRequest
  <2>1. /\ outEp' = {Request} /\ hpc' = "recv" /\ hpc = "send"
        /\ sent' = IF step = "flash" THEN LastWord(sent) ELSE sent
        /\ UNCHANGED <<usb, inEp, step, want, attempts, handle, hq, prog, report>>
    BY <1>6 DEF SendRequest
  <2>2. Request.op \in Ops
    BY DEF HostTypes, HostTypeOK, Request, Packet, Steps, Ops
  <2>3. prog \in Programs /\ sent' \in 0..(Len(prog) + 3)
    BY <2>1, LastWordType DEF HostTypes, HostTypeOK
  <2>4. PipeTypes'
    BY <2>1, <2>2 DEF PipeTypes
  <2>5. HostTypes'
    BY <2>1, <2>3 DEF HostTypes, HostTypeOK, ReportTypes, AttemptLeft, HostPoints
  <2> QED
    BY <2>4, <2>5
<1>7. CASE SendFails \/ ReceiveFails
  <2>1. hpc # "idle" /\ UNCHANGED pipeVars /\ ExchangeFailed(hq)
    BY <1>7 DEF SendFails, ReceiveFails
  <2> QED
    BY <1>1, <1>2, <2>1, FailedTypes
<1>8. CASE UseAfterClose \/ Kill
  BY <1>1, <1>8, ExitTypes DEF UseAfterClose, Kill, Reports
<1>9. CASE ReceiveReply
  <2>1. /\ hpc # "idle" /\ hq # <<>> /\ UNCHANGED pipeVars
        /\ ReplyOk(Head(hq).data, Tail(hq)) \/ ExchangeFailed(Tail(hq))
    BY <1>9 DEF ReceiveReply
  <2>2. \A i \in DOMAIN Tail(hq) : Tail(hq)[i].ok \in BOOLEAN
    BY <2>1, TailTypes DEF HostTypes
  <2> QED
    BY <1>1, <2>1, <2>2, ReplyOkTypes, FailedTypes
<1>10. CASE CollectReport
  <2>1. PICK answer \in inEp : hq' = Append(hq, answer)
    BY <1>10 DEF CollectReport
  <2>2. ReportTypes'
    BY <2>1, AppendTypes DEF ReportTypes, HostTypes, PipeTypes
  <2> QED
    BY <1>10, <2>2 DEF CollectReport, HostTypes, HostTypeOK, AttemptLeft, PipeTypes
<1>11. CASE DropReport
  BY <1>11 DEF DropReport, hostVars, HostTypes, HostTypeOK, ReportTypes, AttemptLeft, PipeTypes
<1> QED
  BY <1>3, <1>4, <1>5, <1>6, <1>7, <1>8, <1>9, <1>10, <1>11 DEF HostStep, HostProgress

-----------------------------------------------------------------------------

LEMMA InitTypes ==
  ASSUME Init
  PROVE  TypeInv
<1>1. DOMAIN flash = Index
  BY InitialContents
<1>2. ChipTypeOK
  <2>1. phase = "boot" /\ unlocked = FALSE /\ bkp = FALSE /\ dbp = FALSE /\ cur = 0
    BY DEF Init, ChipInit, NoHandler
  <2> QED
    BY <1>1, <2>1 DEF ChipTypeOK, Phases
<1>3. PipeTypes
  BY DEF Init, PipeInit, ChipInit, NoHandler, PipeTypes
<1>4. HostTypes
  <2>1. /\ hpc = "idle" /\ step = "ask" /\ want = FALSE /\ attempts = 0
        /\ handle = "null" /\ hq = <<>>
        /\ prog \in Programs /\ sent = 0 /\ report = "none"
    BY DEF Init, HostInit
  <2>2. sent \in 0..(Len(prog) + 3) /\ attempts \in 0..MaxAttempts
    <3>1. Len(prog) \in Nat /\ MaxAttempts \in Nat
      BY <2>1, HostAssumption
    <3> QED
      BY <2>1, <3>1
  <2>3. ReportTypes
    BY <2>1 DEF ReportTypes
  <2>4. HostTypeOK
    BY <2>1, <2>2 DEF HostTypeOK, HostPoints, Steps, Handles, Reports
  <2> QED
    BY <2>1, <2>3, <2>4 DEF HostTypes, AttemptLeft
<1> QED
  BY <1>2, <1>3, <1>4, TypesApart DEF TypeInv, HostTypes, ReportTypes

LEMMA NextTypes ==
  ASSUME TypeInv, Sequences, [Next]_vars
  PROVE  TypeInv'
<1>1. ChipTypeOK /\ PipeTypes /\ HostTypes
  BY TypesApart DEF TypeInv, HostTypes, ReportTypes
<1>2. ChipTypeOK' /\ PipeTypes' /\ HostTypes'
  <2>1. CASE Device
    <3>1. /\ DeviceStep /\ handle' = HandleAfter(usb')
          /\ UNCHANGED <<hpc, step, want, attempts, hq, prog, sent, report>>
      BY <2>1 DEF Device
    <3>2. handle' \in Handles
      BY <1>1, <3>1 DEF HostTypes, HostTypeOK, HandleAfter, Handles
    <3>3. HostTypes'
      BY <1>1, <3>1, <3>2 DEF HostTypes, HostTypeOK, ReportTypes, AttemptLeft
    <3> QED
      BY <1>1, <3>1, <3>3, DeviceTypes
  <2>2. CASE Host
    <3>1. HostStep(Settled) /\ UNCHANGED chipVars
      BY <2>2 DEF Host
    <3>2. ChipTypeOK' /\ UNCHANGED req
      BY <1>1, <3>1 DEF ChipTypeOK, chipVars
    <3> QED
      BY <1>1, <3>1, <3>2, HostStepTypes
  <2>3. CASE UNCHANGED vars
    BY <1>1, <2>3 DEF vars, deviceVars, chipVars, pipeVars, hostVars, ChipTypeOK, PipeTypes,
                      HostTypes, HostTypeOK, ReportTypes, AttemptLeft
  <2> QED
    BY <2>1, <2>2, <2>3 DEF Next
<1> QED
  BY <1>2 DEF TypeInv, TypeOK, HostTypes, ReportTypes, PipeTypes, Ops

\* Every variable of the update path keeps its type: the attempts do not run
\* below zero and the position in the image does not pass its end
\* (enter_device_mode, flash_program).
THEOREM TypesAreKept == Spec => []TypeOK
<1>1. Init => TypeInv
  BY InitTypes
<1>2. TypeInv /\ Sequences /\ [Next]_vars => TypeInv'
  BY NextTypes
<1>3. SuccessInv => Sequences
  BY DEF SuccessInv
<1>4. TypeInv => TypeOK
  BY DEF TypeInv
<1> QED
  BY <1>1, <1>2, <1>3, <1>4, OldRepliesAreUsedUp, PTL DEF Spec

-----------------------------------------------------------------------------
(* What holds whatever happens, and with that: with wear, too, the firmware *)
(* that runs is the whole of a program (module UpdateInvariant has the      *)
(* argument).                                                               *)

Known == TypeOK /\ SuccessInv

\* A word of a buffer is a number, or the CRC of a program that has words.
LEMMA NumberOrCrc ==
  ASSUME NEW p \in Accepted, NEW i \in Index
  PROVE  \/ \E m \in Nat : Buffer(p)[i] = Num(m)
         \/ i = Len(p) + 2 /\ Len(p) # 0 /\ Buffer(p)[i] = CrcOf(p, Len(p))
<1>1. p \in Programs /\ FitsHostLimit(p) /\ Len(p) \in Nat /\ i \in Nat /\ i > 0
  BY ImageWords DEF Accepted, Index
<1>2. MaxWord \in Nat
  BY Layout
<1>3. CASE i <= Len(p)
  <2>1. i \in 1..Len(p)
    BY <1>1, <1>3
  <2>2. Buffer(p)[i] \in NumWord
    BY <1>1, <2>1, BufferWords, ImageWords
  <2> QED
    BY <1>2, <2>2 DEF NumWord
<1>4. CASE i = Len(p) + 1
  BY <1>1, <1>4, BufferWords
<1>5. CASE i = Len(p) + 2
  <2>1. Buffer(p)[i] = CrcOf(p, Len(p))
    BY <1>1, <1>5, BufferWords
  <2>2. CASE Len(p) = 0
    BY <1>2, <2>1, <2>2, WordKinds DEF Erased
  <2> QED
    BY <1>5, <2>1, <2>2
<1>6. CASE i = Len(p) + 3
  BY <1>1, <1>6, BufferWords DEF Zero
<1>7. CASE i > Len(p) + 3
  <2>1. Buffer(p)[i] = Erased
    BY <1>1, <1>7, BufferWords
  <2> QED
    BY <1>2, <2>1 DEF Erased
<1> QED
  BY <1>1, <1>3, <1>4, <1>5, <1>6, <1>7

\* The CRC of some words is that of a program only if they are its words.
LEMMA SameCrcSameWords ==
  ASSUME NEW f, NEW g, NEW n \in Nat, NEW m \in Nat, n # 0, m # 0, CrcOf(f, n) = CrcOf(g, m)
  PROVE  n = m /\ \A i \in 1..n : f[i] = g[i]
<1>1. Prefix(f, n) = Prefix(g, m)
  BY DEF CrcOf
<1>2. DOMAIN Prefix(f, n) = 1..n /\ DOMAIN Prefix(g, m) = 1..m
  BY DEF Prefix
<1>3. n \in 1..n /\ m \in 1..m /\ 1..n = 1..m
  BY <1>1, <1>2
<1>4. n = m
  BY <1>3
<1>5. ASSUME NEW i \in 1..n PROVE f[i] = g[i]
  <2>1. Prefix(f, n)[i] = f[i] /\ Prefix(g, m)[i] = g[i]
    BY <1>3 DEF Prefix
  <2> QED
    BY <1>1, <2>1
<1> QED
  BY <1>4, <1>5

\* An area in which every word is in its place passes the check only when it
\* begins with a program, or with the trailer of no words.
LEMMA ValidBeginsWithAProgram ==
  ASSUME EndWord # Zero, WordsInPlace, "valid" \in FirmwareCheck(flash)
  PROVE  TrailerOfNothing(flash) \/ \E p \in Programs : BeginsWith(flash, p)
<1>1. PICK z \in LastZero(flash) :
        LengthInArea(flash, z) /\ flash[z - 1] = CrcOf(flash, flash[z - 2][2])
  <2>1. TrailerMatches(flash)
    BY DEF FirmwareCheck
  <2> QED
    BY <2>1 DEF TrailerMatches
<1>2. z \in 3..(ProgramWords + 1) /\ ReadWord(flash, z) = Zero
  BY <1>1 DEF LastZero, ZeroWords
<1>3. z \in Nat /\ z >= 3 /\ z \in Index /\ z - 1 \in Index /\ z - 2 \in Index /\ flash[z] = Zero
  BY <1>2, Layout DEF ReadWord, Index
<1>4. PICK n \in Nat : flash[z - 2] = Num(n)
  <2>1. CASE flash[z - 2] = Erased
    BY <2>1, Layout DEF Erased
  <2>2. CASE flash[z - 2] # Erased
    <3>1. PICK p \in Accepted : flash[z - 2] = Buffer(p)[z - 2]
      BY <1>3, <2>2 DEF WordsInPlace
    <3>2. ~(Len(p) # 0 /\ Buffer(p)[z - 2] = CrcOf(p, Len(p)))
      BY <1>1, <3>1 DEF LengthInArea, IsNum, CrcOf
    <3> QED
      BY <1>3, <3>1, <3>2, NumberOrCrc
  <2> QED
    BY <2>1, <2>2
<1>5. flash[z - 1] = CrcOf(flash, n)
  BY <1>1, <1>4 DEF Num
<1>6. CASE n = 0
  <2>1. flash[z - 2] = Zero /\ flash[z - 1] = Erased
    BY <1>4, <1>5, <1>6, WordKinds DEF Zero
  <2> QED
    BY <1>1, <2>1 DEF TrailerOfNothing
<1>7. CASE n # 0
  <2>1. PICK p \in Accepted : flash[z - 1] = Buffer(p)[z - 1]
    <3>1. flash[z - 1] # Erased
      BY <1>5, <1>7, WordKinds DEF Erased
    <3> QED
      BY <1>3, <3>1 DEF WordsInPlace
  <2>2. p \in Programs /\ FitsHostLimit(p) /\ Len(p) \in Nat
    BY ImageWords DEF Accepted
  <2>3. z - 1 = Len(p) + 2 /\ Len(p) # 0
    BY <1>3, <1>5, <1>7, <2>1, <2>2, OnlyOneCrc
  <2>4. CrcOf(flash, n) = CrcOf(p, Len(p))
    BY <1>5, <2>1, <2>2, <2>3, BufferWords
  <2>5. n = Len(p) /\ \A i \in 1..Len(p) : flash[i] = p[i]
    BY <1>7, <2>2, <2>3, <2>4, SameCrcSameWords
  <2>6. z = Len(p) + 3 /\ z - 2 = Len(p) + 1
    BY <1>3, <2>2, <2>3
  <2>7. ASSUME NEW i \in 1..(Len(p) + 3) PROVE flash[i] = Image(p)[i]
    <3>1. i \in 1..Len(p) \/ i = Len(p) + 1 \/ i = Len(p) + 2 \/ i = Len(p) + 3
      BY <2>2
    <3>2. flash[Len(p) + 1] = Num(Len(p)) /\ flash[Len(p) + 3] = Zero
      BY <1>3, <1>4, <2>5, <2>6
    <3>3. flash[Len(p) + 2] = CrcOf(p, Len(p))
      BY <1>5, <2>3, <2>4
    <3> QED
      BY <2>2, <2>5, <3>1, <3>2, <3>3, ImageWords
  <2> QED
    BY <2>2, <2>7 DEF BeginsWith
<1> QED
  BY <1>6, <1>7

\* A step that changes no word, sends no request and starts no firmware.
LEMMA WornStays ==
  ASSUME WornInv, UNCHANGED flash,
         \A pkt \in outEp' \cup req' : pkt \in outEp \cup req,
         phase' = "programming" => \A pkt \in req' : pkt.op = "flash",
         phase' = "firmware" => phase = "firmware"
  PROVE  WornInv'
<1>1. WordsInPlace'
  BY DEF WornInv, WordsInPlace
<1>2. RequestsInPlace'
  <2>1. ASSUME NEW pkt \in (outEp \cup req)', pkt.op = "flash" PROVE InPlace(pkt)
    BY <2>1 DEF WornInv, RequestsInPlace
  <2> QED
    BY <2>1 DEF RequestsInPlace, InPlace
<1>3. RunsWholeFirmware'
  BY DEF WornInv, RunsWholeFirmware
<1> QED
  BY <1>1, <1>2, <1>3 DEF WornInv

\* Erasing takes words away, or nothing.
LEMMA EraseWorn ==
  ASSUME WornInv, ErasePageStep
  PROVE  WornInv'
<1>1. /\ phase = "erasing" /\ UNCHANGED <<phase, req, outEp>>
      /\ flash' \in {ErasePage(flash, cur), flash}
  BY DEF ErasePageStep, pipeVars
<1>2. \A i \in Index : flash'[i] \in {Erased, flash[i]}
  BY <1>1 DEF ErasePage
<1>3. WordsInPlace'
  BY <1>2 DEF WornInv, WordsInPlace
<1>4. RequestsInPlace'
  BY <1>1 DEF WornInv, RequestsInPlace, InPlace
<1> QED
  BY <1>1, <1>3, <1>4 DEF WornInv, RunsWholeFirmware

\* A cell gets the word that has its place in the image of the request, or
\* keeps the one it has.
LEMMA ProgramWorn ==
  ASSUME Known, WornInv, ProgramWordStep
  PROVE  WornInv'
<1>1. phase = "programming" /\ cur \in Nat /\ DOMAIN flash = Index
  BY DEF ProgramWordStep, Known, TypeOK, ChipTypeOK
<1>2. PICK pkt \in req :
        /\ cur < Len(pkt.words)
        /\ IF ~Programmable(pkt.arg + cur)
           THEN FinishHandler(Answer(FALSE, Zero)) /\ UNCHANGED flash
           ELSE \E stored \in MayStore(flash[pkt.arg + cur + 1], pkt.words[cur + 1]) :
                  /\ flash' = [flash EXCEPT ![pkt.arg + cur + 1] = stored]
                  /\ IF ReadsBack(stored, pkt.words[cur + 1])
                     THEN /\ cur' = cur + 1
                          /\ UNCHANGED <<phase, unlocked, bkp, dbp, req, pipeVars>>
                     ELSE FinishHandler(Answer(FALSE, Zero))
  <2>1. PICK pkt \in req :
          /\ cur < Len(pkt.words)
          /\ \/ ~Programmable(pkt.arg + cur) /\ WordFails /\ UNCHANGED flash
             \/ WordInArea(pkt.arg + cur, pkt.words[cur + 1])
             \/ WordInFront(pkt.arg + cur)
    BY DEF ProgramWordStep
  <2>2. InPlace(pkt)
    BY <1>1, <2>1 DEF WornInv, RequestsInPlace
  <2>3. pkt.arg \in Nat /\ pkt.arg + cur < ProgramWords
    BY <1>1, <2>1, <2>2, Layout DEF InPlace
  <2> QED
    BY <1>1, <2>1, <2>3, WordInItsPlace
<1>3. /\ UNCHANGED outEp
      /\ (phase' = phase /\ req' = req) \/ (phase' = "bootloader" /\ req' = {})
  BY <1>2 DEF FinishHandler, pipeVars
<1>4. InPlace(pkt)
  BY <1>1, <1>2 DEF WornInv, RequestsInPlace
<1> DEFINE k == pkt.arg + cur + 1
           w == pkt.words[cur + 1]
<1>5. PICK p \in Accepted : w = Buffer(p)[k]
  <2>1. cur + 1 \in 1..Len(pkt.words) /\ pkt.arg \in Nat
    BY <1>1, <1>2, <1>4 DEF InPlace
  <2>2. pkt.arg + (cur + 1) = k
    BY <1>1, <2>1
  <2> QED
    BY <1>4, <2>1, <2>2 DEF InPlace
<1>6. UNCHANGED flash \/ \E stored \in {flash[k], w} : flash' = [flash EXCEPT ![k] = stored]
  <2>1. ASSUME NEW stored \in MayStore(flash[k], w) PROVE stored \in {flash[k], w}
    BY DEF MayStore, Programmed
  <2> QED
    BY <1>2, <2>1
<1>7. ASSUME NEW i \in Index PROVE flash'[i] = flash[i] \/ flash'[i] = Buffer(p)[i]
  <2> HIDE DEF k, w
  <2> QED
    BY <1>1, <1>5, <1>6
<1>8. WordsInPlace'
  BY <1>7 DEF WornInv, WordsInPlace
<1>9. RequestsInPlace'
  <2>1. \A q \in outEp' \cup req' : q \in outEp \cup req
    BY <1>3
  <2>2. \A q \in req' : q \in req
    BY <1>3
  <2> QED
    BY <1>1, <2>1, <2>2 DEF WornInv, RequestsInPlace, InPlace
<1> QED
  BY <1>1, <1>3, <1>8, <1>9 DEF WornInv, RunsWholeFirmware

LEMMA RequestWorn ==
  ASSUME WornInv, BootloaderRequest
  PROVE  WornInv'
<1>1. PICK pkt \in outEp :
        \/ HandleInfo(pkt) \/ HandleErase(pkt) \/ HandleFlash(pkt) \/ HandleVerify(pkt)
        \/ HandleBootloader(pkt) \/ HandleReset(pkt) \/ HandleDebug(pkt)
        \/ HandleUnknown(pkt)
  BY DEF BootloaderRequest
<1>2. phase = "bootloader"
  BY DEF BootloaderRequest
<1>3. ASSUME NEW answer, JustReply(pkt, answer) PROVE WornInv'
  <2>1. outEp' = {} /\ UNCHANGED <<phase, flash, req>>
    BY <1>3 DEF JustReply, TakeRequest, chipVars
  <2> QED
    BY <1>2, <2>1, WornStays
<1>4. CASE HandleErase(pkt)
  <2>1. outEp' = {} /\ req' = {pkt} /\ phase' = "erasing" /\ UNCHANGED flash
    BY <1>4 DEF HandleErase, TakeRequest
  <2> QED
    BY <2>1, WornStays
<1>5. CASE HandleFlash(pkt) /\ ~(Len(pkt.words) > PacketWords)
  <2>1. pkt.op = "flash" /\ outEp' = {} /\ req' = {pkt} /\ phase' = "programming" /\ UNCHANGED flash
    BY <1>5 DEF HandleFlash, TakeRequest
  <2> QED
    BY <2>1, WornStays
<1>6. CASE HandleReset(pkt)
  <2>1. outEp' = {} /\ phase' = "resetting" /\ UNCHANGED <<flash, req>>
    BY <1>6 DEF HandleReset, TakeRequest
  <2> QED
    BY <2>1, WornStays
<1>7. CASE HandleFlash(pkt) /\ Len(pkt.words) > PacketWords
  BY <1>3, <1>7 DEF HandleFlash
<1>8. CASE TakeRequest(pkt) /\ phase' = "fault" /\ UNCHANGED <<flash, req>>
  BY <1>8, WornStays DEF TakeRequest
<1> QED
  BY <1>1, <1>3, <1>4, <1>5, <1>6, <1>7, <1>8
     DEF HandleInfo, HandleVerify, HandleBootloader, HandleDebug, HandleUnknown

LEMMA DeviceWorn ==
  ASSUME EndWord # Zero, Known, WornInv, DeviceStep
  PROVE  WornInv'
<1>1. CASE Boot
  <2>1. phase' # "programming" /\ UNCHANGED <<flash, outEp, req>>
    <3>1. CASE BootHeldByButton \/ BootByFlag
      BY <3>1 DEF BootHeldByButton, BootByFlag, pipeVars
    <3>2. CASE BootByContents
      <4>1. PICK outcome \in FirmwareCheck(flash) :
              phase' = CASE outcome = "valid"   -> "firmware"
                         [] outcome = "invalid" -> "bootloader"
                         [] outcome = "fault"   -> "fault"
        BY <3>2 DEF BootByContents
      <4>2. outcome \in {"valid", "invalid", "fault"}
        BY DEF FirmwareCheck
      <4> QED
        BY <3>2, <4>1, <4>2 DEF BootByContents, pipeVars
    <3> QED
      BY <1>1, <3>1, <3>2 DEF Boot
  <2>2. phase' = "firmware" => "valid" \in FirmwareCheck(flash)
    <3>1. phase' = "firmware" => BootByContents
      BY <1>1 DEF Boot, BootHeldByButton, BootByFlag
    <3>2. ASSUME BootByContents, phase' = "firmware" PROVE "valid" \in FirmwareCheck(flash)
      <4>1. PICK outcome \in FirmwareCheck(flash) :
              phase' = CASE outcome = "valid"   -> "firmware"
                         [] outcome = "invalid" -> "bootloader"
                         [] outcome = "fault"   -> "fault"
        BY <3>2 DEF BootByContents
      <4>2. outcome \in {"valid", "invalid", "fault"}
        BY DEF FirmwareCheck
      <4> QED
        BY <3>2, <4>1, <4>2
    <3> QED
      BY <3>1, <3>2
  <2>3. RunsWholeFirmware'
    <3>1. WordsInPlace
      BY DEF WornInv
    <3>2. phase' = "firmware" => TrailerOfNothing(flash) \/ \E p \in Programs : BeginsWith(flash, p)
      BY <2>2, <3>1, ValidBeginsWithAProgram
    <3> QED
      BY <2>1, <3>2 DEF RunsWholeFirmware
  <2>4. WordsInPlace' /\ RequestsInPlace'
    BY <2>1 DEF WornInv, WordsInPlace, RequestsInPlace, InPlace
  <2> QED
    BY <2>3, <2>4 DEF WornInv
<1>2. CASE FirmwareStep
  <2>1. PICK pkt \in outEp :
          \/ HandleReset(pkt)
          \/ pkt.op # "reset" /\ JustReply(pkt, FirmwareAnswer(pkt))
    BY <1>2 DEF FirmwareStep, FirmwareRequest
  <2>2. phase = "firmware"
    BY <1>2 DEF FirmwareStep, FirmwareRequest
  <2>3. phase' \in {"firmware", "resetting"} /\ outEp' = {} /\ UNCHANGED <<flash, req>>
    BY <2>1, <2>2 DEF HandleReset, JustReply, TakeRequest, chipVars
  <2> QED
    BY <2>2, <2>3, WornStays
<1>3. CASE BootloaderRequest
  BY <1>3, RequestWorn
<1>4. CASE ErasePageStep
  BY <1>4, EraseWorn
<1>5. CASE ProgramWordStep
  BY <1>5, ProgramWorn
<1>6. CASE EraseDone \/ ProgramDone
  <2>1. phase' = "bootloader" /\ req' = {} /\ UNCHANGED <<flash, outEp>>
    BY <1>6 DEF EraseDone, ProgramDone, FinishHandler
  <2> QED
    BY <2>1, WornStays
<1>7. CASE Enumerate \/ BusReset
  <2>1. outEp' = {} /\ UNCHANGED <<phase, flash, req>>
    BY <1>7 DEF Enumerate, BusReset, PipeUp, PipeDown, chipVars
  <2> QED
    BY <2>1, WornStays DEF WornInv, RequestsInPlace
<1>8. CASE SystemReset \/ PowerCycle \/ Rollover
  <2>1. phase' = "boot" /\ outEp' = {} /\ req' = {} /\ UNCHANGED flash
    BY <1>8 DEF SystemReset, PowerCycle, Rollover, Restart, PipeDown
  <2> QED
    BY <2>1, WornStays
<1> QED
  BY <1>1, <1>2, <1>3, <1>4, <1>5, <1>6, <1>7, <1>8 DEF DeviceStep, BootloaderStep

\* The words of a flash request, if it has any, are those of the image.
LEMMA RequestIsInPlace ==
  ASSUME Known, hpc = "send", step = "flash"
  PROVE  InPlace(Request)
<1>1. prog \in Accepted /\ Len(prog) \in Nat /\ sent \in Nat /\ sent <= Len(prog) + 3
  BY ImageWords DEF Known, TypeOK, HostTypeOK, SuccessInv, Commanded, Accepted
<1>2. CASE sent < Len(prog) + 3
  <2>1. Chunk(Request, prog)
    BY <1>1, <1>2, RequestIsChunk
  <2>2. Request.arg \in Nat /\ Len(Request.words) \in Nat
    BY <2>1, BootloaderAssumption DEF Chunk
  <2>3. ASSUME NEW j \in 1..Len(Request.words)
        PROVE  Request.words[j] = Buffer(prog)[Request.arg + j]
    <3>1. Request.words[j] = Image(prog)[Request.arg + j]
      BY <2>1 DEF Chunk
    <3>2. Request.arg + j \in 1..(Len(prog) + 3)
      BY <1>1, <2>1, <2>2 DEF Chunk
    <3>3. Request.arg + j \in Index /\ Request.arg + j <= Len(prog) + 3
      BY <1>1, <3>2, Layout DEF Accepted, FitsHostLimit, Index
    <3> QED
      BY <3>1, <3>3 DEF Buffer
  <2>4. Request.arg + Len(Request.words) <= ProgramWords
    <3>1. Request.arg + Len(Request.words) <= Len(prog) + 3 /\ Len(prog) + 3 <= ProgramWords
      BY <1>1, <2>1 DEF Chunk, Accepted, FitsHostLimit
    <3> QED
      BY <1>1, <2>2, <3>1, Layout
  <2> QED
    BY <1>1, <2>2, <2>3, <2>4 DEF InPlace
<1>3. CASE sent = Len(prog) + 3
  <2> DEFINE words == SubSeq(Image(prog), sent + 1, LastWord(sent))
  <2>1. HostPacketWords \in Nat /\ HostPacketWords >= 1
    BY HostAssumption
  <2>2. LastWord(sent) = sent
    BY <1>1, <1>3, <2>1 DEF LastWord
  <2>3. Len(words) = 0
    BY <1>1, <2>2
  <2>4. Request.arg = sent /\ Request.words = words
    BY DEF Request, Packet
  <2> HIDE DEF words
  <2>5. Request.arg \in Nat /\ Len(Request.words) = 0
    BY <1>1, <2>3, <2>4
  <2>6. Request.arg + Len(Request.words) <= ProgramWords
    <3>1. Request.arg = Len(prog) + 3 /\ Len(prog) + 3 <= ProgramWords
      BY <1>1, <1>3, <2>4 DEF Accepted, FitsHostLimit
    <3> QED
      BY <1>1, <2>5, <3>1, Layout
  <2> QED
    BY <1>1, <2>5, <2>6 DEF InPlace
<1> QED
  BY <1>1, <1>2, <1>3

\* The tool puts nothing but requests in place into the endpoint.
LEMMA HostWorn ==
  ASSUME Known, WornInv, UNCHANGED chipVars, HostStep(Settled)
  PROVE  WornInv'
<1>1. UNCHANGED <<phase, flash, req>>
  BY DEF chipVars
<1>2. CASE SendRequest
  <2>1. outEp' = {Request} /\ hpc = "send" /\ step \in Steps
    BY <1>2 DEF SendRequest, Known, TypeOK, HostTypeOK
  <2>2. Request.op = "flash" => step = "flash"
    BY <2>1 DEF Request, Steps, Packet
  <2>3. Request.op = "flash" => InPlace(Request)
    BY <2>1, <2>2, RequestIsInPlace
  <2>4. WordsInPlace' /\ RunsWholeFirmware'
    BY <1>1 DEF WornInv, WordsInPlace, RunsWholeFirmware
  <2>5. ASSUME NEW pkt \in outEp' \cup req', pkt.op = "flash" PROVE InPlace(pkt)
    BY <1>1, <2>1, <2>3, <2>5 DEF WornInv, RequestsInPlace
  <2>6. RequestsInPlace'
    BY <1>1, <2>5 DEF WornInv, RequestsInPlace, InPlace
  <2> QED
    BY <2>4, <2>6 DEF WornInv
<1>3. CASE UNCHANGED outEp
  BY <1>1, <1>3, WornStays DEF WornInv, RequestsInPlace
<1>4. SendRequest \/ UNCHANGED outEp
  BY DEF HostStep, HostCommand, HostProgress, StartDebug, StartFlash, ConnectOpens,
         ConnectFindsNothing, WakeUp, SendFails, UseAfterClose, ReceiveReply, ReceiveFails,
         CollectReport, DropReport, Kill, pipeVars
<1> QED
  BY <1>2, <1>3, <1>4

LEMMA InitWorn ==
  ASSUME Init
  PROVE  WornInv
<1>1. PICK c \in Contents : ChipInit(c)
  BY DEF Init
<1>2. phase = "boot" /\ flash = c /\ req = {} /\ outEp = {}
  BY <1>1 DEF ChipInit, NoHandler, Init, PipeInit
<1>3. c = [i \in Index |-> Erased] \/ \E p \in Accepted : c = Buffer(p)
  BY UpdateAssumption DEF Holds, Accepted
<1>4. WordsInPlace
  BY <1>2, <1>3 DEF WordsInPlace
<1> QED
  BY <1>2, <1>4 DEF WornInv, RequestsInPlace, RunsWholeFirmware

\* Words keep their place, whatever wears out (erase_program, flash_program,
\* my_flash_program_word): the inductive invariant.
THEOREM WordsKeepTheirPlace ==
  ASSUME EndWord # Zero
  PROVE  Spec => []WornInv
<1>1. Init => WornInv
  BY InitWorn
<1>2. Known /\ WornInv /\ [Next]_vars => WornInv'
  <2> SUFFICES ASSUME Known, WornInv, [Next]_vars PROVE WornInv'
    OBVIOUS
  <2>1. CASE Device
    BY <2>1, DeviceWorn DEF Device
  <2>2. CASE Host
    BY <2>2, HostWorn DEF Host
  <2>3. CASE UNCHANGED vars
    BY <2>3, WornStays DEF vars, deviceVars, chipVars, pipeVars, WornInv, RequestsInPlace
  <2> QED
    BY <2>1, <2>2, <2>3 DEF Next
<1>3. TypeOK /\ SuccessInv => Known
  BY DEF Known
<1> QED
  BY <1>1, <1>2, <1>3, TypesAreKept, OldRepliesAreUsedUp, PTL DEF Spec

\* With worn cells and pages, too, the firmware that runs is the whole of a
\* program, unless the trailer found is that of no words (firmware_is_valid).
THEOREM WornFirmwareIsWhole ==
  ASSUME EndWord # Zero
  PROVE  Spec => []RunsWholeFirmware
<1>1. WornInv => RunsWholeFirmware
  BY DEF WornInv
<1> QED
  BY <1>1, WordsKeepTheirPlace, PTL
=============================================================================
