---------------------------- MODULE DeviceProofs ----------------------------
(***************************************************************************)
(* What the device keeps up against any host (module DeviceAlone), for     *)
(* every layout of the flash, every set of requests, and whatever the      *)
(* power, the bus, the cells and the clock do.                             *)
(***************************************************************************)
EXTENDS DeviceAlone, TLAPS

\* The packet endpoints hold one packet, and so does a handler.
OnePacketEach ==
  /\ \A p, q \in outEp : p = q
  /\ \A p, q \in req : p = q

\* The words of the request that is carried out fit in one packet.
FlashRequestFits ==
  phase = "programming" => \A p \in req : Len(p.words) <= PacketWords

\* The inductive invariant: no two words of a request have the same address,
\* not even when the addresses wrap, because the request fits in a packet.
DeviceInv ==
  /\ TypeOK
  /\ OnePacketEach
  /\ FlashRequestFits
  /\ WordsSoFarStored
  /\ FirmwareRunsWithFlagClear

\* Division with remainder.
LEMMA DivMod ==
  ASSUME NEW m \in Nat \ {0}, NEW x \in Nat
  PROVE  x \div m \in Nat /\ x % m \in 0..(m-1) /\ x = (x \div m) * m + (x % m)
OBVIOUS

\* A larger factor makes a product larger by the other factor at least.
LEMMA MulUp ==
  ASSUME NEW m \in Nat, NEW p \in Nat, NEW q \in Nat, p < q
  PROVE  q * m >= p * m + m
<1>1. PICK d \in Nat : q = p + 1 + d
  <2>1. q - p - 1 \in Nat /\ q = p + 1 + (q - p - 1)
    OBVIOUS
  <2> QED
    BY <2>1
<1>2. q * m = p * m + m + d * m
  BY <1>1
<1>3. d * m \in Nat /\ p * m \in Nat
  OBVIOUS
<1> QED
  BY <1>2, <1>3

\* Numbers that are apart by less than the modulus have different remainders.
LEMMA ModApart ==
  ASSUME NEW m \in Nat \ {0}, NEW x \in Nat, NEW y \in Nat, x < y, y < x + m
  PROVE  x % m # y % m
<1> SUFFICES ASSUME x % m = y % m PROVE FALSE
  OBVIOUS
<1> DEFINE p == x \div m  q == y \div m  r == x % m
<1>1. p \in Nat /\ q \in Nat /\ r \in Nat /\ x = p * m + r /\ y = q * m + r /\ r < m
  <2>1. p \in Nat /\ x % m \in 0..(m - 1) /\ x = p * m + (x % m)
    BY DivMod
  <2>2. q \in Nat /\ y = q * m + (y % m)
    BY DivMod
  <2> QED
    BY <2>1, <2>2
<1>0. p * m \in Nat /\ q * m \in Nat
  BY <1>1
<1>2. CASE p < q
  <2>1. q * m >= p * m + m
    BY <1>1, <1>2, MulUp
  <2> HIDE DEF p, q, r
  <2> QED
    BY <1>1, <1>0, <2>1
<1>3. CASE q < p
  <2>1. p * m >= q * m + m
    BY <1>1, <1>3, MulUp
  <2> HIDE DEF p, q, r
  <2> QED
    BY <1>1, <1>0, <2>1
<1>4. CASE p = q
  <2> HIDE DEF p, q, r
  <2> QED
    BY <1>1, <1>0, <1>4
<1> QED
  BY <1>1, <1>2, <1>3, <1>4

\* The address of an offset is the sum that the program computes, if it fits.
LEMMA UnwrappedAddress ==
  ASSUME NEW a \in Nat, ~Wraps(a)
  PROVE  Word32(AreaBegin + 4 * a) = AreaBegin + 4 * a
<1>1. AreaBegin + 4 * a \in Nat /\ AreaBegin + 4 * a < MaxWord + 1 /\ MaxWord + 1 \in Nat \ {0}
  BY LayoutAssumption DEF Wraps
<1> QED
  BY <1>1 DEF Word32

\* The words of one packet have different addresses.
LEMMA AddressesApart ==
  ASSUME NEW a \in Nat, NEW b \in Nat, a < b, b < a + PacketWords
  PROVE  Address(a) # Address(b)
<1>1. /\ MaxWord \in Nat /\ MaxWord + 1 \in Nat \ {0} /\ AreaBegin \in Nat
      /\ PacketWords \in Nat /\ 4 * PacketWords <= MaxWord
  BY LayoutAssumption, BootloaderAssumption
<1>2. /\ AreaBegin + 4 * a \in Nat /\ AreaBegin + 4 * b \in Nat
      /\ AreaBegin + 4 * a < AreaBegin + 4 * b
      /\ AreaBegin + 4 * b < (AreaBegin + 4 * a) + (MaxWord + 1)
  <2>1. 4 * b < 4 * a + 4 * PacketWords
    BY <1>1
  <2> QED
    BY <1>1, <2>1
<1> QED
  BY <1>1, <1>2, ModApart DEF Address, Word32

\* What a cell holds after programming is what it held or what was asked for.
LEMMA MayStoreType ==
  ASSUME NEW old \in Words, NEW w \in Words, NEW s \in MayStore(old, w)
  PROVE  s \in Words
BY DEF MayStore, Programmed

\* The words of a request that fits are words.
LEMMA RequestWords ==
  ASSUME NEW pkt \in Requests
  PROVE  /\ pkt.arg \in Nat
         /\ Len(pkt.words) \in Nat
         /\ \A i \in 1..Len(pkt.words) : pkt.words[i] \in Words
<1>1. pkt.arg \in Nat /\ pkt.words \in Seq(Words)
  BY AloneAssumption DEF RequestType
<1> QED
  BY <1>1

\* The layout in the form the steps need it.
LEMMA Layout == ProgramWords \in Nat /\ PageWords \in Nat /\ Index = 1..ProgramWords
BY LayoutAssumption DEF Index

\* Every initial state satisfies the invariant.
LEMMA InitDeviceInv == Init => DeviceInv
<1> SUFFICES ASSUME Init PROVE DeviceInv
  OBVIOUS
<1> USE DEF Init, ChipInit, PipeInit, NoHandler
<1>1. flash \in [Index -> Words] /\ DOMAIN flash = Index
  BY AloneAssumption
<1>2. bkp \in BOOLEAN /\ dbp \in BOOLEAN /\ unlocked \in BOOLEAN /\ usb \in BOOLEAN
  OBVIOUS
<1>3. TypeOK
  BY <1>1, <1>2 DEF TypeOK, ChipTypeOK, Phases
<1>4. OnePacketEach
  BY DEF OnePacketEach
<1>5. WordsSoFarStored /\ FirmwareRunsWithFlagClear
  BY DEF WordsSoFarStored, FirmwareRunsWithFlagClear
<1> QED
  BY <1>3, <1>4, <1>5 DEF DeviceInv, FlashRequestFits

\* A restart leaves nothing of a handler behind.
LEMMA RestartDeviceInv == DeviceInv /\ Restart /\ bkp' \in BOOLEAN => DeviceInv'
<1> SUFFICES ASSUME DeviceInv, Restart, bkp' \in BOOLEAN PROVE DeviceInv'
  OBVIOUS
<1> USE DEF Restart, PipeDown
<1>1. usb' \in BOOLEAN /\ unlocked' \in BOOLEAN /\ dbp' \in BOOLEAN
  OBVIOUS
<1>2. TypeOK'
  BY <1>1 DEF DeviceInv, TypeOK, ChipTypeOK, Phases
<1>3. OnePacketEach'
  BY DEF OnePacketEach
<1>4. WordsSoFarStored' /\ FirmwareRunsWithFlagClear'
  BY DEF WordsSoFarStored, FirmwareRunsWithFlagClear
<1> QED
  BY <1>2, <1>3, <1>4 DEF DeviceInv, FlashRequestFits

\* A handler that only replies changes nothing but the endpoints.
LEMMA JustReplyDeviceInv ==
  ASSUME NEW pkt, NEW answer, DeviceInv, JustReply(pkt, answer), answer.ok \in BOOLEAN
  PROVE  DeviceInv'
BY DEF DeviceInv, TypeOK, ChipTypeOK, OnePacketEach, FlashRequestFits, WordsSoFarStored,
   FirmwareRunsWithFlagClear, JustReply, TakeRequest, Reply, chipVars

\* So does the reset request, but for the flag.
LEMMA HandleResetDeviceInv ==
  ASSUME NEW pkt, DeviceInv, HandleReset(pkt)
  PROVE  DeviceInv'
<1> USE DEF HandleReset
<1>1. bkp' \in BOOLEAN /\ dbp' \in BOOLEAN
  BY Zenon
<1>2. \A a \in inEp' : a.ok \in BOOLEAN
  <2>1. Answer(TRUE, Zero).ok \in BOOLEAN
    BY DEF Answer
  <2>2. inEp' = {Answer(TRUE, Zero)} \/ inEp' = inEp
    BY DEF Reply
  <2> QED
    BY <2>1, <2>2 DEF DeviceInv, TypeOK
<1>3. TypeOK'
  BY <1>1, <1>2 DEF DeviceInv, TypeOK, ChipTypeOK, Phases, TakeRequest
<1>4. OnePacketEach'
  BY DEF DeviceInv, OnePacketEach, TakeRequest
<1>5. WordsSoFarStored' /\ FirmwareRunsWithFlagClear'
  BY DEF WordsSoFarStored, FirmwareRunsWithFlagClear
<1> QED
  BY <1>3, <1>4, <1>5 DEF DeviceInv, FlashRequestFits

\* The handler's reply ends it.
LEMMA FinishDeviceInv ==
  ASSUME NEW answer, DeviceInv, FinishHandler(answer), answer.ok \in BOOLEAN,
         flash' \in [Index -> Words]
  PROVE  DeviceInv'
BY DEF DeviceInv, TypeOK, ChipTypeOK, OnePacketEach, FlashRequestFits, WordsSoFarStored,
   FirmwareRunsWithFlagClear, FinishHandler, Reply, Phases

LEMMA BootDeviceInv == DeviceInv /\ Boot => DeviceInv'
<1> SUFFICES ASSUME DeviceInv, Boot PROVE DeviceInv'
  OBVIOUS
<1> USE DEF DeviceInv, TypeOK, ChipTypeOK, OnePacketEach, FlashRequestFits, WordsSoFarStored,
            FirmwareRunsWithFlagClear, Phases, pipeVars
<1>1. CASE BootHeldByButton
  BY <1>1 DEF BootHeldByButton
<1>2. CASE BootByFlag
  BY <1>2 DEF BootByFlag
<1>3. CASE BootByContents
  <2>1. phase' \in {"firmware", "bootloader", "fault"}
    BY <1>3 DEF BootByContents, FirmwareCheck
  <2> QED
    BY <1>3, <2>1 DEF BootByContents
<1> QED
  BY <1>1, <1>2, <1>3 DEF Boot

LEMMA EraseDeviceInv ==
  DeviceInv /\ (ErasePageStep \/ EraseDone \/ \E pkt \in outEp : HandleErase(pkt)) => DeviceInv'
<1> SUFFICES ASSUME DeviceInv PROVE
      ErasePageStep \/ EraseDone \/ (\E pkt \in outEp : HandleErase(pkt)) => DeviceInv'
  OBVIOUS
<1>1. ASSUME NEW pkt \in outEp, HandleErase(pkt) PROVE DeviceInv'
  BY <1>1 DEF DeviceInv, TypeOK, ChipTypeOK, OnePacketEach, FlashRequestFits, WordsSoFarStored,
     FirmwareRunsWithFlagClear, HandleErase, TakeRequest, Phases
<1>2. CASE ErasePageStep
  <2>1. flash' \in [Index -> Words]
    BY <1>2, AloneAssumption DEF ErasePageStep, ErasePage, DeviceInv, TypeOK
  <2> QED
    BY <1>2, <2>1 DEF DeviceInv, TypeOK, ChipTypeOK, OnePacketEach, FlashRequestFits, WordsSoFarStored,
       FirmwareRunsWithFlagClear, ErasePageStep, pipeVars
<1>3. CASE EraseDone
  <2>1. Answer(Blank(flash), Zero).ok \in BOOLEAN
    BY Zenon DEF Answer, Blank
  <2>2. flash' \in [Index -> Words]
    BY <1>3 DEF EraseDone, DeviceInv, TypeOK
  <2> QED
    BY <1>3, <2>1, <2>2, FinishDeviceInv DEF EraseDone
<1> QED
  BY <1>1, <1>2, <1>3

\* The word at cur is stored where it belongs, and the words before it stay.
LEMMA ProgramWordDeviceInv == DeviceInv /\ ProgramWordStep => DeviceInv'
<1> SUFFICES ASSUME DeviceInv, ProgramWordStep PROVE DeviceInv'
  OBVIOUS
<1>1. PICK pkt \in req :
        /\ cur < Len(pkt.words)
        /\ \/ ~Programmable(pkt.arg + cur) /\ WordFails /\ UNCHANGED flash
           \/ WordInArea(pkt.arg + cur, pkt.words[cur + 1])
           \/ WordInFront(pkt.arg + cur)
  BY DEF ProgramWordStep
<1> DEFINE a == pkt.arg + cur
           w == pkt.words[cur + 1]
<1>2. pkt \in Requests /\ cur \in Nat /\ flash \in [Index -> Words]
  BY DEF DeviceInv, TypeOK, ChipTypeOK
<1>3. /\ pkt.arg \in Nat /\ Len(pkt.words) \in Nat
      /\ \A i \in 1..Len(pkt.words) : pkt.words[i] \in Words
  BY <1>2, RequestWords
<1>4. a \in Nat /\ w \in Words
  BY <1>1, <1>2, <1>3
<1>5. WordFails /\ flash' \in [Index -> Words] => DeviceInv'
  <2>1. Answer(FALSE, Zero).ok \in BOOLEAN
    BY DEF Answer
  <2> QED
    BY <2>1, FinishDeviceInv DEF WordFails
<1>6. ASSUME WordDone, flash' \in [Index -> Words],
             \A k \in 1..(cur + 1) : \A i \in Index :
               AddressOf(i) = Address(pkt.arg + k - 1) => flash'[i] = pkt.words[k]
      PROVE  DeviceInv'
  <2>1. WordsSoFarStored'
    BY <1>6 DEF WordDone, WordsSoFarStored, DeviceInv, OnePacketEach
  <2> QED
    BY <1>2, <1>6, <2>1 DEF WordDone, DeviceInv, TypeOK, ChipTypeOK, OnePacketEach,
       FlashRequestFits, FirmwareRunsWithFlagClear, pipeVars
<1>7. \A k \in 1..cur : \A i \in Index :
        AddressOf(i) = Address(pkt.arg + k - 1) => flash[i] = pkt.words[k]
  BY DEF DeviceInv, WordsSoFarStored, ProgramWordStep
<1>8. CASE ~Programmable(a) /\ WordFails /\ UNCHANGED flash
  BY <1>2, <1>5, <1>8
<1>9. CASE WordInArea(a, w)
  <2>0. PICK i \in Index : \E stored \in MayStore(flash[i], w) :
          /\ AddressOf(i) = Address(a)
          /\ flash' = [flash EXCEPT ![i] = stored]
          /\ IF ReadsBack(stored, w) THEN WordDone ELSE WordFails
    BY <1>9 DEF WordInArea
  <2>1. PICK stored \in MayStore(flash[i], w) :
          /\ AddressOf(i) = Address(a)
          /\ flash' = [flash EXCEPT ![i] = stored]
          /\ IF ReadsBack(stored, w) THEN WordDone ELSE WordFails
    BY <2>0
  <2>2. stored \in Words
    BY <1>2, <1>4, <2>1, MayStoreType
  <2>3. flash' \in [Index -> Words]
    BY <1>2, <2>1, <2>2
  <2>4. CASE ~ReadsBack(stored, w)
    BY <1>5, <2>1, <2>3, <2>4
  <2>5. CASE ReadsBack(stored, w)
    <3> SUFFICES ASSUME NEW k \in 1..(cur + 1), NEW j \in Index,
                        AddressOf(j) = Address(pkt.arg + k - 1)
                 PROVE  flash'[j] = pkt.words[k]
      BY <1>6, <2>1, <2>3, <2>5
    <3>1. CASE k = cur + 1
      <4>1. pkt.arg + k - 1 = a
        BY <3>1, <1>2, <1>3
      <4>2. AddressOf(j) = AddressOf(i)
        BY <4>1, <2>1
      <4>3. i = j
        BY <4>2, Layout, LayoutAssumption DEF AddressOf
      <4> QED
        BY <4>3, <3>1, <1>2, <2>1, <2>5 DEF ReadsBack
    <3>2. CASE k # cur + 1
      <4>1. k \in 1..cur /\ pkt.arg + k - 1 \in Nat
        BY <3>2, <1>2, <1>3
      <4>2. Address(pkt.arg + k - 1) # Address(a)
        <5>1. Len(pkt.words) <= PacketWords
          BY DEF DeviceInv, FlashRequestFits, ProgramWordStep
        <5>2. pkt.arg + k - 1 < a /\ a < (pkt.arg + k - 1) + PacketWords
          BY <5>1, <4>1, <1>1, <1>2, <1>3, BootloaderAssumption
        <5> QED
          BY <5>2, <4>1, <1>4, AddressesApart
      <4>3. j # i
        BY <4>2, <2>1
      <4> QED
        BY <4>1, <4>3, <1>2, <1>7, <2>1
    <3> QED
      BY <3>1, <3>2
  <2> QED
    BY <2>4, <2>5
<1>10. CASE WordInFront(a)
  <2>1. flash' = flash
    BY <1>10 DEF WordInFront
  <2>2. CASE WordFails
    BY <1>2, <1>5, <2>1, <2>2
  <2>3. CASE WordDone
    <3> SUFFICES ASSUME NEW k \in 1..(cur + 1), NEW j \in Index,
                        AddressOf(j) = Address(pkt.arg + k - 1)
                 PROVE  flash'[j] = pkt.words[k]
      BY <1>2, <1>6, <2>1, <2>3
    <3>1. AddressOf(j) >= AreaBegin
      BY Layout, LayoutAssumption DEF AddressOf
    <3>2. CASE k = cur + 1
      <4>1. pkt.arg + k - 1 = a
        BY <3>2, <1>2, <1>3
      <4> QED
        BY <4>1, <3>1, <1>10, LayoutAssumption, Layout DEF WordInFront, AddressOf
    <3>3. CASE k # cur + 1
      BY <3>3, <1>2, <1>7, <2>1
    <3> QED
      BY <3>2, <3>3
  <2>4. CASE /\ phase' \in {"fault", "damaged"}
             /\ UNCHANGED <<unlocked, bkp, dbp, req, cur, pipeVars>>
    BY <2>1, <2>4 DEF DeviceInv, TypeOK, ChipTypeOK, OnePacketEach, FlashRequestFits,
       WordsSoFarStored, FirmwareRunsWithFlagClear, Phases, pipeVars
  <2> QED
    BY <1>10, <2>2, <2>3, <2>4 DEF WordInFront
<1> QED
  BY <1>1, <1>8, <1>9, <1>10

LEMMA FlashDeviceInv ==
  DeviceInv /\ (ProgramDone \/ \E pkt \in outEp : HandleFlash(pkt)) => DeviceInv'
<1> SUFFICES ASSUME DeviceInv PROVE
      ProgramDone \/ (\E pkt \in outEp : HandleFlash(pkt)) => DeviceInv'
  OBVIOUS
<1>1. \A ok \in BOOLEAN : Answer(ok, Zero).ok \in BOOLEAN
  BY DEF Answer
<1>2. CASE ProgramDone
  BY <1>1, <1>2, FinishDeviceInv DEF ProgramDone, DeviceInv, TypeOK
<1>3. ASSUME NEW pkt \in outEp, HandleFlash(pkt) PROVE DeviceInv'
  <2>1. CASE JustReply(pkt, Answer(FALSE, Zero))
    BY <2>1, <1>1, JustReplyDeviceInv
  <2>2. CASE /\ TakeRequest(pkt)
             /\ phase' = "programming"
             /\ req' = {pkt} /\ cur' = 0
             /\ UNCHANGED <<usb, inEp, flash, unlocked, bkp, dbp>>
             /\ ~(Len(pkt.words) > PacketWords)
    <3>1. Len(pkt.words) <= PacketWords
      BY <2>2, RequestWords, BootloaderAssumption DEF DeviceInv, TypeOK
    <3> QED
      BY <2>2, <3>1 DEF DeviceInv, TypeOK, ChipTypeOK, OnePacketEach, FlashRequestFits,
         WordsSoFarStored, FirmwareRunsWithFlagClear, TakeRequest, Phases
  <2> QED
    BY <1>3, <2>1, <2>2 DEF HandleFlash
<1> QED
  BY <1>2, <1>3

LEMMA RequestDeviceInv == DeviceInv /\ (BootloaderRequest \/ FirmwareRequest) => DeviceInv'
<1> SUFFICES ASSUME DeviceInv, NEW pkt \in outEp PROVE
      \/ HandleInfo(pkt) \/ HandleErase(pkt) \/ HandleFlash(pkt) \/ HandleVerify(pkt)
      \/ HandleBootloader(pkt) \/ HandleReset(pkt) \/ HandleDebug(pkt) \/ HandleUnknown(pkt)
      \/ JustReply(pkt, FirmwareAnswer(pkt))
      => DeviceInv'
  BY DEF BootloaderRequest, FirmwareRequest
<1>1. \A ok \in BOOLEAN : \A data : Answer(ok, data).ok \in BOOLEAN
  BY DEF Answer
<1>2. CASE HandleInfo(pkt) \/ HandleDebug(pkt) \/ HandleUnknown(pkt) \/ HandleBootloader(pkt)
  BY <1>1, <1>2, JustReplyDeviceInv DEF HandleInfo, HandleDebug, HandleUnknown, HandleBootloader
<1>3. CASE HandleVerify(pkt)
  <2>1. CASE \E ok \in BOOLEAN : \E data : JustReply(pkt, Answer(ok, data))
    BY <1>1, <2>1, JustReplyDeviceInv
  <2>2. CASE /\ TakeRequest(pkt) /\ phase' = "fault"
             /\ UNCHANGED <<usb, inEp, flash, unlocked, bkp, dbp, req, cur>>
    BY <2>2 DEF DeviceInv, TypeOK, ChipTypeOK, OnePacketEach, FlashRequestFits,
       WordsSoFarStored, FirmwareRunsWithFlagClear, TakeRequest, Phases
  <2> QED
    BY <1>1, <1>3, <2>1, <2>2 DEF HandleVerify
<1>4. CASE JustReply(pkt, FirmwareAnswer(pkt))
  BY <1>1, <1>4, JustReplyDeviceInv DEF FirmwareAnswer
<1>5. CASE HandleReset(pkt)
  BY <1>5, HandleResetDeviceInv
<1>6. CASE HandleErase(pkt)
  BY <1>6, EraseDeviceInv
<1>7. CASE HandleFlash(pkt)
  BY <1>7, FlashDeviceInv
<1> QED
  BY <1>2, <1>3, <1>4, <1>5, <1>6, <1>7

\* What happens to the device from outside.
LEMMA OutsideDeviceInv ==
  DeviceInv /\ (Enumerate \/ SystemReset \/ PowerCycle \/ BusReset \/ Rollover) => DeviceInv'
<1> SUFFICES ASSUME DeviceInv PROVE
      Enumerate \/ SystemReset \/ PowerCycle \/ BusReset \/ Rollover => DeviceInv'
  OBVIOUS
<1>1. bkp \in BOOLEAN
  BY DEF DeviceInv, TypeOK, ChipTypeOK
<1>2. CASE SystemReset \/ Rollover
  BY <1>1, <1>2, RestartDeviceInv DEF SystemReset, Rollover
<1>3. CASE PowerCycle
  <2>1. bkp' \in BOOLEAN
    BY <1>1, <1>3 DEF PowerCycle
  <2> QED
    BY <2>1, <1>3, RestartDeviceInv DEF PowerCycle
<1>4. CASE Enumerate \/ BusReset
  <2>1. usb' \in BOOLEAN /\ outEp' = {} /\ inEp' = {} /\ UNCHANGED chipVars
    BY <1>4 DEF Enumerate, BusReset, PipeUp, PipeDown
  <2> QED
    BY <2>1 DEF DeviceInv, TypeOK, ChipTypeOK, OnePacketEach, FlashRequestFits, WordsSoFarStored,
       FirmwareRunsWithFlagClear, chipVars
<1> QED
  BY <1>2, <1>3, <1>4

\* Every step keeps the invariant.
LEMMA NextDeviceInv == DeviceInv /\ [Next]_deviceVars => DeviceInv'
<1> SUFFICES ASSUME DeviceInv, [Next]_deviceVars PROVE DeviceInv'
  OBVIOUS
<1>1. CASE BootloaderStep
  BY <1>1, BootDeviceInv, RequestDeviceInv, EraseDeviceInv, ProgramWordDeviceInv, FlashDeviceInv
     DEF BootloaderStep
<1>2. CASE FirmwareStep
  BY <1>2, RequestDeviceInv DEF FirmwareStep
<1>3. CASE Enumerate \/ SystemReset \/ PowerCycle \/ BusReset \/ Rollover
  BY <1>3, OutsideDeviceInv
<1>4. ASSUME NEW pkt \in Requests, Send(pkt) PROVE DeviceInv'
  BY <1>4 DEF DeviceInv, TypeOK, ChipTypeOK, OnePacketEach, FlashRequestFits, WordsSoFarStored,
     FirmwareRunsWithFlagClear, Send, chipVars
<1>5. CASE Collect
  BY <1>5 DEF DeviceInv, TypeOK, ChipTypeOK, OnePacketEach, FlashRequestFits, WordsSoFarStored,
     FirmwareRunsWithFlagClear, Collect, chipVars
<1>6. CASE UNCHANGED deviceVars
  BY <1>6 DEF DeviceInv, TypeOK, ChipTypeOK, OnePacketEach, FlashRequestFits, WordsSoFarStored,
     FirmwareRunsWithFlagClear, deviceVars, chipVars, pipeVars
<1> QED
  BY <1>1, <1>2, <1>3, <1>4, <1>5, <1>6 DEF Next, DeviceStep

-----------------------------------------------------------------------------

\* The variables keep their types: the flash never gets a word that is not in
\* a request or erased, and no handler leaves the processor in a state that
\* the others do not know.
THEOREM TypeSafe == Spec => []TypeOK
<1>1. DeviceInv => TypeOK
  BY DEF DeviceInv
<1> QED
  BY <1>1, InitDeviceInv, NextDeviceInv, PTL DEF Spec

\* A flash request that is acknowledged has stored all its words.
THEOREM AcknowledgedWordsAreStored == Spec => []WordsSoFarStored
<1>1. DeviceInv => WordsSoFarStored
  BY DEF DeviceInv
<1> QED
  BY <1>1, InitDeviceInv, NextDeviceInv, PTL DEF Spec

\* The firmware never runs when the bootloader was asked for.
THEOREM FlagKeepsFirmwareOut == Spec => []FirmwareRunsWithFlagClear
<1>1. DeviceInv => FirmwareRunsWithFlagClear
  BY DEF DeviceInv
<1> QED
  BY <1>1, InitDeviceInv, NextDeviceInv, PTL DEF Spec

\* The sum wraps for every count that the bound should have stopped.
LEMMA RunsOffOnlyOnWraps ==
  ASSUME NEW n \in Nat, ~VerifyRefused(n), n > ProgramWords
  PROVE  Wraps(n)
<1>1. AreaBegin + 4 * n > AreaEnd
  BY LayoutAssumption DEF AreaEnd
<1> QED
  BY <1>1, UnwrappedAddress DEF VerifyRefused

\* The requests that stop the processor.
LEMMA RequestStopsOnlyOnWraps ==
  ASSUME DeviceInv, BootloaderRequest \/ FirmwareRequest, phase' \in Stopped, phase \notin Stopped
  PROVE  \E pkt \in outEp : Wraps(pkt.arg + Len(pkt.words))
<1>1. PICK pkt \in outEp :
        \/ HandleInfo(pkt) \/ HandleErase(pkt) \/ HandleFlash(pkt) \/ HandleVerify(pkt)
        \/ HandleBootloader(pkt) \/ HandleReset(pkt) \/ HandleDebug(pkt) \/ HandleUnknown(pkt)
        \/ JustReply(pkt, FirmwareAnswer(pkt))
  BY DEF BootloaderRequest, FirmwareRequest
<1>2. ASSUME NEW answer, JustReply(pkt, answer) PROVE FALSE
  BY <1>2 DEF JustReply, chipVars
<1>3. HandleVerify(pkt)
  BY <1>1, <1>2 DEF HandleInfo, HandleErase, HandleFlash, HandleBootloader, HandleReset,
     HandleDebug, HandleUnknown, Stopped
<1>4. ~VerifyRefused(pkt.arg) /\ pkt.arg > ProgramWords
  BY <1>2, <1>3 DEF HandleVerify
<1>5. pkt.arg \in Nat /\ Len(pkt.words) \in Nat
  BY RequestWords DEF DeviceInv, TypeOK
<1> QED
  BY <1>4, <1>5, RunsOffOnlyOnWraps, LayoutAssumption DEF Wraps

\* The words that are written where they do not belong.
LEMMA WordStopsOnlyOnWraps ==
  ASSUME DeviceInv, ProgramWordStep, phase' \in Stopped, phase \notin Stopped
  PROVE  \E pkt \in req : Wraps(pkt.arg + Len(pkt.words))
<1>1. PICK pkt \in req :
        /\ cur < Len(pkt.words)
        /\ \/ ~Programmable(pkt.arg + cur) /\ WordFails /\ UNCHANGED flash
           \/ WordInArea(pkt.arg + cur, pkt.words[cur + 1])
           \/ WordInFront(pkt.arg + cur)
  BY DEF ProgramWordStep
<1>2. ~WordFails /\ ~WordDone
  BY DEF WordFails, FinishHandler, WordDone, Stopped
<1>3. Address(pkt.arg + cur) < AreaBegin
  BY <1>1, <1>2 DEF WordInArea, WordInFront
<1>4. pkt.arg \in Nat /\ Len(pkt.words) \in Nat /\ cur \in Nat
  BY RequestWords DEF DeviceInv, TypeOK, ChipTypeOK
<1>5. Wraps(pkt.arg + cur)
  BY <1>3, <1>4, UnwrappedAddress, LayoutAssumption DEF Address
<1> QED
  BY <1>1, <1>4, <1>5, LayoutAssumption DEF Wraps

\* A request whose count and addresses fit in 32 bits neither stops the
\* processor nor reaches the bootloader's own code.
THEOREM RequestsInRangeAreSafe == Spec => StopsOnlyOnWraps
<1>1. ASSUME DeviceInv, [Next]_deviceVars PROVE
        [phase' \in Stopped /\ phase \notin Stopped =>
           \/ phase = "boot" /\ LengthIsWild(flash)
           \/ \E pkt \in outEp \cup req : Wraps(pkt.arg + Len(pkt.words))]_deviceVars
  <2> SUFFICES ASSUME Next, phase' \in Stopped, phase \notin Stopped PROVE
        \/ phase = "boot" /\ LengthIsWild(flash)
        \/ \E pkt \in outEp \cup req : Wraps(pkt.arg + Len(pkt.words))
    BY <1>1
  <2>1. CASE Boot
    <3>1. BootByContents /\ phase' = "fault"
      BY <2>1 DEF Boot, BootHeldByButton, BootByFlag, BootByContents, Stopped, FirmwareCheck
    <3> QED
      BY <3>1 DEF BootByContents, FirmwareCheck
  <2>2. CASE BootloaderRequest \/ FirmwareRequest
    BY <1>1, <2>2, RequestStopsOnlyOnWraps
  <2>3. CASE ProgramWordStep
    BY <1>1, <2>3, WordStopsOnlyOnWraps
  <2>4. CASE ErasePageStep \/ EraseDone \/ ProgramDone
    BY <2>4 DEF ErasePageStep, EraseDone, ProgramDone, FinishHandler, Stopped
  <2>5. CASE Enumerate \/ SystemReset \/ PowerCycle \/ BusReset \/ Rollover
    BY <2>5 DEF Enumerate, SystemReset, PowerCycle, BusReset, Rollover, Restart,
       chipVars, Stopped
  <2>6. CASE Collect \/ \E pkt \in Requests : Send(pkt)
    BY <2>6 DEF Collect, Send, chipVars
  <2> QED
    BY <2>1, <2>2, <2>3, <2>4, <2>5, <2>6
       DEF Next, DeviceStep, BootloaderStep, FirmwareStep
<1> QED
  BY <1>1, InitDeviceInv, NextDeviceInv, PTL DEF Spec, StopsOnlyOnWraps
=============================================================================
