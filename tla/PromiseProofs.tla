---------------------------- MODULE PromiseProofs ----------------------------
(***************************************************************************)
(* The update path keeps the promise of SafeUpdate, step by step.          *)
(* The flash determines what is stored, since no area holds two programs.  *)
(* It changes while a page is erased or a word is programmed, and then     *)
(* nothing runs and nothing was reported.  A page that is erased leaves    *)
(* the program that was there or none, because all words of the area       *)
(* belong to one image (OneImage); a word that is programmed goes into an  *)
(* area that holds no program, because the beginning of an image holds     *)
(* none until it is the whole image.                                       *)
(***************************************************************************)
EXTENDS SuccessProofs

-----------------------------------------------------------------------------
(* What an area holds.                                                      *)

\* Programs with the same CRC are the same.
LEMMA SameCrc ==
  ASSUME NEW p \in Programs, NEW q \in Programs, Len(p) # 0, Len(q) # 0,
         CrcOf(p, Len(p)) = CrcOf(q, Len(q)), Len(p) = Len(q)
  PROVE  p = q
<1>1. Prefix(p, Len(p)) = Prefix(q, Len(q))
  BY DEF CrcOf
<1>2. p \in Seq(NumWord) /\ q \in Seq(NumWord)
  BY HostAssumption
<1>3. \A i \in 1..Len(p) : p[i] = q[i]
  <2>1. \A i \in 1..Len(p) : Prefix(p, Len(p))[i] = p[i]
    BY DEF Prefix
  <2>2. \A i \in 1..Len(q) : Prefix(q, Len(q))[i] = q[i]
    BY DEF Prefix
  <2> QED
    BY <1>1, <2>1, <2>2
<1> QED
  BY <1>2, <1>3, SeqEqual

\* The beginning of an image holds no program but its own, and that only when
\* it is all there.
LEMMA WrittenHolds ==
  ASSUME NEW p \in Accepted, ~PhantomTrailer(p), NEW k \in 0..(Len(p) + 3),
         NEW q \in Programs, Holds(Written(p, k), q)
  PROVE  k = Len(p) + 3 /\ q = p
<1> DEFINE L == Len(p)
           M == Len(q)
<1>1. /\ p \in Programs /\ FitsHostLimit(p) /\ FitsHostLimit(q)
      /\ L \in Nat /\ M \in Nat /\ k \in Nat /\ k <= L + 3
      /\ M + 3 \in Index /\ M + 2 \in Index /\ M + 1 \in Index
  BY BufferWords DEF Accepted, Holds
<1>2. \A i \in Index : Buffer(q)[i] = IF i <= k THEN Image(p)[i] ELSE Erased
  BY DEF Holds, Written
<1>3. M + 3 <= k /\ Image(p)[M + 3] = Zero
  BY <1>1, <1>2, BufferWords, WordKinds
<1>4. Image(p)[M + 2] = CrcOf(q, M) /\ Image(p)[M + 1] = Num(M)
  <2>1. M + 2 <= k /\ M + 1 <= k
    BY <1>1, <1>3
  <2> QED
    BY <1>1, <1>2, <2>1, BufferWords
<1>5. M <= L
  BY <1>1, <1>3
<1>6. CASE M = L
  <2>1. k = L + 3
    BY <1>1, <1>3, <1>6
  <2>2. \A i \in 1..L : p[i] = q[i]
    <3> SUFFICES ASSUME NEW i \in 1..L PROVE p[i] = q[i]
      OBVIOUS
    <3>1. i \in Index /\ i <= k /\ Buffer(q)[i] = q[i]
      BY <1>1, <1>6, <2>1, BufferWords
    <3>2. Image(p)[i] = p[i]
      BY <1>1, ImageWords
    <3> QED
      BY <1>2, <3>1, <3>2
  <2>3. p \in Seq(NumWord) /\ q \in Seq(NumWord)
    BY <1>1, HostAssumption
  <2> QED
    BY <1>6, <2>1, <2>2, <2>3, SeqEqual
<1>7. CASE M + 1 = L
  <2>1. M + 3 = L + 2 /\ L # 0
    BY <1>1, <1>7
  <2>2. Image(p)[L + 2] = CrcOf(p, L)
    BY <1>1, ImageWords
  <2>3. CrcOf(p, L) = Num(0)
    BY <1>3, <2>1, <2>2 DEF Zero
  <2>4. CrcOf(p, L) # Num(0)
    BY <2>1, WordKinds
  <2> QED
    BY <2>3, <2>4
<1>8. CASE M + 2 = L
  <2>1. M + 3 = L + 1 /\ L # 0
    BY <1>1, <1>8
  <2>2. Image(p)[L + 1] = Num(L)
    BY <1>1, ImageWords
  <2>3. Num(L) = Num(0)
    BY <1>3, <2>1, <2>2 DEF Zero
  <2>4. L = 0
    BY <2>3, WordKinds
  <2> QED
    BY <2>1, <2>4
<1>9. CASE M + 3 <= L
  <2>1. M + 1 \in 1..L /\ M + 2 \in 1..L /\ M + 3 \in 1..L
    BY <1>1, <1>9
  <2>2. p[M + 3] = Zero /\ p[M + 2] = CrcOf(q, M) /\ p[M + 1] = Num(M)
    BY <1>1, <1>3, <1>4, <2>1, ImageWords
  <2>3. PICK n : p[M + 2] = Num(n)
    BY <1>1, <2>1, ImageWords DEF NumWord
  <2>4. M = 0
    BY <2>2, <2>3, WordKinds
  <2>5. p[1] = Num(0) /\ p[2] = Erased /\ p[3] = Zero /\ 3 \in 3..L
    BY <1>1, <2>1, <2>2, <2>4, WordKinds
  <2>6. p[1][2] = 0 /\ CrcOf(p, 0) = Erased
    BY <2>5, WordKinds DEF Num
  <2>7. PhantomTrailer(p)
    <3>1. 3 - 2 = 1 /\ 3 - 1 = 2 /\ 0 <= ProgramWords
      BY Layout
    <3> QED
      BY <2>5, <2>6, <3>1 DEF PhantomTrailer
  <2> QED
    BY <2>7
<1> QED
  BY <1>1, <1>5, <1>6, <1>7, <1>8, <1>9

\* No area holds two programs.
LEMMA HoldsOne ==
  ASSUME NoPhantoms, NEW area, NEW p \in Programs, NEW q \in Programs,
         Holds(area, p), Holds(area, q)
  PROVE  p = q
<1>1. p \in Accepted /\ Len(p) \in Nat
  BY ImageWords DEF Accepted, Holds
<1>2. area = Written(p, Len(p) + 3)
  BY <1>1, WrittenAll DEF Holds
<1>3. Len(p) + 3 \in 0..(Len(p) + 3)
  BY <1>1
<1> QED
  BY <1>1, <1>2, <1>3, WrittenHolds DEF NoPhantoms

LEMMA StoredIs ==
  ASSUME NoPhantoms, NEW p \in Programs, Holds(flash, p)
  PROVE  StoredProgram = p
<1>1. HoldsAProgram
  BY DEF HoldsAProgram
<1>2. (CHOOSE q \in Programs : Holds(flash, q)) = p
  <2>1. \A q \in Programs : Holds(flash, q) => q = p
    BY HoldsOne
  <2> QED
    BY <2>1
<1> QED
  BY <1>1, <1>2 DEF StoredProgram

-----------------------------------------------------------------------------
(* What is stored changes only while the area is written.                   *)

\* The bad case of erasing: a page that is erased takes the words behind a
\* shorter program away.  It cannot be, as all words belong to one image.
LEMMA ErasingRevealsNothing ==
  ASSUME OneImage, flash' = ErasePage(flash, cur), flash'[1] = Erased,
         NEW p \in Programs, Holds(flash', p), flash = [i \in Index |-> flash[i]]
  PROVE  Holds(flash, p)
<1> DEFINE L == Len(p)
<1>1. FitsHostLimit(p) /\ L \in Nat /\ L + 2 \in Index /\ flash' = Buffer(p)
  BY BufferWords DEF Holds
<1>2. \A i \in Index : flash'[i] = Erased \/ flash'[i] = flash[i]
  BY DEF ErasePage
<1>3. L # 0
  <2> SUFFICES ASSUME L = 0 PROVE FALSE
    OBVIOUS
  <2>1. Buffer(p)[L + 1] = Num(0) /\ L + 1 = 1
    BY <1>1, BufferWords
  <2>2. Num(0) = Erased
    BY <1>1, <2>1
  <2> QED
    BY <2>2, WordKinds DEF Zero
<1>4. flash[L + 2] = CrcOf(p, L) /\ CrcOf(p, L) # Erased
  <2>1. Buffer(p)[L + 2] = CrcOf(p, L)
    BY <1>1, BufferWords
  <2>2. CrcOf(p, L) # Erased
    BY <1>3, WordKinds DEF Erased
  <2> QED
    BY <1>1, <1>2, <2>1, <2>2
<1>5. PICK r \in Accepted : \A i \in Index : flash[i] \in {Erased, Buffer(r)[i]}
  BY <1>1, <1>4 DEF OneImage
<1>6. r \in Programs /\ FitsHostLimit(r) /\ Len(r) \in Nat
  BY BufferWords DEF Accepted
<1>7. Buffer(r)[L + 2] = CrcOf(p, L)
  BY <1>1, <1>4, <1>5
<1>8. L + 2 = Len(r) + 2 /\ Len(r) # 0
  BY <1>1, <1>3, <1>6, <1>7, OnlyOneCrc
<1>9. Len(r) = L
  BY <1>1, <1>6, <1>8
<1>10. CrcOf(r, Len(r)) = CrcOf(p, L)
  BY <1>6, <1>7, <1>8, BufferWords
<1>11. r = p
  BY <1>3, <1>6, <1>8, <1>9, <1>10, SameCrc
<1>12. \A i \in Index : flash[i] = Buffer(p)[i]
  BY <1>1, <1>2, <1>5, <1>11
<1>13. flash = [i \in Index |-> Buffer(p)[i]]
  BY <1>12
<1>14. Buffer(p) = [i \in Index |-> Buffer(p)[i]]
  BY DEF Buffer
<1> QED
  BY <1>1, <1>13, <1>14 DEF Holds

LEMMA WrittenIsOneImage ==
  ASSUME NEW p \in Accepted, NEW k \in Nat, k <= Len(p) + 3, flash' = Written(p, k)
  PROVE  OneImage'
<1>1. Len(p) \in Nat
  BY ImageWords DEF Accepted
<1>2. ASSUME NEW i \in Index PROVE flash'[i] \in {Erased, Buffer(p)[i]}
  <2>1. i \in Nat
    BY Layout DEF Index
  <2>2. CASE i <= k
    <3>1. i <= Len(p) + 3
      BY <1>1, <2>1, <2>2
    <3> QED
      BY <2>2, <3>1 DEF Written, Buffer
  <2>3. CASE ~(i <= k)
    BY <2>3 DEF Written
  <2> QED
    BY <2>2, <2>3
<1> QED
  BY <1>2 DEF OneImage, Accepted

\* A word that is programmed is the next one of an image, and makes it longer.
LEMMA ProgramWordWrites ==
  ASSUME UpdateInv, "wear" \notin Disruptions, ProgramWordStep
  PROVE  \/ UNCHANGED flash
         \/ \E p \in Accepted : \E k \in Nat :
              /\ k + 1 <= Len(p) + 3 /\ k \in 0..(Len(p) + 3) /\ k # Len(p) + 3
              /\ flash = Written(p, k) /\ flash' = Written(p, k + 1)
<1>1. PICK pkt \in req :
        /\ cur < Len(pkt.words)
        /\ IF ~Programmable(pkt.arg + cur)
           THEN FinishHandler(Answer(FALSE, Zero)) /\ UNCHANGED flash
           ELSE \E stored \in MayStore(flash[pkt.arg + cur + 1], pkt.words[cur + 1]) :
                  /\ flash' = [flash EXCEPT ![pkt.arg + cur + 1] = stored]
                  /\ IF ReadsBack(stored, pkt.words[cur + 1])
                     THEN /\ cur' = cur + 1
                          /\ UNCHANGED <<phase, unlocked, bkp, dbp, req, pipeVars>>
                     ELSE FinishHandler(Answer(FALSE, Zero))
  <2>1. PICK pkt \in req :
          /\ cur < Len(pkt.words)
          /\ \/ ~Programmable(pkt.arg + cur) /\ WordFails /\ UNCHANGED flash
             \/ WordInArea(pkt.arg + cur, pkt.words[cur + 1])
             \/ WordInFront(pkt.arg + cur)
    BY DEF ProgramWordStep
  <2>2. PICK p \in Accepted : Writes(pkt, p)
    BY <2>1 DEF ProgramWordStep, UpdateInv, Programming, Shape
  <2>3. pkt.arg \in Nat /\ cur \in Nat /\ Chunk(pkt, p)
    BY <2>2 DEF Writes, Chunk, UpdateInv, Shape
  <2>4. pkt.arg + cur < ProgramWords
    BY <2>1, <2>3, ChunkInArea
  <2> QED
    BY <2>1, <2>3, <2>4, WordInItsPlace
<1>2. phase = "programming"
  BY DEF ProgramWordStep
<1>3. PICK p \in Accepted : Writes(pkt, p)
  BY <1>2 DEF UpdateInv, Programming, Shape
<1>4. CASE ~Programmable(pkt.arg + cur)
  BY <1>1, <1>4
<1>5. CASE Programmable(pkt.arg + cur)
  <2> DEFINE k == pkt.arg + cur
  <2>1. /\ k \in Nat /\ k + 1 <= ChunkEnd(pkt) /\ ChunkEnd(pkt) <= Len(p) + 3
        /\ Len(p) \in Nat /\ flash[k + 1] = Erased /\ unlocked /\ flash = Written(p, k)
        /\ [flash EXCEPT ![k + 1] = pkt.words[cur + 1]] = Written(p, k + 1)
    BY <1>1, <1>3, NextWord DEF Writes, UpdateInv, Shape
  <2>2. MayStore(flash[k + 1], pkt.words[cur + 1]) = {pkt.words[cur + 1]}
    BY <2>1 DEF MayStore, Programmed
  <2>3. flash' = Written(p, k + 1)
    BY <1>1, <1>5, <2>1, <2>2
  <2>4. ChunkEnd(pkt) \in Nat
    BY <1>3, BootloaderAssumption DEF Writes, Chunk, ChunkEnd
  <2> HIDE DEF k
  <2>5. k + 1 <= Len(p) + 3 /\ k \in 0..(Len(p) + 3) /\ k # Len(p) + 3
    BY <2>1, <2>4
  <2> QED
    BY <2>1, <2>3, <2>5
<1> QED
  BY <1>4, <1>5

-----------------------------------------------------------------------------
(* The steps.                                                               *)

\* All that the steps are judged by.
PromiseInv == UpdateInv /\ SuccessInv /\ OneImage

\* Only two actions write to the area.
LEMMA FlashStays ==
  ASSUME [Next]_vars
  PROVE  UNCHANGED flash \/ (Device /\ (ErasePageStep \/ ProgramWordStep))
<1>1. CASE UNCHANGED vars
  BY <1>1 DEF vars, deviceVars, chipVars
<1>2. CASE Host
  BY <1>2 DEF Host, chipVars
<1>3. CASE Device
  <2>1. CASE Boot
    BY <2>1 DEF Boot, BootHeldByButton, BootByFlag, BootByContents
  <2>2. CASE FirmwareStep
    BY <2>2 DEF FirmwareStep, FirmwareRequest, HandleReset, JustReply, chipVars
  <2>3. CASE BootloaderRequest
    BY <2>3 DEF BootloaderRequest, HandleInfo, HandleErase, HandleFlash, HandleVerify,
                HandleBootloader, HandleReset, HandleDebug, HandleUnknown, JustReply, chipVars
  <2>4. CASE EraseDone \/ ProgramDone
    BY <2>4 DEF EraseDone, ProgramDone
  <2>5. CASE Enumerate \/ BusReset
    BY <2>5 DEF Enumerate, BusReset, chipVars
  <2>6. CASE SystemReset \/ PowerCycle \/ Rollover
    BY <2>6 DEF SystemReset, PowerCycle, Rollover, Restart
  <2> QED
    BY <1>3, <2>1, <2>2, <2>3, <2>4, <2>5, <2>6 DEF Device, DeviceStep, BootloaderStep
<1> QED
  BY <1>1, <1>2, <1>3 DEF Next

\* Erasing erases the first page first.
LEMMA ErasePageStepErases ==
  ASSUME UpdateInv, UpdateInv', "wear" \notin Disruptions, ErasePageStep
  PROVE  flash' = ErasePage(flash, cur) /\ flash'[1] = Erased
<1>1. flash' = ErasePage(flash, cur) /\ cur' = cur + 1 /\ phase' = "erasing" /\ cur \in Nat
  BY DEF ErasePageStep, UpdateInv, Shape
<1>2. 1 \in Index /\ 1 <= (cur + 1) * PageWords
  <2>1. cur * PageWords \in Nat /\ (cur + 1) * PageWords = cur * PageWords + PageWords
    BY <1>1, PageWordsBelow
  <2> QED
    BY <2>1, Layout DEF Index
<1>3. \A i \in Index : i <= (cur + 1) * PageWords => flash'[i] = Erased
  BY <1>1 DEF UpdateInv, Erasing
<1> QED
  BY <1>1, <1>2, <1>3

LEMMA OneImageStays ==
  ASSUME PromiseInv, UpdateInv', "wear" \notin Disruptions, [Next]_vars
  PROVE  OneImage'
<1>1. CASE UNCHANGED flash
  BY <1>1 DEF PromiseInv, OneImage, Accepted
<1>2. CASE ErasePageStep
  <2>1. \A i \in Index : flash'[i] = Erased \/ flash'[i] = flash[i]
    BY <1>2, ErasePageStepErases DEF PromiseInv, ErasePage
  <2> QED
    BY <2>1 DEF PromiseInv, OneImage, Accepted
<1>3. CASE ProgramWordStep
  <2>1. CASE \E p \in Accepted : \E k \in Nat :
               /\ k + 1 <= Len(p) + 3 /\ k \in 0..(Len(p) + 3) /\ k # Len(p) + 3
               /\ flash = Written(p, k) /\ flash' = Written(p, k + 1)
    <3>1. PICK p \in Accepted, k \in Nat :
            k + 1 <= Len(p) + 3 /\ flash' = Written(p, k + 1)
      BY <2>1
    <3>2. k + 1 \in Nat
      OBVIOUS
    <3> QED
      BY <3>1, <3>2, WrittenIsOneImage
  <2> QED
    BY <1>1, <1>3, <2>1, ProgramWordWrites DEF PromiseInv
<1> QED
  BY <1>1, <1>2, <1>3, FlashStays

\* A step that leaves the area alone leaves the stored program alone.
LEMMA StoredStays ==
  ASSUME UNCHANGED flash
  PROVE  StoredProgram' = StoredProgram /\ HoldsAProgram' = HoldsAProgram
BY DEF StoredProgram, HoldsAProgram

\* The program that the user was told of.
Told == IF report = "installed" THEN prog ELSE <<"nothing">>

LEMMA DeviceOutsideWriting ==
  ASSUME UpdateInv', Device, UNCHANGED flash
  PROVE  [Promise!Next]_(Promise!safeVars)
<1>1. StoredProgram' = StoredProgram /\ HoldsAProgram' = HoldsAProgram
  BY StoredStays
<1>2. Told' = Told
  BY DEF Device, Told
<1>3. CASE phase' # "firmware"
  <2>1. RunningProgram' = <<"nothing">>
    BY <1>3 DEF RunningProgram
  <2>2. Promise!Stop
    BY <1>1, <1>2, <2>1 DEF Promise!Stop, Told
  <2> QED
    BY <2>2 DEF Promise!Next
<1>4. CASE phase' = "firmware" /\ phase # "firmware"
  <2>1. HoldsAProgram
    BY <1>1, <1>4 DEF UpdateInv, RunsOnlyCompleteFirmware
  <2>2. StoredProgram \in Programs
    BY <2>1 DEF StoredProgram, HoldsAProgram
  <2>3. RunningProgram' = StoredProgram /\ RunningProgram = <<"nothing">>
    BY <1>1, <1>4, <2>1 DEF RunningProgram
  <2>4. Promise!Start
    BY <1>1, <1>2, <2>2, <2>3 DEF Promise!Start, Told
  <2> QED
    BY <2>4 DEF Promise!Next
<1>5. CASE phase' = "firmware" /\ phase = "firmware"
  <2>1. RunningProgram' = RunningProgram
    BY <1>1, <1>5 DEF RunningProgram
  <2> QED
    BY <1>1, <1>2, <2>1 DEF Promise!safeVars, Told
<1> QED
  BY <1>3, <1>4, <1>5

LEMMA DeviceWrites ==
  ASSUME NoPhantoms, "wear" \notin Disruptions, PromiseInv, UpdateInv',
         Device, ErasePageStep \/ ProgramWordStep, ~UNCHANGED flash
  PROVE  [Promise!Next]_(Promise!safeVars)
<1>1. phase \in {"erasing", "programming"} /\ phase' # "firmware"
  BY WordStepOutline DEF ErasePageStep, FinishHandler
<1>2. RunningProgram = <<"nothing">> /\ RunningProgram' = <<"nothing">>
  BY <1>1 DEF RunningProgram
<1>3. Told = <<"nothing">> /\ Told' = <<"nothing">>
  <2>1. report # "installed"
    BY <1>1 DEF PromiseInv, SuccessInv, StaysInstalled, Installed, Quiet
  <2> QED
    BY <2>1 DEF Device, Told
<1>4. CASE ErasePageStep
  <2>1. CASE ~HoldsAProgram'
    <3>1. StoredProgram' = <<"nothing">>
      BY <2>1 DEF StoredProgram
    <3>2. Promise!Remove
      BY <1>2, <1>3, <3>1 DEF Promise!Remove, Told
    <3> QED
      BY <3>2 DEF Promise!Next
  <2>2. CASE HoldsAProgram'
    <3>1. PICK p \in Programs : Holds(flash', p)
      BY <2>2 DEF HoldsAProgram
    <3>2. Holds(flash, p)
      BY <1>4, <3>1, ErasePageStepErases, ErasingRevealsNothing
         DEF PromiseInv, UpdateInv, Shape
    <3>3. flash' = flash
      BY <3>1, <3>2 DEF Holds
    <3> QED
      BY <3>3
  <2> QED
    BY <2>1, <2>2
<1>5. CASE ProgramWordStep
  <2>1. PICK p \in Accepted, k \in Nat :
          /\ k + 1 <= Len(p) + 3 /\ k \in 0..(Len(p) + 3) /\ k # Len(p) + 3
          /\ flash = Written(p, k) /\ flash' = Written(p, k + 1)
    BY <1>5, ProgramWordWrites DEF PromiseInv
  <2>2. ~HoldsAProgram
    BY <2>1, WrittenHolds DEF HoldsAProgram, NoPhantoms, Accepted
  <2>3. StoredProgram = <<"nothing">>
    BY <2>2 DEF StoredProgram
  <2>4. CASE HoldsAProgram'
    <3>1. PICK q \in Programs : StoredProgram' = q
      <4>1. \E q \in Programs : Holds(flash', q)
        BY <2>4 DEF HoldsAProgram
      <4>2. StoredProgram' = CHOOSE q \in Programs : Holds(flash', q)
        BY <2>4 DEF StoredProgram
      <4> QED
        BY <4>1, <4>2
    <3>2. Promise!Complete(q)
      BY <1>2, <1>3, <2>3, <3>1 DEF Promise!Complete, Told
    <3> QED
      BY <3>2 DEF Promise!Next
  <2>5. CASE ~HoldsAProgram'
    <3>1. StoredProgram' = <<"nothing">>
      BY <2>5 DEF StoredProgram
    <3> QED
      BY <1>2, <1>3, <2>3, <3>1 DEF Promise!safeVars, Told
  <2> QED
    BY <2>4, <2>5
<1> QED
  BY <1>4, <1>5

LEMMA HostTells ==
  ASSUME NoPhantoms, UpdateInv', SuccessInv', Host
  PROVE  [Promise!Next]_(Promise!safeVars)
<1>1. UNCHANGED <<flash, phase>>
  BY DEF Host, chipVars
<1>2. StoredProgram' = StoredProgram /\ RunningProgram' = RunningProgram
  BY <1>1, StoredStays DEF RunningProgram
<1>3. CASE report' = "installed"
  <2>1. prog' \in Programs /\ Holds(flash, prog')
    BY <1>1, <1>3 DEF UpdateInv, Shape, SuccessInv, StaysInstalled, Installed
  <2>2. Told' = StoredProgram
    BY <1>3, <2>1, StoredIs DEF Told
  <2>3. Promise!Tell
    BY <1>2, <2>2 DEF Promise!Tell, Told
  <2> QED
    BY <2>3 DEF Promise!Next
<1>4. CASE report' # "installed"
  <2>1. Told' = <<"nothing">>
    BY <1>4 DEF Told
  <2>2. Promise!Forget
    BY <1>2, <2>1 DEF Promise!Forget, Told
  <2> QED
    BY <2>2 DEF Promise!Next
<1> QED
  BY <1>3, <1>4

LEMMA StutterKeepsPromise ==
  ASSUME UNCHANGED vars
  PROVE  UNCHANGED Promise!safeVars
<1>1. UNCHANGED <<flash, phase, report, prog>>
  BY DEF vars, deviceVars, chipVars, hostVars
<1>2. StoredProgram' = StoredProgram
  BY <1>1, StoredStays
<1> QED
  BY <1>1, <1>2, StoredStays DEF Promise!safeVars, RunningProgram

LEMMA InitKeepsPromise ==
  ASSUME Init
  PROVE  Promise!Init /\ OneImage
<1>1. phase = "boot" /\ report = "none"
  BY DEF Init, ChipInit, HostInit
<1>2. StoredProgram \in Programs \cup {<<"nothing">>}
  <2>1. CASE HoldsAProgram
    <3>1. \E p \in Programs : Holds(flash, p)
      BY <2>1 DEF HoldsAProgram
    <3> QED
      BY <2>1, <3>1 DEF StoredProgram
  <2>2. CASE ~HoldsAProgram
    BY <2>2 DEF StoredProgram
  <2> QED
    BY <2>1, <2>2
<1>3. Promise!Init
  BY <1>1, <1>2 DEF Promise!Init, RunningProgram
<1>4. OneImage
  <2>1. PICK c \in Contents : flash = c
    BY DEF Init, ChipInit
  <2>2. CASE c = [i \in Index |-> Erased]
    <3>1. \A i \in Index : flash[i] = Erased
      BY <2>1, <2>2
    <3> QED
      BY <3>1 DEF OneImage
  <2>3. CASE \E p \in Programs : Holds(c, p)
    <3>1. PICK p \in Programs : FitsHostLimit(p) /\ flash = Buffer(p)
      BY <2>1, <2>3 DEF Holds
    <3>2. p \in Accepted /\ \A i \in Index : flash[i] \in {Erased, Buffer(p)[i]}
      BY <3>1 DEF Accepted
    <3> QED
      BY <3>2 DEF OneImage
  <2> QED
    BY <2>1, <2>2, <2>3, UpdateAssumption
<1> QED
  BY <1>3, <1>4

-----------------------------------------------------------------------------

\* All words of the area belong to one image, with the invariants of the two
\* modules before.
THEOREM NoMixture ==
  ASSUME "wear" \notin Disruptions, EndWord # Zero, NoPhantoms
  PROVE  Spec => []PromiseInv
<1>1. Init => OneImage
  BY InitKeepsPromise
<1>2. PromiseInv /\ UpdateInv' /\ [Next]_vars => OneImage'
  BY OneImageStays
<1>3. PromiseInv <=> UpdateInv /\ SuccessInv /\ OneImage
  BY DEF PromiseInv
<1> QED
  BY <1>1, <1>2, <1>3, UpdateIsOrdered, OldRepliesAreUsedUp, PTL DEF Spec

\* The device and the tool, with every interruption but worn cells, implement
\* SafeUpdate: what is stored does not change while it runs or after success
\* was reported, a new program appears as a whole and where there was none,
\* and the user is told of a program only while it is stored.
THEOREM PromiseIsKept ==
  ASSUME "wear" \notin Disruptions, EndWord # Zero, NoPhantoms
  PROVE  Spec => KeepsThePromise
<1>1. Init => Promise!Init
  BY InitKeepsPromise
<1>2. PromiseInv /\ PromiseInv' /\ [Next]_vars => [Promise!Next]_(Promise!safeVars)
  <2> SUFFICES ASSUME PromiseInv, PromiseInv', [Next]_vars
               PROVE  [Promise!Next]_(Promise!safeVars)
    OBVIOUS
  <2>1. UpdateInv' /\ SuccessInv'
    BY DEF PromiseInv
  <2>2. CASE Device /\ UNCHANGED flash
    BY <2>1, <2>2, DeviceOutsideWriting
  <2>3. CASE Device /\ (ErasePageStep \/ ProgramWordStep) /\ ~UNCHANGED flash
    BY <2>1, <2>3, DeviceWrites
  <2>4. CASE Host
    BY <2>1, <2>4, HostTells
  <2>5. CASE UNCHANGED vars
    BY <2>5, StutterKeepsPromise
  <2> QED
    BY <2>2, <2>3, <2>4, <2>5, FlashStays DEF Next
<1> QED
  BY <1>1, <1>2, NoMixture, PTL DEF Spec, KeepsThePromise, Promise!Spec
=============================================================================
