---------------------------- MODULE UpdateProofs ----------------------------
(***************************************************************************)
(* The firmware that runs is one of the programs, complete (module         *)
(* UpdateInvariant has the argument): for every layout of the flash, every *)
(* set of programs, every packet size, and whatever power failures, bus    *)
(* resets, lost replies, timeouts and interruptions of the tool occur.     *)
(* Three things are assumed: cells and pages take the values they are      *)
(* given; no program has a trailer of its own inside; and the word behind  *)
(* the area, which the search for the trailer reads first, is not zero.    *)
(***************************************************************************)
EXTENDS UpdateInvariant, SequenceTheorems, TLAPS

NoPhantoms == \A p \in Programs : ~PhantomTrailer(p)

-----------------------------------------------------------------------------
(* Facts about the layout, words and images.                                *)

\* The pages fill the area.
LEMMA Layout ==
  /\ ProgramWords \in Nat /\ ProgramWords >= 4
  /\ PageWords \in Nat /\ PageWords >= 2
  /\ Pages \in Nat
  /\ ProgramWords = PageWords * Pages
  /\ PageWords <= ProgramWords
  /\ AreaBegin \in Nat /\ AreaEnd \in Nat
  /\ MaxWord \in Nat /\ MaxWord >= AreaEnd /\ MaxWord > 0
<1>1. ProgramWords \in Nat /\ ProgramWords >= 4 /\ PageWords \in Nat /\ PageWords >= 2
  BY LayoutAssumption
<1>2. Pages \in Nat /\ ProgramWords = PageWords * Pages
  BY <1>1, LayoutAssumption DEF Pages
<1>3. PageWords <= ProgramWords
  <2>1. Pages >= 1
    BY <1>1, <1>2
  <2> QED
    BY <1>1, <1>2, <2>1
<1>4. /\ AreaBegin \in Nat /\ AreaEnd \in Nat
      /\ MaxWord \in Nat /\ MaxWord >= AreaEnd /\ MaxWord > 0
  BY <1>1, LayoutAssumption DEF AreaEnd
<1> QED
  BY <1>1, <1>2, <1>3, <1>4

\* An image is a program, its length, its CRC and a zero.
LEMMA ImageWords ==
  ASSUME NEW p \in Programs
  PROVE  /\ Len(p) \in Nat
         /\ \A i \in 1..Len(p) : p[i] \in NumWord
         /\ Image(p) \in Seq(NumWord \cup {Num(Len(p)), CrcOf(p, Len(p)), Zero})
         /\ Len(Image(p)) = Len(p) + 3
         /\ \A i \in 1..Len(p) : Image(p)[i] = p[i]
         /\ Image(p)[Len(p) + 1] = Num(Len(p))
         /\ Image(p)[Len(p) + 2] = CrcOf(p, Len(p))
         /\ Image(p)[Len(p) + 3] = Zero
<1>1. p \in Seq(NumWord) /\ Len(p) \in Nat
  BY HostAssumption
<1> DEFINE W == NumWord \cup {Num(Len(p)), CrcOf(p, Len(p)), Zero}
<1> HIDE DEF W
<1>2. p \in Seq(W)
  BY <1>1 DEF W
<1>3. Trailer(p) \in Seq(W) /\ Len(Trailer(p)) = 3
  BY DEF Trailer, W
<1>4. /\ Image(p) \in Seq(W) /\ Len(Image(p)) = Len(p) + 3
      /\ \A i \in 1..Len(p) : Image(p)[i] = p[i]
      /\ \A j \in 1..3 : Image(p)[Len(p) + j] = Trailer(p)[j]
  <2>1. /\ Image(p) \in Seq(W) /\ Len(Image(p)) = Len(p) + 3
        /\ \A i \in 1..(Len(p) + 3) :
             Image(p)[i] = IF i <= Len(p) THEN p[i] ELSE Trailer(p)[i - Len(p)]
    <3>1. Len(Trailer(p)) = 3 /\ p \in Seq(W) /\ Trailer(p) \in Seq(W)
      BY <1>2, <1>3
    <3>2. Len(p \o Trailer(p)) = Len(p) + Len(Trailer(p))
      BY <3>1, ConcatProperties
    <3> QED
      BY <3>1, <3>2, ConcatProperties DEF Image
  <2>2. \A j \in 1..3 : Len(p) + j \in 1..(Len(p) + 3) /\ ~(Len(p) + j <= Len(p))
                        /\ (Len(p) + j) - Len(p) = j
    BY <1>1
  <2>3. \A j \in 1..3 : Image(p)[Len(p) + j] = Trailer(p)[j]
    BY <2>1, <2>2
  <2>4. \A i \in 1..Len(p) : Image(p)[i] = p[i]
    BY <1>1, <2>1
  <2> QED
    BY <2>1, <2>3, <2>4
<1>5. Trailer(p)[1] = Num(Len(p)) /\ Trailer(p)[2] = CrcOf(p, Len(p)) /\ Trailer(p)[3] = Zero
  BY DEF Trailer
<1>6. Image(p) \in Seq(NumWord \cup {Num(Len(p)), CrcOf(p, Len(p)), Zero})
  BY <1>4 DEF W
<1>7. \A i \in 1..Len(p) : p[i] \in NumWord
  BY <1>1
<1> QED
  BY <1>1, <1>4, <1>5, <1>6, <1>7

\* The kinds of words are apart.
LEMMA WordKinds ==
  /\ \A n, m : Num(n) = Num(m) => n = m
  /\ \A n, f, m : m # 0 => CrcOf(f, m) # Num(n)
  /\ \A f : CrcOf(f, 0) = Erased
  /\ Zero # Erased
<1>1. \A n, m : Num(n) = Num(m) => n = m
  BY DEF Num
<1>2. \A n, f, m : m # 0 => CrcOf(f, m) # Num(n)
  BY DEF CrcOf, Num
<1>3. \A f : CrcOf(f, 0) = Erased
  BY DEF CrcOf
<1>4. Zero # Erased
  BY <1>1, Layout DEF Zero, Erased
<1> QED
  BY <1>1, <1>2, <1>3, <1>4

\* So the buffer of the tool is that, and erased words behind it.
LEMMA BufferWords ==
  ASSUME NEW p \in Programs, FitsHostLimit(p)
  PROVE  /\ Len(p) \in Nat /\ Len(p) + 3 \in Index /\ Len(p) + 2 \in Index /\ Len(p) + 1 \in Index
         /\ \A i \in 1..Len(p) : i \in Index /\ Buffer(p)[i] = p[i]
         /\ Buffer(p)[Len(p) + 1] = Num(Len(p))
         /\ Buffer(p)[Len(p) + 2] = CrcOf(p, Len(p))
         /\ Buffer(p)[Len(p) + 3] = Zero
         /\ \A i \in Index : i > Len(p) + 3 => Buffer(p)[i] = Erased
<1>1. Len(p) \in Nat /\ Len(p) + 3 <= ProgramWords /\ ProgramWords \in Nat
  BY ImageWords, Layout DEF FitsHostLimit
<1>2. \A i \in 1..(Len(p) + 3) : i \in Index /\ Buffer(p)[i] = Image(p)[i]
  BY <1>1 DEF Buffer, Index
<1>3. /\ \A i \in 1..Len(p) : i \in 1..(Len(p) + 3)
      /\ Len(p) + 1 \in 1..(Len(p) + 3) /\ Len(p) + 2 \in 1..(Len(p) + 3)
      /\ Len(p) + 3 \in 1..(Len(p) + 3)
  BY <1>1
<1>4. ASSUME NEW i \in Index, i > Len(p) + 3 PROVE Buffer(p)[i] = Erased
  <2>1. i \in Nat /\ ~(i <= Len(p) + 3)
    BY <1>1, <1>4 DEF Index
  <2> QED
    BY <2>1 DEF Buffer
<1> QED
  BY <1>1, <1>2, <1>3, <1>4, ImageWords

\* The words of a program are numbers, and those of an image are but one.
LEMMA OnlyOneCrc ==
  ASSUME NEW p \in Programs, FitsHostLimit(p), NEW i \in Index, NEW f, NEW n, n # 0,
         Buffer(p)[i] = CrcOf(f, n)
  PROVE  i = Len(p) + 2 /\ Len(p) # 0
<1> DEFINE L == Len(p)
<1>1. L \in Nat /\ i \in Nat /\ i > 0
  BY BufferWords DEF Index
<1>2. \A m : Buffer(p)[i] # Num(m)
  BY WordKinds
<1>3. CASE i <= L
  <2>1. i \in 1..L
    BY <1>1, <1>3
  <2>2. p[i] \in NumWord /\ Buffer(p)[i] = p[i]
    BY <2>1, ImageWords, BufferWords
  <2> QED
    BY <1>2, <2>2 DEF NumWord
<1>4. CASE i = L + 1
  BY <1>2, <1>4, BufferWords
<1>5. CASE i = L + 3
  BY <1>2, <1>5, BufferWords DEF Zero
<1>6. CASE i > L + 3
  BY <1>2, <1>6, BufferWords DEF Erased
<1>7. CASE i = L + 2
  <2>1. CASE L = 0
    <3>1. Buffer(p)[i] = Erased
      BY <1>7, <2>1, BufferWords, WordKinds
    <3> QED
      BY <1>2, <3>1 DEF Erased
  <2> QED
    BY <1>7, <2>1
<1> QED
  BY <1>1, <1>3, <1>4, <1>5, <1>6, <1>7

\* All words written is the buffer of the tool.
LEMMA WrittenAll ==
  ASSUME NEW p \in Accepted
  PROVE  Holds(Written(p, Len(p) + 3), p)
BY DEF Accepted, Holds, Written, Buffer, FitsHostLimit

\* No word written is an erased area.
LEMMA WrittenNone ==
  ASSUME NEW p \in Accepted
  PROVE  Written(p, 0) = [i \in Index |-> Erased]
BY DEF Written, Index

\* One word more is the next word in an erased cell.
LEMMA WrittenNext ==
  ASSUME NEW p \in Accepted, NEW k \in Nat, k + 1 \in Index
  PROVE  /\ Written(p, k)[k + 1] = Erased
         /\ Written(p, k + 1) = [Written(p, k) EXCEPT ![k + 1] = Image(p)[k + 1]]
<1>1. \A i \in Index : i \in Nat
  BY Layout DEF Index
<1>2. Written(p, k)[k + 1] = Erased
  BY DEF Written
<1>3. ASSUME NEW i \in Index
      PROVE  Written(p, k + 1)[i] = [Written(p, k) EXCEPT ![k + 1] = Image(p)[k + 1]][i]
  BY <1>1 DEF Written
<1>4. DOMAIN Written(p, k) = Index /\ DOMAIN Written(p, k + 1) = Index
  BY DEF Written
<1> QED
  BY <1>2, <1>3, <1>4 DEF Written

-----------------------------------------------------------------------------
(* The check at boot.                                                       *)

\* An area whose first page is erased has no reset vector.
LEMMA ErasedIsInvalid ==
  ASSUME NEW area, \A i \in 1..PageWords : area[i] = Erased
  PROVE  FirmwareCheck(area) = {"invalid"}
<1>1. area[2] = Erased
  BY Layout
<1>2. area[2][2] = MaxWord
  BY <1>1 DEF Erased, Num
<1>3. ~ResetVectorInArea(area)
  BY <1>2, Layout DEF ResetVectorInArea
<1> QED
  BY <1>3 DEF FirmwareCheck

\* A beginning of an image passes the check only when it is all of the image.
LEMMA StageIsValidWhenComplete ==
  ASSUME EndWord # Zero, NEW p \in Accepted, ~PhantomTrailer(p),
         NEW k \in 0..(Len(p) + 3), "valid" \in FirmwareCheck(Written(p, k))
  PROVE  k = Len(p) + 3
<1> DEFINE f == Written(p, k)
           L == Len(p)
<1>1. p \in Programs /\ L \in Nat /\ L + 3 <= ProgramWords /\ k \in Nat /\ k <= L + 3
  BY ImageWords DEF Accepted, FitsHostLimit
<1>2. PICK z \in LastZero(f) : LengthInArea(f, z) /\ f[z - 1] = CrcOf(f, f[z - 2][2])
  <2>1. TrailerMatches(f)
    BY DEF FirmwareCheck
  <2> QED
    BY <2>1 DEF TrailerMatches
<1>3. z \in 3..(ProgramWords + 1) /\ ReadWord(f, z) = Zero
  BY <1>2 DEF LastZero, ZeroWords
<1>4. z \in 3..ProgramWords /\ f[z] = Zero
  BY <1>3, Layout DEF ReadWord, Index
<1>5. \A i \in 1..ProgramWords : f[i] = IF i <= k THEN Image(p)[i] ELSE Erased
  BY DEF Written, Index
<1>6. z <= k /\ Image(p)[z] = Zero
  BY <1>4, <1>5, WordKinds, Layout
<1>7. z - 1 \in 1..ProgramWords /\ z - 2 \in 1..ProgramWords /\ z - 1 <= k /\ z - 2 <= k
  BY <1>1, <1>4, <1>6, Layout
<1>8. f[z - 1] = Image(p)[z - 1] /\ f[z - 2] = Image(p)[z - 2]
  BY <1>5, <1>7
<1>9. SUFFICES ASSUME k # L + 3 PROVE FALSE
  OBVIOUS
<1>10. z <= L + 2
  BY <1>1, <1>4, <1>6, <1>9
<1>11. CASE z = L + 2
  <2>1. Image(p)[L + 2] = Num(0) /\ L # 0
    BY <1>1, <1>4, <1>6, <1>11 DEF Zero
  <2>2. CrcOf(p, L) = Num(0)
    BY <1>1, <2>1, ImageWords
  <2> QED
    BY <2>1, <2>2, WordKinds
<1>12. CASE z = L + 1
  <2>1. Num(L) = Num(0)
    BY <1>1, <1>6, <1>12, ImageWords DEF Zero
  <2> QED
    BY <2>1, <1>1, <1>4, <1>12, WordKinds
<1>13. CASE z <= L
  <2>1. z \in 1..L /\ z - 1 \in 1..L /\ z - 2 \in 1..L
    BY <1>1, <1>4, <1>13
  <2>2. p[z] = Zero /\ f[z - 1] = p[z - 1] /\ f[z - 2] = p[z - 2]
    BY <1>1, <1>6, <1>8, <2>1, ImageWords
  <2>3. PICK n \in 0..MaxWord : p[z - 1] = Num(n)
    BY <1>1, <2>1, ImageWords DEF NumWord
  <2> DEFINE m == f[z - 2][2]
  <2>4. CrcOf(f, m) = Num(n)
    BY <1>2, <2>2, <2>3
  <2> HIDE DEF f
  <2>5. m = 0
    BY <2>4, WordKinds
  <2> HIDE DEF m
  <2>7. CrcOf(f, m) = Erased /\ CrcOf(p, m) = Erased
    BY <2>5, WordKinds
  <2>8. p[z - 1] = CrcOf(p, p[z - 2][2]) /\ p[z - 2][2] <= ProgramWords
    <3>1. p[z - 2][2] = m
      BY <2>2 DEF m
    <3>2. p[z - 1] = Erased
      BY <1>2, <2>2, <2>7 DEF m
    <3> QED
      BY <3>1, <3>2, <2>5, <2>7, Layout
  <2>6. PhantomTrailer(p)
    BY <1>4, <1>13, <1>1, <2>2, <2>8 DEF PhantomTrailer
  <2> QED
    BY <2>6
<1> QED
  BY <1>1, <1>4, <1>10, <1>11, <1>12, <1>13

\* So the check passes only for an area that holds a program.
LEMMA ValidHoldsAProgram ==
  ASSUME EndWord # Zero, NoPhantoms, FlashIsStage, "valid" \in FirmwareCheck(flash)
  PROVE  HoldsAProgram
<1>1. ~FirstPageErased
  BY ErasedIsInvalid DEF FirstPageErased
<1>2. PICK p \in Accepted : \E k \in 0..(Len(p) + 3) : flash = Written(p, k)
  BY <1>1 DEF FlashIsStage
<1>3. flash = Written(p, Len(p) + 3)
  BY <1>2, StageIsValidWhenComplete DEF NoPhantoms, Accepted
<1>4. Holds(flash, p)
  BY <1>3, WrittenAll
<1> QED
  BY <1>4 DEF HoldsAProgram, Accepted
-----------------------------------------------------------------------------
(* The parts of a step that are the same for many actions.                  *)

\* What the tool keeps while the device takes a step.
HostWaits == UNCHANGED <<hpc, step, want, attempts, hq, prog, sent, report>>

\* The device leaves the bus, or is not on it: nothing waits and no handle is
\* live, so there is no order to keep.
LEMMA DetachedKeepsOrder ==
  ASSUME UpdateInv, HostWaits, outEp' = {}, handle' # "live"
  PROVE  InOrder' /\ ToolInOrder' /\ Counting'
BY DEF UpdateInv, HostWaits, InOrder, ToolInOrder, Counting, Accepted, Writing

\* The device takes no request and stays on the bus: if what will be written
\* stays the same, the requests that wait or will be sent stay in order.
LEMMA SteadyKeepsOrder ==
  ASSUME UpdateInv, HostWaits, UNCHANGED <<usb, outEp, handle>>,
         \A p \in Accepted : \A s \in Nat : WillHold(p, s) => WillHold(p, s)'
  PROVE  InOrder' /\ ToolInOrder' /\ Counting'
<1>1. Counting'
  BY DEF UpdateInv, HostWaits, Counting, Accepted
<1>2. InOrder'
  <2> SUFFICES ASSUME NEW pkt \in outEp, pkt.op = "flash"
               PROVE  \E p \in Accepted : Chunk(pkt, p) /\ WillHold(p, pkt.arg)'
    BY DEF InOrder
  <2>1. PICK p \in Accepted : Chunk(pkt, p) /\ WillHold(p, pkt.arg)
    BY DEF UpdateInv, InOrder
  <2>2. pkt.arg \in Nat
    BY <2>1 DEF Chunk
  <2> QED
    BY <2>1, <2>2
<1>3. ToolInOrder'
  <2>1. (hpc = "send" /\ step = "flash" => sent < Len(prog) + 3)'
    BY DEF UpdateInv, HostWaits, ToolInOrder
  <2>2. ASSUME handle = "live", Writing
        PROVE  WillHoldAtEnd(prog, sent)'
    <3>1. WillHoldAtEnd(prog, sent) /\ prog \in Accepted /\ sent \in Nat
      BY <2>2 DEF UpdateInv, ToolInOrder, Counting, Writing, Shape
    <3>2. CASE outEp = {}
      BY <3>1, <3>2 DEF WillHoldAtEnd, HostWaits
    <3>3. CASE outEp # {}
      <4>1. \A pkt \in outEp : Chunk(pkt, prog) => pkt.arg \in Nat
        BY DEF Chunk
      <4>2. \A pkt \in outEp :
              \/ pkt.op = "erase" /\ sent = 0
              \/ Chunk(pkt, prog) /\ ChunkEnd(pkt) = sent /\ WillHold(prog, pkt.arg)'
        BY <3>1, <3>3, <4>1 DEF WillHoldAtEnd, HostWaits
      <4> QED
        BY <3>3, <4>2 DEF WillHoldAtEnd, HostWaits
    <3> QED
      BY <3>2, <3>3
  <2> QED
    BY <2>1, <2>2 DEF ToolInOrder, HostWaits, Writing
<1> QED
  BY <1>1, <1>2, <1>3

\* The device takes a request: what was to be written when it is carried out
\* is to be written now.
LEMMA TakenKeepsOrder ==
  ASSUME UpdateInv, HostWaits, UNCHANGED handle, NEW pkt \in outEp, outEp' = {},
         pkt.op = "erase" => \A p \in Accepted : WillHold(p, 0)',
         \A p \in Accepted :
           Chunk(pkt, p) /\ WillHold(p, pkt.arg) => WillHold(p, ChunkEnd(pkt))'
  PROVE  InOrder' /\ ToolInOrder' /\ Counting'
<1>1. InOrder' /\ Counting'
  BY DEF UpdateInv, HostWaits, InOrder, Counting, Accepted
<1>2. ToolInOrder'
  <2>1. (hpc = "send" /\ step = "flash" => sent < Len(prog) + 3)'
    BY DEF UpdateInv, HostWaits, ToolInOrder
  <2>2. ASSUME handle = "live", Writing
        PROVE  WillHold(prog, sent)'
    <3>1. WillHoldAtEnd(prog, sent) /\ prog \in Accepted
      BY <2>2 DEF UpdateInv, ToolInOrder, Counting, Writing, Shape
    <3>2. \/ pkt.op = "erase" /\ sent = 0
          \/ Chunk(pkt, prog) /\ ChunkEnd(pkt) = sent /\ WillHold(prog, pkt.arg)
      BY <3>1 DEF WillHoldAtEnd
    <3> QED
      BY <3>1, <3>2 DEF HostWaits
  <2> QED
    BY <2>1, <2>2 DEF ToolInOrder, HostWaits, Writing, WillHoldAtEnd
<1> QED
  BY <1>1, <1>2

\* A handle changes only when its device leaves the bus.
LEMMA HandleStays ==
  ASSUME UpdateInv, usb' = usb, handle' = HandleAfter(usb')
  PROVE  UNCHANGED handle
BY DEF UpdateInv, Attached, Shape, HandleAfter

-----------------------------------------------------------------------------
(* Erasing.                                                                 *)

\* The pages up to the loop index, in words.
LEMMA PageWordsBelow ==
  ASSUME NEW c \in Nat
  PROVE  /\ (c + 1) * PageWords = c * PageWords + PageWords
         /\ c * PageWords \in Nat
         /\ c = 0 => c * PageWords = 0
         /\ c >= 1 => c * PageWords >= PageWords
         /\ c > Pages => c * PageWords >= ProgramWords
<1>1. PageWords \in Nat /\ Pages \in Nat
  BY Layout
<1>2. (c + 1) * PageWords = c * PageWords + PageWords /\ c * PageWords \in Nat
  BY <1>1
<1>3. c = 0 => c * PageWords = 0
  BY <1>1
<1>4. ASSUME c >= 1 PROVE c * PageWords >= PageWords
  <2>1. c - 1 \in Nat /\ c * PageWords = (c - 1) * PageWords + PageWords
    BY <1>1, <1>4
  <2>2. (c - 1) * PageWords \in Nat
    BY <1>1, <2>1
  <2> QED
    BY <1>1, <2>1, <2>2
<1>5. ASSUME c > Pages PROVE c * PageWords >= ProgramWords
  <2>1. c - Pages \in Nat /\ c * PageWords = (c - Pages) * PageWords + PageWords * Pages
    BY <1>1, <1>5
  <2>2. (c - Pages) * PageWords \in Nat
    BY <1>1, <2>1
  <2> QED
    BY <1>1, <2>1, <2>2, Layout
<1> QED
  BY <1>2, <1>3, <1>4, <1>5

\* One page more is erased.
LEMMA OnePageMore ==
  ASSUME NEW c \in Nat, NEW area, \A i \in Index : i <= c * PageWords => area[i] = Erased,
         NEW i \in Index, i <= (c + 1) * PageWords
  PROVE  ErasePage(area, c)[i] = Erased
<1>1. i \in Nat
  BY Layout DEF Index
<1>2. CASE i <= c * PageWords
  BY <1>2 DEF ErasePage
<1>3. CASE ~(i <= c * PageWords)
  <2>1. i \in PageOf(c)
    BY <1>1, <1>3, PageWordsBelow DEF PageOf
  <2> QED
    BY <2>1 DEF ErasePage
<1> QED
  BY <1>2, <1>3

\* The loop ends when all of them are.
LEMMA AllPagesErased ==
  ASSUME NEW c \in Nat, c > Pages, NEW area,
         \A i \in Index : i <= c * PageWords => area[i] = Erased
  PROVE  \A i \in Index : area[i] = Erased
<1> SUFFICES ASSUME NEW i \in Index PROVE area[i] = Erased
  OBVIOUS
<1>1. i \in Nat /\ i <= ProgramWords
  BY Layout DEF Index
<1>2. i <= c * PageWords
  BY <1>1, PageWordsBelow, Layout
<1> QED
  BY <1>2

LEMMA ErasePageInv ==
  ASSUME UpdateInv, "wear" \notin Disruptions, ErasePageStep, HostWaits, UNCHANGED handle
  PROVE  UpdateInv'
<1> USE DEF ErasePageStep
<1>1. flash' = ErasePage(flash, cur) /\ cur' = cur + 1 /\ cur \in Nat /\ phase = "erasing"
  BY DEF UpdateInv, Shape
<1>2. \A i \in Index : flash'[i] = IF i \in PageOf(cur) THEN Erased ELSE flash[i]
  BY <1>1 DEF ErasePage
<1>3. Shape'
  BY <1>1 DEF UpdateInv, Shape, HostWaits, pipeVars, ErasePage
<1>4. Erasing'
  <2> SUFFICES ASSUME NEW i \in Index, i <= (cur + 1) * PageWords
               PROVE  flash'[i] = Erased
    BY <1>1 DEF UpdateInv, Erasing
  <2> QED
    BY <1>1, OnePageMore DEF UpdateInv, Erasing
<1>5. FlashIsStage'
  <2> SUFFICES ASSUME NEW i \in 1..PageWords PROVE flash'[i] = Erased
    BY DEF FlashIsStage, FirstPageErased
  <2>1. i \in Index /\ i \in Nat /\ i <= PageWords /\ i > 0
    BY Layout DEF Index
  <2>2. CASE cur = 0
    <3>1. cur * PageWords = 0 /\ (cur + 1) * PageWords = PageWords
      BY <1>1, <2>2, PageWordsBelow, Layout
    <3>2. i \in PageOf(cur)
      BY <2>1, <3>1 DEF PageOf
    <3> QED
      BY <1>2, <2>1, <3>2
  <2>3. CASE cur # 0
    <3>1. i <= cur * PageWords
      BY <1>1, <2>1, <2>3, PageWordsBelow, Layout
    <3> QED
      BY <1>1, <1>2, <2>1, <3>1 DEF UpdateInv, Erasing
  <2> QED
    BY <2>2, <2>3
<1>6. InOrder' /\ ToolInOrder' /\ Counting'
  <2>1. \A p \in Accepted : \A s \in Nat : WillHold(p, s) => WillHold(p, s)'
    BY <1>1 DEF WillHold
  <2> QED
    BY <2>1, SteadyKeepsOrder DEF pipeVars
<1>7. Attached' /\ Programming' /\ RunsOnlyCompleteFirmware'
  BY <1>1 DEF UpdateInv, Attached, Programming, RunsOnlyCompleteFirmware, pipeVars
<1> QED
  BY <1>3, <1>4, <1>5, <1>6, <1>7 DEF UpdateInv

LEMMA EraseDoneInv ==
  ASSUME UpdateInv, EraseDone, HostWaits, UNCHANGED handle
  PROVE  UpdateInv'
<1> USE DEF EraseDone, FinishHandler
<1>1. /\ phase = "erasing" /\ phase' = "bootloader" /\ cur \in Nat /\ cur > Pages
      /\ unlocked /\ UNCHANGED <<usb, outEp, unlocked, flash>>
  BY Layout DEF UpdateInv, Shape, EraseMore, Erasing
<1>2. \A i \in Index : flash[i] = Erased
  BY <1>1, AllPagesErased DEF UpdateInv, Erasing
<1>3. flash = [i \in Index |-> Erased]
  BY <1>2 DEF UpdateInv, Shape
<1>4. Shape'
  BY <1>1 DEF UpdateInv, Shape, HostWaits, Phases
<1>5. FlashIsStage'
  <2>1. \A i \in 1..PageWords : i \in Index
    BY Layout DEF Index
  <2> QED
    BY <1>1, <1>2, <2>1 DEF FlashIsStage, FirstPageErased
<1>6. InOrder' /\ ToolInOrder' /\ Counting'
  <2>1. \A p \in Accepted : \A s \in Nat : WillHold(p, s) => WillHold(p, s)'
    BY <1>1, <1>3, WrittenNone DEF WillHold
  <2> QED
    BY <1>1, <2>1, SteadyKeepsOrder
<1>7. Attached' /\ Erasing' /\ Programming' /\ RunsOnlyCompleteFirmware'
  BY <1>1 DEF UpdateInv, Attached, Erasing, Programming, RunsOnlyCompleteFirmware
<1> QED
  BY <1>4, <1>5, <1>6, <1>7 DEF UpdateInv

-----------------------------------------------------------------------------
(* Programming.                                                             *)

\* The next word of a request goes into an erased cell of the area, and makes
\* one word more of the image.
LEMMA NextWord ==
  ASSUME cur \in Nat, NEW p \in Accepted, NEW pkt, Writes(pkt, p), cur < Len(pkt.words)
  PROVE  /\ pkt.arg + cur \in Nat /\ pkt.arg + cur + 1 \in Index
         /\ pkt.arg + cur + 1 <= ChunkEnd(pkt)
         /\ ChunkEnd(pkt) <= Len(p) + 3
         /\ Len(p) \in Nat /\ Len(p) + 3 <= ProgramWords
         /\ flash[pkt.arg + cur + 1] = Erased
         /\ [flash EXCEPT ![pkt.arg + cur + 1] = pkt.words[cur + 1]]
              = Written(p, pkt.arg + cur + 1)
<1>1. p \in Programs /\ Len(p) \in Nat /\ Len(p) + 3 <= ProgramWords /\ ProgramWords \in Nat
  BY ImageWords, Layout DEF Accepted, FitsHostLimit
<1>2. /\ pkt.arg \in Nat /\ cur \in Nat /\ Len(pkt.words) \in Nat
      /\ pkt.arg + Len(pkt.words) <= Len(p) + 3
      /\ flash = Written(p, pkt.arg + cur)
      /\ pkt.words[cur + 1] = Image(p)[pkt.arg + (cur + 1)]
  <2>1. /\ pkt.arg \in Nat /\ cur \in Nat /\ Len(pkt.words) \in 1..PacketWords
        /\ pkt.arg + Len(pkt.words) <= Len(p) + 3
        /\ flash = Written(p, pkt.arg + cur)
        /\ \A j \in 1..Len(pkt.words) : pkt.words[j] = Image(p)[pkt.arg + j]
    BY DEF Writes, Chunk
  <2>2. Len(pkt.words) \in Nat /\ cur + 1 \in 1..Len(pkt.words)
    BY <2>1, BootloaderAssumption
  <2> QED
    BY <2>1, <2>2
<1> DEFINE k == pkt.arg + cur
<1>3. k \in Nat /\ k + 1 \in Index /\ k + 1 <= pkt.arg + Len(pkt.words)
      /\ pkt.arg + (cur + 1) = k + 1
  <2>1. ASSUME NEW a \in Nat, NEW c \in Nat, NEW l \in Nat, NEW m \in Nat,
               c < l, a + l <= m, m <= ProgramWords
        PROVE  /\ a + c \in Nat /\ a + c + 1 \in 1..ProgramWords
               /\ a + c + 1 <= a + l /\ a + (c + 1) = a + c + 1
    BY <1>1, <2>1
  <2>2. Len(p) + 3 \in Nat
    BY <1>1
  <2> DEFINE l == Len(pkt.words)
             m == Len(p) + 3
  <2>3. l \in Nat /\ m \in Nat /\ cur < l /\ pkt.arg + l <= m /\ m <= ProgramWords
    BY <1>1, <1>2, <2>2
  <2> HIDE DEF l, m
  <2>4. /\ k \in Nat /\ k + 1 \in 1..ProgramWords /\ k + 1 <= pkt.arg + l
        /\ pkt.arg + (cur + 1) = k + 1
    BY <1>2, <2>1, <2>3
  <2> QED
    BY <2>4 DEF Index, l
<1>4. Written(p, k)[k + 1] = Erased
      /\ Written(p, k + 1) = [Written(p, k) EXCEPT ![k + 1] = Image(p)[k + 1]]
  BY <1>3, WrittenNext
<1> QED
  BY <1>1, <1>2, <1>3, <1>4 DEF ChunkEnd

\* Offsets inside the area do not wrap.
LEMMA AddressInArea ==
  ASSUME NEW a \in Nat, a <= ProgramWords
  PROVE  /\ Address(a) = AreaBegin + 4 * a
         /\ ~(Address(a) < AreaBegin)
         /\ Programmable(a) <=> a < ProgramWords - 1
         /\ \A i \in Index : AddressOf(i) = Address(a) => i = a + 1
         /\ ~VerifyRefused(a)
<1>1. AreaBegin + 4 * a \in Nat /\ AreaBegin + 4 * a < MaxWord + 1 /\ MaxWord + 1 \in Nat \ {0}
  BY LayoutAssumption
<1>2. Word32(AreaBegin + 4 * a) = AreaBegin + 4 * a
  BY <1>1 DEF Word32
<1>3. Address(a) = AreaBegin + 4 * a
  BY <1>2 DEF Address
<1>4. Programmable(a) <=> a < ProgramWords - 1
  BY <1>3, Layout DEF Programmable, AreaEnd
<1>5. \A i \in Index : AddressOf(i) = Address(a) => i = a + 1
  BY <1>3, Layout DEF AddressOf, Index
<1>6. ~VerifyRefused(a)
  BY <1>2, Layout DEF VerifyRefused, AreaEnd
<1> QED
  BY <1>3, <1>4, <1>5, <1>6, Layout

\* A word whose offset lies inside the area goes there or is refused.
LEMMA WordInItsPlace ==
  ASSUME NEW pkt, pkt.arg \in Nat, cur \in Nat, pkt.arg + cur < ProgramWords,
         \/ ~Programmable(pkt.arg + cur) /\ WordFails /\ UNCHANGED flash
         \/ WordInArea(pkt.arg + cur, pkt.words[cur + 1])
         \/ WordInFront(pkt.arg + cur)
  PROVE  IF ~Programmable(pkt.arg + cur)
         THEN FinishHandler(Answer(FALSE, Zero)) /\ UNCHANGED flash
         ELSE \E stored \in MayStore(flash[pkt.arg + cur + 1], pkt.words[cur + 1]) :
                /\ flash' = [flash EXCEPT ![pkt.arg + cur + 1] = stored]
                /\ IF ReadsBack(stored, pkt.words[cur + 1])
                   THEN /\ cur' = cur + 1
                        /\ UNCHANGED <<phase, unlocked, bkp, dbp, req, pipeVars>>
                   ELSE FinishHandler(Answer(FALSE, Zero))
<1> DEFINE a == pkt.arg + cur
<1>1. a \in Nat /\ a <= ProgramWords
  BY Layout
<1>2. ~WordInFront(a)
  BY <1>1, AddressInArea DEF WordInFront
<1>3. CASE ~Programmable(a)
  BY <1>2, <1>3 DEF WordFails, WordInArea
<1>4. CASE Programmable(a)
  <2>1. WordInArea(a, pkt.words[cur + 1])
    BY <1>2, <1>4
  <2>2. PICK i \in Index : \E stored \in MayStore(flash[i], pkt.words[cur + 1]) :
          /\ AddressOf(i) = Address(a)
          /\ flash' = [flash EXCEPT ![i] = stored]
          /\ IF ReadsBack(stored, pkt.words[cur + 1]) THEN WordDone ELSE WordFails
    BY <2>1 DEF WordInArea
  <2>3. i = a + 1
    BY <1>1, <2>2, AddressInArea
  <2> QED
    BY <1>4, <2>2, <2>3 DEF WordDone, WordFails
<1> QED
  BY <1>3, <1>4

\* What is left of the step when nothing is known of the request.
LEMMA WordStepOutline ==
  ASSUME ProgramWordStep
  PROVE  /\ phase = "programming"
         /\ flash' = flash \/ \E i, stored : flash' = [flash EXCEPT ![i] = stored]
         /\ \/ FinishHandler(Answer(FALSE, Zero))
            \/ /\ phase' \in {phase, "fault", "damaged"} /\ cur' \in {cur, cur + 1}
               /\ UNCHANGED <<unlocked, bkp, dbp, req, usb, outEp, inEp>>
<1>1. phase = "programming"
  BY DEF ProgramWordStep
<1>2. PICK pkt \in req :
        \/ ~Programmable(pkt.arg + cur) /\ WordFails /\ UNCHANGED flash
        \/ WordInArea(pkt.arg + cur, pkt.words[cur + 1])
        \/ WordInFront(pkt.arg + cur)
  BY DEF ProgramWordStep
<1>3. CASE ~Programmable(pkt.arg + cur) /\ WordFails /\ UNCHANGED flash
  BY <1>1, <1>3 DEF WordFails
<1>4. CASE WordInArea(pkt.arg + cur, pkt.words[cur + 1])
  <2>1. \E i, stored :
          /\ flash' = [flash EXCEPT ![i] = stored]
          /\ WordDone \/ WordFails
    BY <1>4 DEF WordInArea
  <2> QED
    BY <1>1, <2>1 DEF WordDone, WordFails, pipeVars
<1>5. CASE WordInFront(pkt.arg + cur)
  BY <1>1, <1>5 DEF WordInFront, WordDone, WordFails, pipeVars
<1> QED
  BY <1>2, <1>3, <1>4, <1>5

\* The words of a flash request lie inside the area.
LEMMA ChunkInArea ==
  ASSUME NEW p \in Accepted, NEW pkt, Chunk(pkt, p), NEW c \in Nat, c < Len(pkt.words)
  PROVE  pkt.arg + c < ProgramWords
<1>1. Len(p) \in Nat /\ Len(p) + 3 <= ProgramWords
  BY ImageWords DEF Accepted, FitsHostLimit
<1> QED
  <2>1. /\ pkt.arg \in Nat /\ Len(pkt.words) \in Nat
        /\ pkt.arg + Len(pkt.words) <= Len(p) + 3
    BY BootloaderAssumption DEF Chunk
  <2> DEFINE l == Len(pkt.words)
             m == Len(p)
  <2> HIDE DEF l, m
  <2>2. l \in Nat /\ m \in Nat /\ c < l /\ pkt.arg + l <= m + 3 /\ m + 3 <= ProgramWords
    BY <1>1, <2>1 DEF l, m
  <2> QED
    BY <2>1, <2>2, Layout

LEMMA ProgramWordInv ==
  ASSUME UpdateInv, "wear" \notin Disruptions, ProgramWordStep, HostWaits, UNCHANGED handle
  PROVE  UpdateInv'
<1>1. phase = "programming" /\ UNCHANGED <<usb, outEp, unlocked>>
  BY WordStepOutline DEF FinishHandler
<1>2. PICK pkt \in req :
        /\ cur < Len(pkt.words)
        /\ IF ~Programmable(pkt.arg + cur)
           THEN FinishHandler(Answer(FALSE, Zero)) /\ UNCHANGED flash
           ELSE \E stored \in MayStore(flash[pkt.arg + cur + 1], pkt.words[cur + 1]) :
                  /\ flash' = [flash EXCEPT ![pkt.arg + cur + 1] = stored]
                  /\ IF ReadsBack(stored, pkt.words[cur + 1])
                     THEN /\ cur' = cur + 1
                          /\ UNCHANGED <<phase, unlocked, bkp, dbp, req, pipeVars>>
                     ELSE FinishHandler(Answer(FALSE, Zero))
  <2>1. PICK pkt \in req :
          /\ cur < Len(pkt.words)
          /\ \/ ~Programmable(pkt.arg + cur) /\ WordFails /\ UNCHANGED flash
             \/ WordInArea(pkt.arg + cur, pkt.words[cur + 1])
             \/ WordInFront(pkt.arg + cur)
    BY DEF ProgramWordStep
  <2>2. PICK p \in Accepted : Writes(pkt, p)
    BY <1>1 DEF UpdateInv, Programming, Shape
  <2>3. pkt.arg \in Nat /\ cur \in Nat /\ Chunk(pkt, p)
    BY <2>2 DEF Writes, Chunk, UpdateInv, Shape
  <2>4. pkt.arg + cur < ProgramWords
    BY <2>1, <2>3, ChunkInArea
  <2> QED
    BY <2>1, <2>3, <2>4, WordInItsPlace
<1>3. PICK p \in Accepted : Writes(pkt, p)
  BY <1>1 DEF UpdateInv, Programming, Shape
<1>4. \A q \in req : q = pkt
  BY DEF UpdateInv, Shape
<1>5. CASE ~Programmable(pkt.arg + cur)
  <2>1. /\ phase' = "bootloader" /\ req' = {} /\ cur' = 0 /\ UNCHANGED flash
    BY <1>2, <1>5 DEF FinishHandler
  <2>2. Shape'
    BY <1>1, <2>1 DEF UpdateInv, Shape, HostWaits, Phases
  <2>3. InOrder' /\ ToolInOrder' /\ Counting'
    <3>1. ASSUME NEW q \in Accepted, NEW s \in Nat, WillHold(q, s)
          PROVE  s = Len(q) + 3
      <4>1. s = Len(q) + 3 \/ (Writes(pkt, q) /\ ChunkEnd(pkt) = s)
        BY <1>1, <1>4, <3>1 DEF WillHold
      <4>2. ASSUME Writes(pkt, q), ChunkEnd(pkt) = s PROVE s = Len(q) + 3
        <5>1. /\ pkt.arg + cur \in Nat /\ pkt.arg + cur + 1 <= s /\ s <= Len(q) + 3
              /\ Len(q) \in Nat /\ Len(q) + 3 <= ProgramWords
          BY <1>2, <4>2, NextWord DEF UpdateInv, Shape
        <5>2. pkt.arg + cur >= ProgramWords - 1
          BY <1>5, <5>1, Layout, AddressInArea
        <5> QED
          BY <5>1, <5>2, Layout
      <4> QED
        BY <4>1, <4>2
    <3>2. \A q \in Accepted : \A s \in Nat : WillHold(q, s) => WillHold(q, s)'
      BY <3>1 DEF WillHold
    <3> QED
      BY <1>1, <3>2, SteadyKeepsOrder
  <2>4. /\ Attached' /\ FlashIsStage' /\ Erasing' /\ Programming'
        /\ RunsOnlyCompleteFirmware'
    BY <1>1, <2>1 DEF UpdateInv, Attached, FlashIsStage, FirstPageErased, Erasing,
                      Programming, RunsOnlyCompleteFirmware
  <2> QED
    BY <2>2, <2>3, <2>4 DEF UpdateInv
<1>6. CASE Programmable(pkt.arg + cur)
  <2>1. /\ pkt.arg + cur \in Nat /\ pkt.arg + cur + 1 \in Index
        /\ flash[pkt.arg + cur + 1] = Erased /\ unlocked
    BY <1>2, <1>3, NextWord DEF Writes, UpdateInv, Shape
  <2>2. MayStore(flash[pkt.arg + cur + 1], pkt.words[cur + 1]) = {pkt.words[cur + 1]}
    BY <2>1 DEF MayStore, Programmed
  <2>3. /\ flash' = [flash EXCEPT ![pkt.arg + cur + 1] = pkt.words[cur + 1]]
        /\ cur' = cur + 1 /\ UNCHANGED <<phase, req>>
    BY <1>2, <1>6, <2>2 DEF ReadsBack
  <2>4. ASSUME NEW q \in Accepted, Writes(pkt, q)
        PROVE  Writes(pkt, q)' /\ flash' = Written(q, pkt.arg + cur + 1)
    <3>1. flash' = Written(q, pkt.arg + cur + 1)
      BY <1>2, <2>3, <2>4, NextWord DEF UpdateInv, Shape
    <3>2. pkt.arg \in Nat /\ cur \in Nat /\ Len(pkt.words) \in Nat
      BY <2>4 DEF Writes, Chunk, UpdateInv, Shape
    <3>3. pkt.arg + cur + 1 = pkt.arg + (cur + 1) /\ cur + 1 <= Len(pkt.words)
      BY <1>2, <3>2
    <3> QED
      BY <1>1, <2>3, <2>4, <3>1, <3>3 DEF Writes, Chunk
  <2>5. Shape'
    BY <1>1, <2>3 DEF UpdateInv, Shape, HostWaits
  <2>6. InOrder' /\ ToolInOrder' /\ Counting'
    <3>1. \A q \in Accepted : \A s \in Nat : WillHold(q, s) => WillHold(q, s)'
      BY <1>1, <1>4, <2>3, <2>4 DEF WillHold
    <3> QED
      BY <1>1, <3>1, SteadyKeepsOrder
  <2>7. FlashIsStage'
    <3>1. /\ pkt.arg + cur + 1 <= ChunkEnd(pkt) /\ ChunkEnd(pkt) <= Len(p) + 3
          /\ Len(p) \in Nat
      BY <1>2, <1>3, NextWord DEF UpdateInv, Shape
    <3>2. pkt.arg + cur + 1 \in 0..(Len(p) + 3)
      <4>1. ChunkEnd(pkt) \in Nat
        BY <1>3 DEF Writes, Chunk, ChunkEnd
      <4> QED
        BY <2>1, <3>1, <4>1
    <3> QED
      BY <1>3, <2>4, <3>2 DEF FlashIsStage
  <2>8. Programming'
    BY <1>3, <2>3, <2>4 DEF Programming
  <2>9. Attached' /\ Erasing' /\ RunsOnlyCompleteFirmware'
    BY <1>1, <2>3 DEF UpdateInv, Attached, Erasing, RunsOnlyCompleteFirmware
  <2> QED
    BY <2>5, <2>6, <2>7, <2>8, <2>9 DEF UpdateInv
<1> QED
  BY <1>5, <1>6

LEMMA ProgramDoneInv ==
  ASSUME UpdateInv, ProgramDone, HostWaits, UNCHANGED handle
  PROVE  UpdateInv'
<1>1. /\ phase = "programming" /\ phase' = "bootloader" /\ req' = {} /\ cur' = 0
      /\ UNCHANGED <<usb, outEp, unlocked, flash>>
  BY DEF ProgramDone, FinishHandler
<1>2. PICK pkt \in req : cur = Len(pkt.words)
  BY DEF ProgramDone
<1>3. \A q \in req : q = pkt
  BY DEF UpdateInv, Shape
<1>4. InOrder' /\ ToolInOrder' /\ Counting'
  <2>1. ASSUME NEW p \in Accepted, NEW s \in Nat, WillHold(p, s)
        PROVE  WillHold(p, s)'
    <3>1. CASE s = Len(p) + 3
      BY <3>1 DEF WillHold
    <3>2. CASE Writes(pkt, p) /\ ChunkEnd(pkt) = s
      <4>1. unlocked /\ flash = Written(p, s)
        BY <1>2, <3>2 DEF Writes, ChunkEnd
      <4> QED
        BY <1>1, <4>1 DEF WillHold
    <3> QED
      BY <1>1, <1>3, <2>1, <3>1, <3>2 DEF WillHold
  <2> QED
    BY <1>1, <2>1, SteadyKeepsOrder
<1>5. Shape'
  BY <1>1 DEF UpdateInv, Shape, HostWaits, Phases
<1>6. /\ Attached' /\ FlashIsStage' /\ Erasing' /\ Programming'
      /\ RunsOnlyCompleteFirmware'
  BY <1>1 DEF UpdateInv, Attached, FlashIsStage, FirstPageErased, Erasing,
              Programming, RunsOnlyCompleteFirmware
<1> QED
  BY <1>4, <1>5, <1>6 DEF UpdateInv

-----------------------------------------------------------------------------
(* Requests.                                                                *)

\* A request is answered and nothing else changes: it was neither an erase nor
\* a flash request, or the firmware does not know these.
LEMMA JustReplyInv ==
  ASSUME UpdateInv, HostWaits, UNCHANGED handle,
         NEW pkt \in outEp, NEW answer, JustReply(pkt, answer),
         phase = "firmware" \/ pkt.op \notin {"erase", "flash"}
  PROVE  UpdateInv'
<1>1. outEp' = {} /\ UNCHANGED <<usb, phase, flash, unlocked, req, cur>>
  BY DEF JustReply, TakeRequest, chipVars
<1>2. InOrder' /\ ToolInOrder' /\ Counting'
  <2>1. pkt.op = "erase" => \A p \in Accepted : WillHold(p, 0)'
    BY <1>1 DEF WillHold
  <2>2. \A p \in Accepted :
          Chunk(pkt, p) /\ WillHold(p, pkt.arg) => WillHold(p, ChunkEnd(pkt))'
    BY <1>1 DEF WillHold, Chunk
  <2> QED
    BY <1>1, <2>1, <2>2, TakenKeepsOrder
<1>3. Shape'
  BY <1>1 DEF UpdateInv, Shape, HostWaits
<1>4. /\ Attached' /\ FlashIsStage' /\ Erasing' /\ Programming'
      /\ RunsOnlyCompleteFirmware'
  BY <1>1 DEF UpdateInv, Attached, FlashIsStage, FirstPageErased, Erasing,
              Programming, Writes, RunsOnlyCompleteFirmware, HoldsAProgram
<1> QED
  BY <1>2, <1>3, <1>4 DEF UpdateInv

LEMMA HandleResetInv ==
  ASSUME UpdateInv, HostWaits, UNCHANGED handle,
         NEW pkt \in outEp, HandleReset(pkt), phase \in {"bootloader", "firmware"}
  PROVE  UpdateInv'
<1>1. /\ outEp' = {} /\ phase' = "resetting" /\ pkt.op = "reset"
      /\ UNCHANGED <<usb, flash, unlocked, req, cur>>
  BY DEF HandleReset, TakeRequest
<1>2. InOrder' /\ ToolInOrder' /\ Counting'
  <2>1. \A p \in Accepted : \A s \in Nat : WillHold(p, s)'
    BY <1>1 DEF WillHold
  <2>2. \A p : ~Chunk(pkt, p)
    BY <1>1 DEF Chunk
  <2> QED
    BY <1>1, <2>1, <2>2, TakenKeepsOrder
<1>3. Shape'
  BY <1>1 DEF UpdateInv, Shape, HostWaits, Phases
<1>4. /\ Attached' /\ FlashIsStage' /\ Erasing' /\ Programming'
      /\ RunsOnlyCompleteFirmware'
  BY <1>1 DEF UpdateInv, Attached, FlashIsStage, FirstPageErased, Erasing,
              Programming, RunsOnlyCompleteFirmware
<1> QED
  BY <1>2, <1>3, <1>4 DEF UpdateInv

LEMMA HandleEraseInv ==
  ASSUME UpdateInv, HostWaits, UNCHANGED handle,
         NEW pkt \in outEp, HandleErase(pkt), phase = "bootloader"
  PROVE  UpdateInv'
<1>1. /\ outEp' = {} /\ phase' = "erasing" /\ pkt.op = "erase" /\ unlocked' = TRUE
      /\ req' = {pkt} /\ cur' = 0 /\ UNCHANGED <<usb, flash>>
  BY DEF HandleErase, TakeRequest
<1>2. InOrder' /\ ToolInOrder' /\ Counting'
  <2>1. \A p \in Accepted : WillHold(p, 0)'
    BY <1>1 DEF WillHold
  <2>2. \A p : ~Chunk(pkt, p)
    BY <1>1 DEF Chunk
  <2> QED
    BY <1>1, <2>1, <2>2, TakenKeepsOrder
<1>3. Shape'
  BY <1>1 DEF UpdateInv, Shape, HostWaits, Phases
<1>4. Erasing'
  <2>1. \A i \in Index : ~(i <= 0)
    BY Layout DEF Index
  <2>2. 0 * PageWords = 0
    BY PageWordsBelow
  <2> QED
    BY <1>1, <2>1, <2>2 DEF Erasing
<1>5. Attached' /\ FlashIsStage' /\ Programming' /\ RunsOnlyCompleteFirmware'
  BY <1>1 DEF UpdateInv, Attached, FlashIsStage, FirstPageErased,
              Programming, RunsOnlyCompleteFirmware
<1> QED
  BY <1>2, <1>3, <1>4, <1>5 DEF UpdateInv

\* A flash request is in order, so what it continues is in the flash.
LEMMA HandleFlashInv ==
  ASSUME UpdateInv, HostWaits, UNCHANGED handle,
         NEW pkt \in outEp, HandleFlash(pkt), phase = "bootloader"
  PROVE  UpdateInv'
<1>1. PICK p \in Accepted : Chunk(pkt, p) /\ WillHold(p, pkt.arg)
  BY DEF UpdateInv, InOrder, HandleFlash
<1>2. ~(Len(pkt.words) > PacketWords)
  BY <1>1, BootloaderAssumption DEF Chunk
<1>3. /\ outEp' = {} /\ phase' = "programming" /\ pkt.op = "flash"
      /\ req' = {pkt} /\ cur' = 0 /\ UNCHANGED <<usb, flash, unlocked>>
  BY <1>2 DEF HandleFlash, TakeRequest
<1>4. ASSUME NEW q \in Accepted, Chunk(pkt, q), WillHold(q, pkt.arg)
      PROVE  Writes(pkt, q)'
  <2>1. Len(q) \in Nat /\ pkt.arg \in Nat /\ Len(pkt.words) \in 1..PacketWords
        /\ pkt.arg + Len(pkt.words) <= Len(q) + 3
    BY <1>4, ImageWords DEF Chunk, Accepted
  <2>2. pkt.arg # Len(q) + 3
    BY <2>1, BootloaderAssumption
  <2>3. unlocked /\ flash = Written(q, pkt.arg)
    BY <1>4, <2>2 DEF WillHold
  <2>4. pkt.arg + 0 = pkt.arg /\ 0 <= Len(pkt.words)
    BY <2>1, BootloaderAssumption
  <2> QED
    BY <1>3, <1>4, <2>3, <2>4 DEF Writes, Chunk
<1>5. InOrder' /\ ToolInOrder' /\ Counting'
  <2>1. \A q \in Accepted :
          Chunk(pkt, q) /\ WillHold(q, pkt.arg) => WillHold(q, ChunkEnd(pkt))'
    BY <1>3, <1>4 DEF WillHold, ChunkEnd
  <2> QED
    BY <1>3, <2>1, TakenKeepsOrder
<1>6. Shape'
  BY <1>3 DEF UpdateInv, Shape, HostWaits, Phases
<1>7. Programming'
  BY <1>1, <1>3, <1>4 DEF Programming
<1>8. Attached' /\ FlashIsStage' /\ Erasing' /\ RunsOnlyCompleteFirmware'
  BY <1>3 DEF UpdateInv, Attached, FlashIsStage, FirstPageErased, Erasing,
              RunsOnlyCompleteFirmware
<1> QED
  BY <1>5, <1>6, <1>7, <1>8 DEF UpdateInv

\* The count of a verify request of the tool does not wrap.
LEMMA VerifyInArea ==
  ASSUME NEW pkt, HandleVerify(pkt), pkt.op = "verify" => pkt.arg = ProgramWords
  PROVE  JustReply(pkt, Answer(TRUE, CrcOf(flash, pkt.arg)))
<1>1. pkt.arg = ProgramWords /\ ~VerifyRefused(pkt.arg) /\ ~(pkt.arg > ProgramWords)
  BY Layout, AddressInArea DEF HandleVerify
<1> QED
  BY <1>1 DEF HandleVerify

LEMMA BootloaderRequestInv ==
  ASSUME UpdateInv, BootloaderRequest, HostWaits, UNCHANGED handle
  PROVE  UpdateInv'
<1>1. PICK pkt \in outEp :
        \/ HandleInfo(pkt) \/ HandleErase(pkt) \/ HandleFlash(pkt) \/ HandleVerify(pkt)
        \/ HandleBootloader(pkt) \/ HandleReset(pkt) \/ HandleDebug(pkt)
        \/ HandleUnknown(pkt)
  BY DEF BootloaderRequest
<1>2. phase = "bootloader"
  BY DEF BootloaderRequest
<1>3. CASE HandleErase(pkt)
  BY <1>2, <1>3, HandleEraseInv
<1>4. CASE HandleFlash(pkt)
  BY <1>2, <1>4, HandleFlashInv
<1>5. CASE HandleReset(pkt)
  BY <1>2, <1>5, HandleResetInv
<1>6. CASE \/ HandleInfo(pkt) \/ HandleVerify(pkt) \/ HandleBootloader(pkt)
           \/ HandleDebug(pkt) \/ HandleUnknown(pkt)
  <2>0. HandleVerify(pkt) => JustReply(pkt, Answer(TRUE, CrcOf(flash, pkt.arg)))
    BY VerifyInArea DEF UpdateInv, Shape
  <2>1. pkt.op \notin {"erase", "flash"} /\ \E answer : JustReply(pkt, answer)
    BY <1>6, <2>0 DEF HandleInfo, HandleVerify, HandleBootloader, HandleDebug, HandleUnknown
  <2> QED
    BY <2>1, JustReplyInv
<1> QED
  BY <1>1, <1>3, <1>4, <1>5, <1>6

LEMMA FirmwareRequestInv ==
  ASSUME UpdateInv, FirmwareRequest, HostWaits, UNCHANGED handle
  PROVE  UpdateInv'
<1>1. PICK pkt \in outEp :
        HandleReset(pkt) \/ JustReply(pkt, FirmwareAnswer(pkt))
  BY DEF FirmwareRequest
<1>2. phase = "firmware"
  BY DEF FirmwareRequest
<1> QED
  BY <1>1, <1>2, HandleResetInv, JustReplyInv

-----------------------------------------------------------------------------
(* Boot, resets and the bus.                                                *)

LEMMA BootInv ==
  ASSUME UpdateInv, EndWord # Zero, NoPhantoms, Boot, HostWaits, UNCHANGED handle
  PROVE  UpdateInv'
<1>1. /\ phase = "boot" /\ phase' \in {"bootloader", "firmware", "fault"}
      /\ phase' = "firmware" => "valid" \in FirmwareCheck(flash)
      /\ UNCHANGED <<usb, outEp, flash, unlocked, req, cur>>
  <2>1. CASE BootHeldByButton \/ BootByFlag
    BY <2>1 DEF BootHeldByButton, BootByFlag, pipeVars
  <2>2. CASE BootByContents
    <3>1. PICK outcome \in FirmwareCheck(flash) :
            phase' = CASE outcome = "valid"   -> "firmware"
                       [] outcome = "invalid" -> "bootloader"
                       [] outcome = "fault"   -> "fault"
      BY <2>2 DEF BootByContents
    <3>2. outcome \in {"valid", "invalid", "fault"}
      BY DEF FirmwareCheck
    <3> QED
      BY <2>2, <3>1, <3>2 DEF BootByContents, pipeVars
  <2> QED
    BY <2>1, <2>2 DEF Boot
<1>2. ~usb /\ outEp = {} /\ handle # "live"
  BY <1>1 DEF UpdateInv, Attached
<1>3. InOrder' /\ ToolInOrder' /\ Counting'
  BY <1>1, <1>2, DetachedKeepsOrder
<1>4. Shape'
  BY <1>1 DEF UpdateInv, Shape, HostWaits, Phases
<1>5. RunsOnlyCompleteFirmware'
  <2>1. ASSUME phase' = "firmware" PROVE HoldsAProgram
    BY <1>1, <2>1, ValidHoldsAProgram DEF UpdateInv
  <2> QED
    BY <1>1, <2>1 DEF RunsOnlyCompleteFirmware, HoldsAProgram
<1>6. Attached' /\ FlashIsStage' /\ Erasing' /\ Programming'
  BY <1>1, <1>2 DEF UpdateInv, Attached, FlashIsStage, FirstPageErased, Erasing,
                    Programming
<1> QED
  BY <1>3, <1>4, <1>5, <1>6 DEF UpdateInv

\* The device leaves the bus, whatever it does besides.
LEMMA DetachInv ==
  ASSUME UpdateInv, HostWaits, handle' = HandleAfter(usb'), PipeDown, UNCHANGED flash,
         \/ UNCHANGED chipVars
         \/ phase' = "boot" /\ unlocked' = FALSE /\ req' = {} /\ cur' = 0
  PROVE  UpdateInv'
<1>1. usb' = FALSE /\ outEp' = {} /\ handle' # "live" /\ handle' \in Handles
  BY DEF PipeDown, HandleAfter, UpdateInv, Shape, Handles
<1>2. InOrder' /\ ToolInOrder' /\ Counting'
  BY <1>1, DetachedKeepsOrder
<1>3. Shape'
  <2>1. CASE UNCHANGED chipVars
    BY <1>1, <2>1 DEF UpdateInv, Shape, HostWaits, chipVars
  <2>2. CASE phase' = "boot" /\ unlocked' = FALSE /\ req' = {} /\ cur' = 0
    BY <1>1, <2>2 DEF UpdateInv, Shape, HostWaits, Phases
  <2> QED
    BY <2>1, <2>2
<1>4. /\ Attached' /\ FlashIsStage' /\ Erasing' /\ Programming'
      /\ RunsOnlyCompleteFirmware'
  BY <1>1 DEF UpdateInv, Attached, FlashIsStage, FirstPageErased, Erasing,
              Programming, Writes, RunsOnlyCompleteFirmware, HoldsAProgram, chipVars
<1> QED
  BY <1>2, <1>3, <1>4 DEF UpdateInv

LEMMA EnumerateInv ==
  ASSUME UpdateInv, HostWaits, handle' = HandleAfter(usb'), Enumerate
  PROVE  UpdateInv'
<1>1. /\ phase \in {"bootloader", "firmware"} /\ ~usb /\ usb' = TRUE /\ outEp' = {}
      /\ UNCHANGED chipVars
  BY DEF Enumerate, PipeUp
<1>2. handle # "live" /\ UNCHANGED handle
  BY <1>1 DEF UpdateInv, Attached, HandleAfter
<1>3. InOrder' /\ ToolInOrder' /\ Counting'
  BY <1>1, <1>2, DetachedKeepsOrder
<1>4. Shape'
  BY <1>1, <1>2 DEF UpdateInv, Shape, HostWaits, chipVars
<1>5. /\ Attached' /\ FlashIsStage' /\ Erasing' /\ Programming'
      /\ RunsOnlyCompleteFirmware'
  BY <1>1 DEF UpdateInv, Attached, FlashIsStage, FirstPageErased, Erasing,
              Programming, Writes, RunsOnlyCompleteFirmware, HoldsAProgram, chipVars
<1> QED
  BY <1>3, <1>4, <1>5 DEF UpdateInv

LEMMA DeviceInv ==
  ASSUME UpdateInv, "wear" \notin Disruptions, EndWord # Zero, NoPhantoms, Device
  PROVE  UpdateInv'
<1>1. HostWaits /\ handle' = HandleAfter(usb') /\ DeviceStep
  BY DEF Device, HostWaits
<1>2. ASSUME usb' = usb PROVE UNCHANGED handle
  BY <1>1, <1>2, HandleStays
<1>3. CASE Boot
  BY <1>1, <1>2, <1>3, BootInv
      DEF Boot, BootHeldByButton, BootByFlag, BootByContents, pipeVars
<1>4. CASE BootloaderRequest
  <2>1. PICK pkt \in outEp :
          \/ HandleInfo(pkt) \/ HandleErase(pkt) \/ HandleFlash(pkt) \/ HandleVerify(pkt)
          \/ HandleBootloader(pkt) \/ HandleReset(pkt) \/ HandleDebug(pkt)
          \/ HandleUnknown(pkt)
    BY <1>4 DEF BootloaderRequest
  <2>2. ASSUME NEW answer, JustReply(pkt, answer) PROVE usb' = usb
    BY <2>2 DEF JustReply
  <2>3. usb' = usb
    BY <2>1, <2>2 DEF HandleInfo, HandleErase, HandleFlash, HandleVerify,
                      HandleBootloader, HandleReset, HandleDebug, HandleUnknown
  <2> QED
    BY <1>1, <1>2, <1>4, <2>3, BootloaderRequestInv
<1>5. CASE ErasePageStep
  BY <1>1, <1>2, <1>5, ErasePageInv DEF ErasePageStep, pipeVars
<1>6. CASE EraseDone
  BY <1>1, <1>2, <1>6, EraseDoneInv DEF EraseDone, FinishHandler
<1>7. CASE ProgramWordStep
  <2>1. usb' = usb
    BY <1>7, WordStepOutline DEF FinishHandler
  <2> QED
    BY <1>1, <1>2, <1>7, <2>1, ProgramWordInv
<1>8. CASE ProgramDone
  BY <1>1, <1>2, <1>8, ProgramDoneInv DEF ProgramDone, FinishHandler
<1>9. CASE FirmwareStep
  <2>1. usb' = usb
    BY <1>9 DEF FirmwareStep, FirmwareRequest, HandleReset, JustReply
  <2> QED
    BY <1>1, <1>2, <1>9, <2>1, FirmwareRequestInv DEF FirmwareStep
<1>10. CASE Enumerate
  BY <1>1, <1>10, EnumerateInv
<1>11. CASE SystemReset \/ PowerCycle \/ Rollover
  BY <1>1, <1>11, DetachInv DEF SystemReset, PowerCycle, Rollover, Restart
<1>12. CASE BusReset
  BY <1>1, <1>12, DetachInv DEF BusReset, chipVars
<1> QED
  BY <1>1, <1>3, <1>4, <1>5, <1>6, <1>7, <1>8, <1>9, <1>10, <1>11, <1>12
     DEF DeviceStep, BootloaderStep

-----------------------------------------------------------------------------
(* The tool.                                                                *)

\* While the tool takes a step the device keeps what it has.
LEMMA ToolMoves ==
  ASSUME UpdateInv, UNCHANGED <<chipVars, usb, outEp>>,
         hpc' \in HostPoints, step' \in Steps, handle' \in Handles,
         handle' = "live" => usb, prog' \in Programs, sent' \in Nat,
         ToolInOrder', Counting'
  PROVE  UpdateInv'
<1>1. /\ UNCHANGED <<phase, flash, unlocked, req, cur, usb, outEp>>
  BY DEF chipVars
<1>2. Shape' /\ Attached'
  BY <1>1 DEF UpdateInv, Shape, Attached
<1>3. InOrder'
  <2>1. \A p \in Accepted : \A s : WillHold(p, s) => WillHold(p, s)'
    BY <1>1 DEF WillHold, Writes
  <2> QED
    BY <1>1, <2>1 DEF UpdateInv, InOrder
<1>4. FlashIsStage' /\ Erasing' /\ Programming' /\ RunsOnlyCompleteFirmware'
  BY <1>1 DEF UpdateInv, FlashIsStage, FirstPageErased, Erasing, Programming, Writes,
              RunsOnlyCompleteFirmware, HoldsAProgram
<1> QED
  BY <1>2, <1>3, <1>4 DEF UpdateInv

LEMMA ExitInv ==
  ASSUME UpdateInv, UNCHANGED <<chipVars, pipeVars>>, NEW result, Exit(result)
  PROVE  UpdateInv'
<1>1. hpc' = "idle" /\ handle' = "null" /\ UNCHANGED <<step, prog, sent, usb, outEp>>
  BY DEF Exit, pipeVars
<1>2. ToolInOrder'
  BY <1>1 DEF ToolInOrder, Writing
<1>3. Counting'
  BY <1>1 DEF Counting
<1> QED
  BY <1>1, <1>2, <1>3, ToolMoves DEF UpdateInv, Shape, HostPoints, Handles

LEMMA RetryInv ==
  ASSUME UpdateInv, UNCHANGED <<chipVars, pipeVars>>, NEW q, RetryOrGiveUp(q),
         hpc # "idle", step \in {"ask", "modeReset"}
  PROVE  UpdateInv'
<1>1. CASE attempts = 1
  BY <1>1, ExitInv DEF RetryOrGiveUp
<1>2. CASE attempts # 1
  <2>1. hpc' = "sleep" /\ UNCHANGED <<step, want, handle, prog, sent, usb, outEp>>
    BY <1>2 DEF RetryOrGiveUp, pipeVars
  <2>2. ToolInOrder' /\ Counting'
    BY <2>1 DEF ToolInOrder, Writing, UpdateInv, Counting, Accepted
  <2> QED
    BY <2>1, <2>2, ToolMoves DEF UpdateInv, Shape, HostPoints, Attached
<1> QED
  BY <1>1, <1>2

LEMMA CloseInv ==
  ASSUME UpdateInv, UNCHANGED <<chipVars, pipeVars>>, CloseAndSleep,
         hpc # "idle", step = "modeReset"
  PROVE  UpdateInv'
<1>1. /\ hpc' = "sleep" /\ handle' = "closed"
      /\ UNCHANGED <<step, want, prog, sent, usb, outEp>>
  BY DEF CloseAndSleep, pipeVars
<1>2. ToolInOrder' /\ Counting'
  BY <1>1 DEF ToolInOrder, Writing, UpdateInv, Counting, Accepted
<1> QED
  BY <1>1, <1>2, ToolMoves DEF UpdateInv, Shape, HostPoints, Handles

LEMMA ExchangeFailedInv ==
  ASSUME UpdateInv, UNCHANGED <<chipVars, pipeVars>>, NEW q, ExchangeFailed(q),
         hpc # "idle"
  PROVE  UpdateInv'
<1>1. \/ step = "ask" /\ RetryOrGiveUp(q)
      \/ step = "modeReset" /\ CloseAndSleep
      \/ Exit("failed")
  BY DEF ExchangeFailed
<1> QED
  BY <1>1, RetryInv, CloseInv, ExitInv

\* The next exchange begins; the words of the file are sent only after the
\* erase request, and as long as there are some.
LEMMA BeginInv ==
  ASSUME UpdateInv, UNCHANGED <<chipVars, pipeVars>>, NEW x \in Steps, NEW q, Begin(x, q),
         hpc # "idle",
         x \in {"erase", "flash"} => want,
         x \in {"ask", "modeReset", "erase"} /\ want => sent = 0,
         x = "flash" => Writing /\ sent < Len(prog) + 3
  PROVE  UpdateInv'
<1>1. /\ hpc' = "send" /\ step' = x
      /\ UNCHANGED <<want, handle, prog, sent, usb, outEp>>
  BY DEF Begin, pipeVars
<1>2. Counting'
  BY <1>1 DEF UpdateInv, Counting, Accepted
<1>3. ToolInOrder'
  <2>1. CASE x # "flash"
    BY <1>1, <2>1 DEF ToolInOrder, Writing
  <2>2. CASE x = "flash"
    <3>1. ASSUME handle = "live" PROVE WillHoldAtEnd(prog, sent)'
      <4>1. WillHoldAtEnd(prog, sent)
        BY <2>2, <3>1 DEF UpdateInv, ToolInOrder
      <4>2. \A p, s : WillHold(p, s) => WillHold(p, s)'
        BY DEF WillHold, Writes, chipVars
      <4> QED
        BY <1>1, <4>1, <4>2 DEF WillHoldAtEnd
    <3> QED
      BY <1>1, <2>2, <3>1 DEF ToolInOrder
  <2> QED
    BY <2>1, <2>2
<1> QED
  BY <1>1, <1>2, <1>3, ToolMoves DEF UpdateInv, Shape, HostPoints, Attached

LEMMA ModeKnownInv ==
  ASSUME UpdateInv, UNCHANGED <<chipVars, pipeVars>>, hpc = "recv", step = "ask",
         NEW b, NEW q, ModeKnown(b, q)
  PROVE  UpdateInv'
<1>1. want => sent = 0
  BY DEF UpdateInv, Counting
<1>2. CASE b = want
  <2>1. (Begin("erase", q) /\ want) \/ Begin("debug", q)
    BY <1>2 DEF ModeKnown
  <2>2. "erase" \in Steps /\ "debug" \in Steps
    BY DEF Steps
  <2>3. CASE Begin("erase", q) /\ want
    BY <1>1, <2>2, <2>3, BeginInv
  <2>4. CASE Begin("debug", q)
    BY <1>1, <2>2, <2>4, BeginInv
  <2> QED
    BY <2>1, <2>3, <2>4
<1>3. CASE b # want /\ attempts = 1
  BY <1>3, ExitInv DEF ModeKnown
<1>4. CASE b # want /\ attempts # 1
  <2>1. /\ hpc' = "send" /\ step' = "modeReset"
        /\ UNCHANGED <<want, handle, prog, sent, usb, outEp>>
    BY <1>4 DEF ModeKnown, pipeVars
  <2>2. ToolInOrder' /\ Counting'
    BY <1>1, <2>1 DEF ToolInOrder, Writing, UpdateInv, Counting, Accepted, Steps
  <2> QED
    BY <2>1, <2>2, ToolMoves DEF UpdateInv, Shape, HostPoints, Steps, Attached
<1> QED
  BY <1>2, <1>3, <1>4

LEMMA ReplyOkInv ==
  ASSUME UpdateInv, UNCHANGED <<chipVars, pipeVars>>, hpc = "recv",
         NEW data, NEW q, ReplyOk(data, q)
  PROVE  UpdateInv'
<1>1. step \in Steps
  BY DEF UpdateInv, Shape
<1>2. {"erase", "flash", "verify", "reset"} \subseteq Steps
  BY DEF Steps
<1>3. CASE step = "ask"
  <2>1. PICK b : ModeKnown(b, q)
    BY <1>3 DEF ReplyOk
  <2> QED
    BY <1>3, <2>1, ModeKnownInv
<1>4. CASE step = "modeReset"
  BY <1>4, CloseInv DEF ReplyOk
<1>5. CASE step = "erase"
  <2>1. Begin("flash", q) /\ want /\ Writing /\ sent = 0 /\ prog \in Programs
    BY <1>5 DEF ReplyOk, UpdateInv, Counting, Writing, Shape
  <2>2. sent < Len(prog) + 3
    BY <2>1, ImageWords
  <2> QED
    BY <1>2, <2>1, <2>2, BeginInv
<1>6. CASE step = "flash"
  <2>1. Writing /\ want
    BY <1>6 DEF Writing, UpdateInv, Counting
  <2>2. CASE sent < Len(prog) + 3
    <3>1. Begin("flash", q)
      BY <1>6, <2>2 DEF ReplyOk
    <3> QED
      BY <1>2, <2>1, <2>2, <3>1, BeginInv
  <2>3. CASE ~(sent < Len(prog) + 3)
    <3>1. Begin("verify", q)
      BY <1>6, <2>3 DEF ReplyOk
    <3> QED
      BY <1>2, <3>1, BeginInv
  <2> QED
    BY <2>2, <2>3
<1>7. CASE step = "verify"
  <2>1. Begin("reset", q) \/ Exit("failed")
    BY <1>7 DEF ReplyOk
  <2> QED
    BY <1>2, <2>1, BeginInv, ExitInv
<1>8. CASE step \in {"reset", "debug"}
  <2>1. Exit("installed") \/ Exit("debugged")
    BY <1>8 DEF ReplyOk
  <2> QED
    BY <2>1, ExitInv
<1> QED
  BY <1>1, <1>3, <1>4, <1>5, <1>6, <1>7, <1>8 DEF Steps

\* A request of the flash command carries the next words of the image.
LEMMA RequestIsChunk ==
  ASSUME step = "flash", prog \in Accepted, sent \in Nat, sent < Len(prog) + 3
  PROVE  /\ LastWord(sent) \in Nat
         /\ Request.arg = sent
         /\ Chunk(Request, prog)
         /\ ChunkEnd(Request) = LastWord(sent)
<1>1. prog \in Programs /\ Len(prog) \in Nat
  BY ImageWords DEF Accepted
<1> DEFINE W == NumWord \cup {Num(Len(prog)), CrcOf(prog, Len(prog)), Zero}
           l == LastWord(sent)
           words == SubSeq(Image(prog), sent + 1, l)
<1>2. HostPacketWords \in Nat /\ HostPacketWords >= 1 /\ HostPacketWords = PacketWords
  BY HostAssumption, UpdateAssumption
<1>3. l \in Nat /\ sent < l /\ l <= Len(prog) + 3 /\ l - sent <= PacketWords
  BY <1>1, <1>2 DEF LastWord
<1>4. Image(prog) \in Seq(W) /\ Len(Image(prog)) = Len(prog) + 3
  BY <1>1, ImageWords
<1> HIDE DEF W, l
<1>5. Len(words) = l - sent /\ \A j \in 1..(l - sent) : words[j] = Image(prog)[sent + j]
  <2>1. sent + 1 \in Int /\ l \in Int /\ sent + 1 <= l /\ l - (sent + 1) + 1 = l - sent
    BY <1>1, <1>3
  <2>2. \A i \in (sent + 1)..l : Image(prog)[i] \in W
    BY <1>1, <1>3, <1>4
  <2>3. /\ Len(words) = l - (sent + 1) + 1
        /\ \A j \in 1..(l - (sent + 1) + 1) : words[j] = Image(prog)[(sent + 1) + j - 1]
    BY <2>1, <2>2, SubSeqProperties
  <2>4. \A j \in 1..(l - sent) : (sent + 1) + j - 1 = sent + j
    BY <1>1, <1>3
  <2> QED
    BY <2>1, <2>3, <2>4
<1>6. Request = Packet("flash", sent, words)
  BY DEF Request, l
<1>7. Request.op = "flash" /\ Request.arg = sent /\ Request.words = words
  BY <1>6 DEF Packet
<1>8. Len(words) \in 1..PacketWords /\ sent + Len(words) = l
  BY <1>1, <1>2, <1>3, <1>5
<1>9. Chunk(Request, prog)
  BY <1>1, <1>3, <1>5, <1>7, <1>8 DEF Chunk
<1>10. ChunkEnd(Request) = l
  BY <1>7, <1>8 DEF ChunkEnd
<1> QED
  BY <1>1, <1>3, <1>7, <1>9, <1>10 DEF l

\* What the tool asks for in each exchange.
LEMMA RequestOf ==
  ASSUME step \in Steps
  PROVE  /\ step = "ask" => Request.op = "bootloader"
         /\ step = "modeReset" => Request.op = "reset" /\ Request.arg = (IF want THEN 1 ELSE 0)
         /\ step = "erase" => Request.op = "erase"
         /\ step = "flash" => Request.op = "flash"
         /\ step = "verify" => Request.op = "verify" /\ Request.arg = ProgramWords
         /\ step = "reset" => Request.op = "reset" /\ Request.arg = 0
         /\ step = "debug" => Request.op = "debug"
BY DEF Request, Packet, Steps

LEMMA SendRequestInv ==
  ASSUME UpdateInv, UNCHANGED chipVars, SendRequest
  PROVE  UpdateInv'
<1>1. PICK pkt, p : pkt = Request /\ p = prog
  OBVIOUS
<1>2. /\ hpc = "send" /\ handle = "live" /\ outEp = {} /\ outEp' = {pkt} /\ prog' = p
      /\ hpc' = "recv" /\ sent' = IF step = "flash" THEN LastWord(sent) ELSE sent
      /\ UNCHANGED <<usb, step, want, handle>>
      /\ UNCHANGED <<phase, flash, unlocked, req, cur>>
  BY <1>1 DEF SendRequest, chipVars
<1>3. ASSUME NEW q, NEW s, WillHold(q, s) PROVE WillHold(q, s)'
  BY <1>2, <1>3 DEF WillHold, Writes
<1>4. /\ p \in Programs /\ sent' \in Nat
      /\ step = "flash" => prog \in Accepted /\ sent \in Nat /\ sent < Len(prog) + 3
  <2>1. step = "flash" => prog \in Accepted /\ sent \in Nat /\ sent < Len(prog) + 3
    BY <1>2 DEF UpdateInv, Shape, Counting, ToolInOrder
  <2> QED
    BY <1>1, <1>2, <2>1, RequestIsChunk DEF UpdateInv, Shape
<1>5. Shape' /\ Attached'
  <2>1. pkt.op = "verify" => pkt.arg = ProgramWords
    BY <1>1, RequestOf DEF UpdateInv, Shape, Steps
  <2> QED
    BY <1>2, <1>4, <2>1 DEF UpdateInv, Shape, Attached, HostPoints
<1>6. FlashIsStage' /\ Erasing' /\ Programming' /\ RunsOnlyCompleteFirmware'
  BY <1>2 DEF UpdateInv, FlashIsStage, FirstPageErased, Erasing, Programming, Writes,
              RunsOnlyCompleteFirmware, HoldsAProgram
<1>7. CASE step = "flash"
  <2>1. /\ p \in Accepted /\ Chunk(pkt, p) /\ pkt.arg = sent /\ ChunkEnd(pkt) = sent'
        /\ WillHold(p, pkt.arg)
    BY <1>1, <1>2, <1>4, <1>7, RequestIsChunk
       DEF UpdateInv, ToolInOrder, Writing, WillHoldAtEnd
  <2>2. WillHold(p, pkt.arg)'
    BY <1>3, <2>1
  <2>3. InOrder'
    BY <1>2, <2>1, <2>2 DEF InOrder
  <2>4. ToolInOrder'
    BY <1>2, <2>1, <2>2 DEF ToolInOrder, WillHoldAtEnd
  <2>5. Counting'
    BY <1>1, <1>2, <1>7, <2>1 DEF UpdateInv, Counting, Accepted
  <2> QED
    BY <1>5, <1>6, <2>3, <2>4, <2>5 DEF UpdateInv
<1>8. CASE step # "flash"
  <2>1. pkt.op # "flash" /\ (step = "erase" => pkt.op = "erase")
    BY <1>1, <1>8 DEF Request, Packet, UpdateInv, Shape, Steps
  <2>2. InOrder'
    BY <1>2, <2>1 DEF InOrder
  <2>3. Counting' /\ (step = "erase" => sent' = 0)
    BY <1>1, <1>2, <1>8 DEF UpdateInv, Counting, Accepted
  <2>4. ToolInOrder'
    BY <1>2, <1>8, <2>1, <2>3 DEF ToolInOrder, Writing, WillHoldAtEnd
  <2> QED
    BY <1>5, <1>6, <2>2, <2>3, <2>4 DEF UpdateInv
<1> QED
  BY <1>7, <1>8

LEMMA ReceiveInv ==
  ASSUME UpdateInv, UNCHANGED chipVars, ReceiveReply \/ ReceiveFails
  PROVE  UpdateInv'
<1>1. hpc = "recv" /\ UNCHANGED <<chipVars, pipeVars>>
  BY DEF ReceiveReply, ReceiveFails
<1>2. CASE ReceiveReply
  <2>1. ReplyOk(Head(hq).data, Tail(hq)) \/ ExchangeFailed(Tail(hq))
    BY <1>2 DEF ReceiveReply
  <2>2. PICK data, q : ReplyOk(data, q) \/ ExchangeFailed(q)
    BY <2>1
  <2> QED
    BY <1>1, <2>2, ReplyOkInv, ExchangeFailedInv
<1>3. CASE ReceiveFails
  <2>1. PICK q : ExchangeFailed(q)
    BY <1>3 DEF ReceiveFails
  <2> QED
    BY <1>1, <2>1, ExchangeFailedInv
<1> QED
  BY <1>2, <1>3

LEMMA ConnectInv ==
  ASSUME UpdateInv, UNCHANGED chipVars, ConnectOpens \/ ConnectFindsNothing
  PROVE  UpdateInv'
<1>1. /\ hpc = "connect" /\ step \in {"ask", "modeReset"} /\ (want => sent = 0)
      /\ UNCHANGED <<chipVars, pipeVars>> /\ "ask" \in Steps
  BY DEF ConnectOpens, ConnectFindsNothing, UpdateInv, Counting, Steps
<1>2. CASE ConnectOpens
  <2>1. /\ usb /\ hpc' = "send" /\ step' = "ask" /\ handle' = "live"
        /\ UNCHANGED <<want, prog, sent, usb, outEp>>
    BY <1>2 DEF ConnectOpens, pipeVars
  <2>2. ToolInOrder' /\ Counting'
    BY <1>1, <2>1 DEF ToolInOrder, Writing, UpdateInv, Counting, Accepted
  <2> QED
    BY <1>1, <2>1, <2>2, ToolMoves DEF UpdateInv, Shape, HostPoints, Handles
<1>3. CASE ConnectFindsNothing
  <2>1. PICK q : RetryOrGiveUp(q) \/ Begin("ask", q)
    BY <1>3 DEF ConnectFindsNothing
  <2> QED
    BY <1>1, <2>1, RetryInv, BeginInv
<1> QED
  BY <1>2, <1>3

LEMMA CommandInv ==
  ASSUME UpdateInv, UNCHANGED chipVars, HostCommand
  PROVE  UpdateInv'
<1>1. CASE StartDebug
  <2>1. /\ hpc' = "connect" /\ want' = FALSE /\ step' = "ask"
        /\ UNCHANGED <<handle, prog, sent, usb, outEp>>
    BY <1>1 DEF StartDebug, EnterMode, pipeVars
  <2>2. ToolInOrder' /\ Counting'
    BY <2>1 DEF ToolInOrder, Writing, Counting
  <2> QED
    BY <2>1, <2>2, ToolMoves DEF UpdateInv, Shape, HostPoints, Steps, Attached
<1>2. ASSUME NEW p \in Programs, StartFlash(p) PROVE UpdateInv'
  <2>1. hpc = "idle" /\ prog' = p /\ sent' = 0 /\ UNCHANGED <<handle, usb, outEp>>
    BY <1>2 DEF StartFlash, EnterMode, pipeVars
  <2>2. CASE FitsHostLimit(p) /\ EnterMode(TRUE)
    <3>1. hpc' = "connect" /\ step' = "ask" /\ p \in Accepted
      BY <1>2, <2>2 DEF EnterMode, Accepted
    <3>2. ToolInOrder' /\ Counting'
      BY <2>1, <3>1 DEF ToolInOrder, Writing, Counting, Accepted
    <3> QED
      BY <2>1, <3>1, <3>2, ToolMoves DEF UpdateInv, Shape, HostPoints, Steps, Attached
  <2>3. CASE UNCHANGED <<hpc, step>>
    <3>1. UNCHANGED <<hpc, step>>
      BY <2>3
    <3>2. ToolInOrder' /\ Counting'
      BY <2>1, <3>1 DEF ToolInOrder, Writing, Counting
    <3> QED
      BY <2>1, <3>1, <3>2, ToolMoves DEF UpdateInv, Shape, Attached
  <2> QED
    BY <1>2, <2>2, <2>3 DEF StartFlash
<1> QED
  BY <1>1, <1>2 DEF HostCommand

LEMMA HostInv ==
  ASSUME UpdateInv, Host
  PROVE  UpdateInv'
<1>1. UNCHANGED chipVars /\ HostStep(Settled)
  BY DEF Host
<1>2. CASE HostCommand
  BY <1>1, <1>2, CommandInv
<1>3. CASE ConnectOpens \/ ConnectFindsNothing
  BY <1>1, <1>3, ConnectInv
<1>4. CASE WakeUp(Settled)
  <2>1. /\ hpc = "sleep" /\ hpc' = "connect"
        /\ UNCHANGED <<step, want, handle, prog, sent, usb, outEp>>
    BY <1>4 DEF WakeUp, pipeVars
  <2>2. ToolInOrder' /\ Counting'
    BY <2>1 DEF ToolInOrder, Writing, UpdateInv, Counting, Accepted
  <2> QED
    BY <1>1, <2>1, <2>2, ToolMoves DEF UpdateInv, Shape, HostPoints, Attached
<1>5. CASE SendRequest
  BY <1>1, <1>5, SendRequestInv
<1>6. CASE SendFails
  BY <1>1, <1>6, ExchangeFailedInv DEF SendFails
<1>7. CASE UseAfterClose \/ Kill
  BY <1>1, <1>7, ExitInv DEF UseAfterClose, Kill
<1>8. CASE ReceiveReply \/ ReceiveFails
  BY <1>1, <1>8, ReceiveInv
<1>9. CASE CollectReport \/ DropReport
  <2>1. UNCHANGED <<hpc, step, want, handle, prog, sent, usb, outEp>>
    BY <1>9 DEF CollectReport, DropReport, hostVars
  <2>2. \A p, s : WillHold(p, s) => WillHold(p, s)'
    BY <1>1 DEF WillHold, Writes, chipVars
  <2>3. ToolInOrder' /\ Counting'
    BY <2>1, <2>2 DEF ToolInOrder, Writing, WillHoldAtEnd, UpdateInv, Counting, Accepted
  <2> QED
    BY <1>1, <2>1, <2>3, ToolMoves DEF UpdateInv, Shape, Attached
<1> QED
  BY <1>1, <1>2, <1>3, <1>4, <1>5, <1>6, <1>7, <1>8, <1>9 DEF HostStep, HostProgress

-----------------------------------------------------------------------------
(* The theorems.                                                            *)

LEMMA InitInv ==
  ASSUME Init
  PROVE  UpdateInv
<1>1. PICK c \in Contents : ChipInit(c)
  BY DEF Init
<1>2. /\ phase = "boot" /\ flash = c /\ unlocked = FALSE /\ req = {} /\ cur = 0
      /\ usb = FALSE /\ outEp = {}
      /\ hpc = "idle" /\ step = "ask" /\ handle = "null" /\ sent = 0 /\ prog \in Programs
  BY <1>1 DEF Init, ChipInit, NoHandler, PipeInit, HostInit
<1>3. FlashIsStage /\ DOMAIN flash = Index /\ flash = [i \in Index |-> flash[i]]
  <2>1. CASE c = [i \in Index |-> Erased]
    <3>1. \A i \in 1..PageWords : i \in Index
      BY Layout DEF Index
    <3> QED
      BY <1>2, <2>1, <3>1 DEF FlashIsStage, FirstPageErased
  <2>2. ASSUME NEW p \in Programs, Holds(c, p)
        PROVE  FlashIsStage /\ DOMAIN flash = Index /\ flash = [i \in Index |-> flash[i]]
    <3>1. p \in Accepted /\ Len(p) + 3 \in 0..(Len(p) + 3)
      BY <2>2, ImageWords DEF Holds, Accepted
    <3>2. flash = Written(p, Len(p) + 3)
      BY <1>2, <2>2 DEF Holds, Buffer, Written
    <3> QED
      BY <3>1, <3>2 DEF FlashIsStage, Written
  <2> QED
    BY <2>1, <2>2, UpdateAssumption
<1>4. Shape
  BY <1>2, <1>3 DEF Shape, Phases, Steps, HostPoints, Handles
<1>5. /\ Attached /\ Erasing /\ Programming /\ InOrder /\ ToolInOrder /\ Counting
      /\ RunsOnlyCompleteFirmware
  BY <1>2 DEF Attached, Erasing, Programming, InOrder, ToolInOrder, Counting,
              RunsOnlyCompleteFirmware
<1> QED
  BY <1>3, <1>4, <1>5 DEF UpdateInv

LEMMA StutterInv ==
  ASSUME UpdateInv, UNCHANGED vars
  PROVE  UpdateInv'
<1>1. UNCHANGED <<chipVars, pipeVars, hostVars>>
  BY DEF vars, deviceVars
<1>2. UNCHANGED <<hpc, step, want, handle, prog, sent, usb, outEp>>
  BY <1>1 DEF pipeVars, hostVars
<1>3. \A p, s : WillHold(p, s) => WillHold(p, s)'
  BY <1>1 DEF WillHold, Writes, chipVars
<1>4. ToolInOrder' /\ Counting'
  BY <1>2, <1>3 DEF ToolInOrder, Writing, WillHoldAtEnd, UpdateInv, Counting, Accepted
<1> QED
  BY <1>1, <1>2, <1>4, ToolMoves DEF UpdateInv, Shape, Attached

\* The argument of module UpdateInvariant holds in every reachable state.
THEOREM UpdateIsOrdered ==
  ASSUME "wear" \notin Disruptions, EndWord # Zero, NoPhantoms
  PROVE  Spec => []UpdateInv
<1>1. Init => UpdateInv
  BY InitInv
<1>2. UpdateInv /\ [Next]_vars => UpdateInv'
  BY DeviceInv, HostInv, StutterInv DEF Next
<1> QED
  BY <1>1, <1>2, PTL DEF Spec

\* The bootloader starts the firmware only when the area holds one of the
\* programs with its trailer, complete, whatever interrupted the updates
\* before (firmware_is_valid, flash_program).
THEOREM FirmwareIsComplete ==
  ASSUME "wear" \notin Disruptions, EndWord # Zero, NoPhantoms
  PROVE  Spec => []RunsOnlyCompleteFirmware
<1>1. UpdateInv => RunsOnlyCompleteFirmware
  BY DEF UpdateInv
<1> QED
  BY <1>1, UpdateIsOrdered, PTL

\* Every cell that a flash request reaches is erased: requests that a tool
\* left behind do not write over the words of the next one (erase_program,
\* my_flash_program_word).
THEOREM WordsGoIntoErasedCells ==
  ASSUME "wear" \notin Disruptions, EndWord # Zero, NoPhantoms
  PROVE  Spec => []ProgramsOnlyErasedWords
<1>1. UpdateInv => ProgramsOnlyErasedWords
  <2> SUFFICES ASSUME UpdateInv, phase = "programming", NEW pkt \in req,
                      NEW k \in (cur + 1)..Len(pkt.words), pkt.arg + k \in Index
               PROVE  flash[pkt.arg + k] = Erased
    BY DEF ProgramsOnlyErasedWords
  <2>1. PICK p \in Accepted : Writes(pkt, p)
    BY DEF UpdateInv, Programming, Shape
  <2>2. /\ pkt.arg \in Nat /\ cur \in Nat /\ Len(pkt.words) \in Nat
        /\ flash = Written(p, pkt.arg + cur)
    BY <2>1, BootloaderAssumption DEF Writes, Chunk, UpdateInv, Shape
  <2>3. ~(pkt.arg + k <= pkt.arg + cur)
    BY <2>2
  <2> QED
    BY <2>2, <2>3 DEF Written
<1> QED
  BY <1>1, UpdateIsOrdered, PTL
=============================================================================
