---------------------------- MODULE ProgramFlash ----------------------------
(***************************************************************************)
(* The program area of the flash, its layout (bootloader/memorymap.h), the *)
(* two ways the bootloader changes it (bootloader/protocol.c), the check   *)
(* the bootloader makes before it runs what is stored there                *)
(* (bootloader/main.c) and the image the host tool builds for it           *)
(* (application/main.cpp).  There is no state here: the modules below keep *)
(* the area in a variable and apply these operators to it.                 *)
(*                                                                         *)
(* The area is a sequence of 32-bit words.  Index i of the sequence is the *)
(* word at PROGRAM_AREA_BEGIN + 4 * (i - 1); addresses inside requests are *)
(* word offsets from the beginning of the area, so they count from zero.   *)
(* The program adds the beginning of the area to them in 32 bits.          *)
(***************************************************************************)
EXTENDS Naturals, Sequences

CONSTANTS
  ProgramWords,   \* words in the program area
  PageWords,      \* words in one flash page (PROGRAM_PAGE_SIZE / 4)
  AreaBegin,      \* PROGRAM_AREA_BEGIN
  MaxWord,        \* 0xFFFFFFFF, the largest word
  EndWord         \* what the bus returns for a read at PROGRAM_AREA_END

ASSUME LayoutAssumption ==
  /\ PageWords \in Nat /\ PageWords >= 2
  /\ ProgramWords \in Nat /\ ProgramWords >= 4
  /\ ProgramWords % PageWords = 0
  /\ AreaBegin \in Nat /\ AreaBegin > 0
  /\ MaxWord \in Nat /\ MaxWord >= AreaBegin + 4 * ProgramWords
  /\ (MaxWord + 1) % 4 = 0

AreaEnd == AreaBegin + 4 * ProgramWords
Index   == 1..ProgramWords
Pages   == ProgramWords \div PageWords

\* What is left of a number in a uint32_t.
Word32(n) == n % (MaxWord + 1)

\* The byte address of the word with index i, and the one that the program
\* computes for word offset a of a request.
AddressOf(i) == AreaBegin + 4 * (i - 1)
Address(a)   == Word32(AreaBegin + 4 * a)

-----------------------------------------------------------------------------
(* Words.  A word is a number, or the CRC of some words.  The CRC is        *)
(* idealised: it has no collisions and equals no number, except that the    *)
(* CRC of no words at all is the value crc_reset leaves in the CRC unit,    *)
(* 0xFFFFFFFF, which is also the value of an erased word.                   *)

Num(n)  == <<"num", n>>
Zero    == Num(0)
Erased  == Num(MaxWord)
NumWord == {Num(n) : n \in 0..MaxWord}

\* The first n words of f.
Prefix(f, n) == [i \in 1..n |-> f[i]]

\* The CRC of the first n words of f.
CrcOf(f, n) == IF n = 0 THEN Erased ELSE <<"crc", Prefix(f, n)>>

-----------------------------------------------------------------------------
(* Erasing and programming.                                                 *)

Blank(area) == \A i \in Index : area[i] = Erased

\* The words of page p, counted from zero.  The page after the last one has
\* no word of the area.
PageOf(p) == {i \in Index : p * PageWords < i /\ i <= (p + 1) * PageWords}

\* Mutant: the page after the last one takes the area with it.
ErasePagePastTheEnd(area, p) ==
  [i \in DOMAIN area \cup ((p * PageWords + 1)..((p + 1) * PageWords)) |->
     IF i \in Index \ PageOf(p) THEN area[i] ELSE Erased]

ErasePage(area, p) ==
  [i \in Index |-> IF i \in PageOf(p) THEN Erased ELSE area[i]]

\* What a flash cell holds after w is programmed over old: programming takes
\* effect on an erased cell, or when it clears every bit.
Programmed(old, w) == IF old = Erased \/ w = Zero THEN w ELSE old

\* The bound my_flash_program_word puts on the address: the last word of the
\* area is refused along with everything behind it.  An offset whose sum with
\* the beginning of the area wraps is not.
Programmable(a) == Address(a) < AreaEnd - 4

\* The address of offset a does not fit in 32 bits.
Wraps(a) == AreaBegin + 4 * a > MaxWord

-----------------------------------------------------------------------------
(* The check firmware_is_valid makes at boot.                               *)

IsNum(w) == w[1] = "num"

ResetVectorInArea(area) ==
  IsNum(area[2]) /\ area[2][2] >= AreaBegin /\ area[2][2] < AreaEnd

\* The backward search starts at the word at PROGRAM_AREA_END itself.
ReadWord(area, i) == IF i \in Index THEN area[i] ELSE EndWord

ZeroWords(area) == {i \in 3..(ProgramWords + 1) : ReadWord(area, i) = Zero}

\* Where the search stops, if it stops.
LastZero(area) == {z \in ZeroWords(area) : \A j \in ZeroWords(area) : j <= z}

\* The two words in front of the last zero are taken for the length and the
\* CRC of the program, whatever they are.
LengthInArea(area, z) == IsNum(area[z - 2]) /\ area[z - 2][2] <= ProgramWords

TrailerMatches(area) ==
  \E z \in LastZero(area) :
    LengthInArea(area, z) /\ area[z - 1] = CrcOf(area, area[z - 2][2])

LengthIsWild(area) == \E z \in LastZero(area) : ~LengthInArea(area, z)

\* Mutant: the CRC is not compared.
FirmwareCheckWithoutCrc(area) ==
  IF ~ResetVectorInArea(area) \/ LastZero(area) = {} THEN {"invalid"}
  ELSE IF LengthIsWild(area) THEN {"invalid", "fault"}
  ELSE {"valid"}

\* The outcomes the check can have.  The length is not compared with the size
\* of the area, so the CRC may be taken over addresses that are not flash:
\* then the read faults, or the CRC is that of something else.
FirmwareCheck(area) ==
  IF ~ResetVectorInArea(area) THEN {"invalid"}
  ELSE IF LengthIsWild(area) THEN {"invalid", "fault"}
  ELSE IF TrailerMatches(area) THEN {"valid"}
  ELSE {"invalid"}

-----------------------------------------------------------------------------
(* What the host tool writes: the program, its length, its CRC and a zero.  *)

Trailer(p) == <<Num(Len(p)), CrcOf(p, Len(p)), Zero>>

Image(p) == p \o Trailer(p)

\* MAX_PROGRAM_SIZE leaves room for the trailer.
FitsHostLimit(p) == Len(p) + 3 <= ProgramWords

\* program_buffer: the image, and erased words up to the end of the area.
Buffer(p) ==
  LET image == Image(p)
  IN  [i \in Index |-> IF i <= Len(p) + 3 THEN image[i] ELSE Erased]

\* The area holds program p, complete with its trailer.
Holds(area, p) == FitsHostLimit(p) /\ area = Buffer(p)

\* The area begins with p and its trailer; what is behind them does not matter.
BeginsWith(area, p) ==
  FitsHostLimit(p) /\ \A i \in 1..(Len(p) + 3) : area[i] = Image(p)[i]

\* Where the search for the trailer stops there is a length of zero and an
\* erased word, which is the CRC of no words.
TrailerOfNothing(area) ==
  \E z \in LastZero(area) : area[z - 2] = Zero /\ area[z - 1] = Erased

\* Inside the words of p there is a zero that the search may take for the end
\* of a trailer, and the words in front of it pass for a length and a CRC.
PhantomTrailer(p) ==
  \E z \in 3..Len(p) :
    /\ p[z] = Zero
    /\ p[z - 2][2] <= ProgramWords
    /\ p[z - 1] = CrcOf(p, p[z - 2][2])
=============================================================================
