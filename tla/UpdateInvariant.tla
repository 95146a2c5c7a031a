-------------------------- MODULE UpdateInvariant --------------------------
(***************************************************************************)
(* Why the firmware that runs is complete.  Requests are carried out in    *)
(* the order they are sent, and between two resets the device serves one   *)
(* session of the tool or the tail of the session before; so the flash is  *)
(* at every moment a beginning of an image with nothing behind it, or its  *)
(* first page is erased.  What the tool believes does not matter: even if  *)
(* it takes an old reply for the answer to its request, the request is     *)
(* carried out after the ones before it.                                   *)
(***************************************************************************)
EXTENDS FirmwareUpdate

\* Files that the tool starts to write.
Accepted == {p \in Programs : FitsHostLimit(p)}

\* The first k words of the image of p, and nothing behind them.
Written(p, k) == [i \in Index |-> IF i <= k THEN Image(p)[i] ELSE Erased]

FirstPageErased == \A i \in 1..PageWords : flash[i] = Erased

FlashIsStage ==
  \/ FirstPageErased
  \/ \E p \in Accepted : \E k \in 0..(Len(p) + 3) : flash = Written(p, k)

\* A flash request for some words of the image of p.
Chunk(pkt, p) ==
  /\ pkt.op = "flash"
  /\ pkt.arg \in Nat
  /\ Len(pkt.words) \in 1..PacketWords
  /\ pkt.arg + Len(pkt.words) <= Len(p) + 3
  /\ \A j \in 1..Len(pkt.words) : pkt.words[j] = Image(p)[pkt.arg + j]

ChunkEnd(pkt) == pkt.arg + Len(pkt.words)

\* The device is carrying out such a request.
Writes(pkt, p) ==
  /\ Chunk(pkt, p)
  /\ unlocked
  /\ cur <= Len(pkt.words)
  /\ flash = Written(p, pkt.arg + cur)

\* When the device has finished what it is doing, the words of p before s are
\* written and nothing else; or s is the end of the image and no request will
\* follow; or the device does not write any more in this session.
WillHold(p, s) ==
  \/ s = Len(p) + 3
  \/ phase \in {"firmware", "resetting"}
  \/ phase = "bootloader" /\ unlocked /\ flash = Written(p, s)
  \/ phase = "erasing" /\ s = 0
  \/ phase = "programming" /\ \E pkt \in req : Writes(pkt, p) /\ ChunkEnd(pkt) = s

\* The same when it has carried out the request that waits as well.
WillHoldAtEnd(p, s) ==
  IF outEp = {}
  THEN WillHold(p, s)
  ELSE \A pkt \in outEp :
         \/ pkt.op = "erase" /\ s = 0
         \/ Chunk(pkt, p) /\ ChunkEnd(pkt) = s /\ WillHold(p, pkt.arg)

\* The tool is between the erase request and the last flash request.
Writing ==
  \/ step = "flash" /\ hpc \in {"send", "recv"}
  \/ step = "erase" /\ hpc = "recv"

-----------------------------------------------------------------------------

Shape ==
  /\ phase \in Phases
  /\ step \in Steps
  /\ hpc \in HostPoints
  /\ handle \in Handles
  /\ prog \in Programs
  /\ cur \in Nat
  /\ sent \in Nat
  /\ usb \in BOOLEAN
  /\ unlocked \in BOOLEAN
  /\ DOMAIN flash = Index /\ flash = [i \in Index |-> flash[i]]
  /\ \A p, q \in outEp : p = q
  /\ \A p, q \in req : p = q
  /\ \A pkt \in outEp : pkt.op = "verify" => pkt.arg = ProgramWords

\* The device is on the bus only while it serves requests, and a handle is
\* live only while the device is on the bus.
Attached ==
  /\ phase \in {"boot", "fault"} => ~usb
  /\ ~usb => outEp = {} /\ handle # "live"

\* The pages in front of the loop index are erased.
Erasing ==
  phase = "erasing" =>
    /\ unlocked
    /\ \A i \in Index : i <= cur * PageWords => flash[i] = Erased

Programming ==
  phase = "programming" => \E p \in Accepted : \E pkt \in req : Writes(pkt, p)

\* A flash request that waits continues what will be written.
InOrder ==
  \A pkt \in outEp : pkt.op = "flash" =>
    \E p \in Accepted : Chunk(pkt, p) /\ WillHold(p, pkt.arg)

\* The tool's next flash request continues what will be written.
ToolInOrder ==
  /\ handle = "live" /\ Writing => WillHoldAtEnd(prog, sent)
  /\ hpc = "send" /\ step = "flash" => sent < Len(prog) + 3

\* A flash command works on an accepted file and counts its words from zero.
Counting ==
  hpc # "idle" =>
    /\ step \in {"erase", "flash"} => want
    /\ want => prog \in Accepted
    /\ want /\ step \in {"ask", "modeReset", "erase"} => sent = 0
    /\ hpc \in {"connect", "sleep"} => step \in {"ask", "modeReset"}

\* The inductive invariant.
UpdateInv ==
  /\ Shape
  /\ Attached
  /\ FlashIsStage
  /\ Erasing
  /\ Programming
  /\ InOrder
  /\ ToolInOrder
  /\ Counting
  /\ RunsOnlyCompleteFirmware

\* No two images are ever mixed: each word of the area is erased or belongs to
\* the same image.
OneImage ==
  \/ \A i \in Index : flash[i] = Erased
  \/ \E p \in Accepted : \A i \in Index : flash[i] \in {Erased, Buffer(p)[i]}

-----------------------------------------------------------------------------
(* With wear, images can be mixed: a page that was not erased keeps words   *)
(* of an older one, and the tool may take an old reply for the news that it *)
(* was erased.  What stays is that no word changes its place.  That is      *)
(* enough for the firmware that runs: a CRC stands in one place of one      *)
(* image only, and vouches for the words in front of it.                    *)

WordsInPlace ==
  \A i \in Index : flash[i] = Erased \/ \E p \in Accepted : flash[i] = Buffer(p)[i]

\* The words of a flash request are those of one image, in their place.
InPlace(pkt) ==
  /\ pkt.arg \in Nat /\ Len(pkt.words) \in Nat
  /\ pkt.arg + Len(pkt.words) <= ProgramWords
  /\ \E p \in Accepted : \A j \in 1..Len(pkt.words) : pkt.words[j] = Buffer(p)[pkt.arg + j]

RequestsInPlace ==
  /\ \A pkt \in outEp \cup req : pkt.op = "flash" => InPlace(pkt)
  /\ phase = "programming" => \A pkt \in req : pkt.op = "flash"

\* Inductive together with the types and SuccessInv.
WornInv == WordsInPlace /\ RequestsInPlace /\ RunsWholeFirmware
=============================================================================
