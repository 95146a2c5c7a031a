--------------------------- MODULE MCDeviceAlone ---------------------------
(***************************************************************************)
(* A device with two pages of three words and two words per flash request. *)
(* Byte addresses are those of an area that begins at 100; the largest     *)
(* word is 255, so the address of word 39 is 0 and that of word 64 is that *)
(* of the first word again.                                                *)
(***************************************************************************)
EXTENDS DeviceAlone

MCEndWord == Num(255)

\* The smallest program that can run: its second word, the address of the
\* reset handler, lies inside the area.  Its trailer needs three more words.
Program == <<Num(7), Num(104)>>

MCWords == {Num(0), Num(2), Num(7), Num(104), Num(200), Num(255), CrcOf(Program, 2)}

None == <<>>

\* Requests that write Program, that end behind the area, and that meet cells
\* already written; more words than fit in a packet; a length behind the area;
\* addresses in front of the area, and a length, that the sum wraps to; the
\* rest.
MCRequests ==
  { Packet("erase", 0, None),
    Packet("flash", 0, Program),
    Packet("flash", 4, <<Num(0), Num(0)>>),
    Packet("flash", 1, <<Num(104), Num(0)>>),
    Packet("flash", 0, <<Num(0), Num(0), Num(0)>>),
    Packet("flash", 63, <<Num(0), Num(7)>>),
    Packet("verify", 6, None),
    Packet("verify", 7, None),
    Packet("verify", 64, None),
    Packet("bootloader", 0, None),
    Packet("reset", 0, None),
    Packet("reset", 1, None),
    Packet("info", 0, None),
    Packet("debug", 0, None),
    Packet("unknown", 0, None) }

\* Erased flash; Program; an area whose search for a length finds word 200.
MCContents ==
  { [i \in Index |-> Erased],
    <<Num(7), Num(104), Num(2), CrcOf(Program, 2), Num(0), Erased>>,
    <<Num(200), Num(104), Num(0), Erased, Erased, Erased>> }
=============================================================================
