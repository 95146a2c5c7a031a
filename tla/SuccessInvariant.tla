-------------------------- MODULE SuccessInvariant --------------------------
(***************************************************************************)
(* Why "Successfully flashed program" is the truth, although replies carry *)
(* no number and the tool takes the next one for the answer to its last    *)
(* request.  When it connects, three replies at most can still come from   *)
(* exchanges before that: one waits in the endpoint, one is due from the   *)
(* handler that runs, and one from the request that waits.  They arrive in *)
(* order and before any other.  Before it takes a reply for that to its    *)
(* verify request the tool has used up three replies: for the question     *)
(* what runs, for the erase request and for at least one flash request.    *)
(* So a CRC that it compares is not an old one; and when the one it waits  *)
(* for was computed, every erase and flash request had been carried out.   *)
(***************************************************************************)
EXTENDS FirmwareUpdate

\* A reply that says that the area holds the file of the command.
Vouches(answer) == answer.ok /\ answer.data = CrcOf(Buffer(prog), ProgramWords)

\* The reply in the endpoint, and the one that a running handler will write.
InReplies == IF inEp = {} THEN 0 ELSE 1
Due == IF phase \in {"erasing", "programming"} THEN 1 ELSE 0

\* Among the replies that the tool will get, those behind the first n do not
\* come from a verify request that was sent by now.
OldVerdictsWithin(n) ==
  /\ \A i \in DOMAIN hq : Vouches(hq[i]) => i <= n
  /\ \A a \in inEp : Vouches(a) => Len(hq) + 1 <= n
  /\ \A pkt \in outEp : pkt.op = "verify" => Len(hq) + InReplies + Due + 1 <= n

\* Nothing is under way that changes the area.
Quiet ==
  /\ phase \notin {"erasing", "programming"}
  /\ \A pkt \in outEp : pkt.op \notin {"erase", "flash"}

Installed == Holds(flash, prog) /\ Quiet

-----------------------------------------------------------------------------

Sequences ==
  /\ Len(hq) \in Nat /\ hq = [i \in 1..Len(hq) |-> hq[i]]
  /\ flash = [i \in Index |-> flash[i]]

\* The tool gets beyond the mode change only with a flash command, for a file
\* that it accepts.
Commanded ==
  /\ hpc \in HostPoints /\ step \in Steps
  /\ handle = "live" => usb
  /\ hpc # "idle" /\ want => FitsHostLimit(prog)
  /\ hpc # "idle" /\ step \in {"erase", "flash", "verify", "reset"} => want
  /\ hpc \in {"connect", "sleep"} => step \in {"ask", "modeReset"}

\* How far an old verdict may be away.
LateReplies ==
  hpc = "recv" \/ (hpc = "send" /\ handle = "live") =>
    /\ step = "ask" => OldVerdictsWithin(3)
    /\ step = "erase" => OldVerdictsWithin(2)
    /\ step = "flash" => OldVerdictsWithin(1)
    /\ step = "verify" /\ hpc = "send" => OldVerdictsWithin(0)

\* A verdict that arrives while the tool waits for one is true.
VerdictIsTrue ==
  step = "verify" /\ hpc = "recv" =>
    /\ \A i \in DOMAIN hq : Vouches(hq[i]) => Installed
    /\ \A a \in inEp : Vouches(a) => Installed

\* And it stays true until the command has ended, and after that.
StaysInstalled ==
  /\ step = "reset" /\ hpc \in {"send", "recv"} => Installed
  /\ report = "installed" => hpc = "idle" /\ Installed

\* The inductive invariant.
SuccessInv == Sequences /\ Commanded /\ LateReplies /\ VerdictIsTrue /\ StaysInstalled
=============================================================================
