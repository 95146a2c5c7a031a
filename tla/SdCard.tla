------------------------------- MODULE SdCard -------------------------------
(***************************************************************************)
(* The card in the slot and the wire to it, as far as firmware/sdio.c       *)
(* depends on them: what a card answers in which of its modes, what can     *)
(* happen to a command on its way, and that the user moves cards about.     *)
(* None of this is in src/.                                                 *)
(***************************************************************************)
EXTENDS Naturals

CONSTANTS
  Kinds,   \* the cards there are: records [v2, hc, csd]; csd is the set of its bits that are one
  Rcas     \* the addresses that a card gives itself; zero is no address

ASSUME SdCardAssumption ==
  /\ 0 \in Rcas /\ Rcas \subseteq Nat
  /\ \A k \in Kinds : k.v2 \in BOOLEAN /\ k.hc \in BOOLEAN

VARIABLES
  slot,    \* the card in the slot: none or one
  calm     \* from now on nothing disturbs the wire and no card is moved

CardModes == {"idle", "ready", "ident", "stby", "tran"}

\* A card after power-on or CMD0.  "at" is the address of the block that it is
\* moving, "app" says that the next command is one for the application.
Fresh(kind) ==
  [kind |-> kind, mode |-> "idle", rca |-> 0, wide |-> FALSE, app |-> FALSE, at |-> {}]

\* What the driver reads of a response.
Plain == [ready |-> FALSE, ccs |-> FALSE, echo |-> FALSE, rca |-> 0, csd |-> {}]

-----------------------------------------------------------------------------
(* A card that has heard a command does one of these things; it ignores a   *)
(* command that its mode or its address does not allow.                     *)

Answer(card, resp) == [card |-> card, resp |-> resp]

\* The announcement of an application command holds for one command.
Forgets(card) == [card EXCEPT !.app = FALSE]

MovesTo(c, mode) == [Forgets(c) EXCEPT !.mode = mode]

MovesToAddress(c, rca) == [MovesTo(c, "stby") EXCEPT !.rca = rca]

\* A card that has time powers up; one of high capacity wants to be asked.
PowersUp(c) ==
  Answer(MovesTo(c, "ready"), [Plain EXCEPT !.ready = TRUE, !.ccs = c.kind.hc])

TakesAddress(c) ==
  {Answer(MovesToAddress(c, r), [Plain EXCEPT !.rca = r]) :
     r \in IF calm THEN Rcas \ {0} ELSE Rcas}

\* A card of the second version sends back the argument of CMD8.
Echoes(c) ==
  {Answer(Forgets(c), [Plain EXCEPT !.echo = e]) : e \in IF calm THEN {TRUE} ELSE BOOLEAN}

TellsStatus(c) ==
  {Answer(Forgets(c), [Plain EXCEPT !.ready = r]) : r \in IF calm THEN {TRUE} ELSE BOOLEAN}

Reactions(c, cmd, arg) ==
  LET mine == arg = c.rca
  IN CASE cmd = 0 -> {Answer(Fresh(c.kind), Plain)}
       [] cmd = 8 /\ c.mode = "idle" /\ c.kind.v2 -> Echoes(c)
       [] cmd = 55 /\ mine -> {Answer([c EXCEPT !.app = TRUE], Plain)}
       [] cmd = 41 /\ c.app /\ c.mode = "idle" ->
            (IF c.kind.hc /\ ~arg THEN {} ELSE {PowersUp(c)})
              \cup (IF calm /\ (c.kind.hc => arg) THEN {} ELSE {Answer(Forgets(c), Plain)})
       [] cmd = 2 /\ c.mode = "ready" -> {Answer(MovesTo(c, "ident"), Plain)}
       [] cmd = 3 /\ c.mode \in {"ident", "stby"} -> TakesAddress(c)
       [] cmd = 9 /\ c.mode = "stby" /\ mine ->
            {Answer(Forgets(c), [Plain EXCEPT !.csd = {c.kind.csd}])}
       [] cmd = 7 /\ c.mode = "stby" /\ mine -> {Answer(MovesTo(c, "tran"), Plain)}
       [] cmd = 6 /\ c.mode = "tran" /\ c.app -> {Answer([Forgets(c) EXCEPT !.wide = TRUE], Plain)}
       [] cmd = 13 /\ c.mode \in {"stby", "tran"} /\ mine -> TellsStatus(c)
       [] cmd = 16 /\ c.mode = "tran" -> {Answer(Forgets(c), Plain)}
       [] cmd \in {17, 24} /\ c.mode = "tran" ->
            {Answer([Forgets(c) EXCEPT !.at = {arg}], Plain)}
       [] OTHER -> {}

-----------------------------------------------------------------------------
(* The wire.                                                                *)

\* What the driver takes for the result of a command that was answered: CMD0
\* has no response, and the response to ACMD41 has no checksum.
Answered(cmd) == IF cmd = 41 THEN "crcfail" ELSE "success"
Unanswered(cmd) == IF cmd = 0 THEN "success" ELSE "timeout"

Answers(cmd, arg) == UNION {Reactions(c, cmd, arg) : c \in slot}

\* The outcomes of a command: what the driver sees and what becomes of the card.
Outcome(result, resp, cards) == [result |-> result, resp |-> resp, slot |-> cards]

Silence(cmd, cards) == Outcome(Unanswered(cmd), Plain, cards)

Ignored(cmd, arg) ==
  IF Answers(cmd, arg) # {} THEN {} ELSE {Silence(cmd, {Forgets(c) : c \in slot})}

Heard(cmd, a) == Outcome(Answered(cmd), a.resp, {a.card})

Garbled(resp, bits) == [resp EXCEPT !.ready = bits.ready, !.ccs = bits.ccs]

\* Noise loses the command, the response, or bits of a response.
Spoilt(cmd, a) ==
  IF cmd \in {0, 41} THEN {}
  ELSE {Outcome("crcfail", Garbled(a.resp, bits), {a.card}) :
          bits \in [ready : BOOLEAN, ccs : BOOLEAN]}

Noise(cmd, arg) ==
  {Silence(cmd, slot)}
    \cup UNION {Spoilt(cmd, a) \cup {Silence(cmd, {a.card})} : a \in Answers(cmd, arg)}

Exchange(cmd, arg) ==
  Ignored(cmd, arg) \cup {Heard(cmd, a) : a \in Answers(cmd, arg)}
    \cup (IF calm THEN {} ELSE Noise(cmd, arg))

-----------------------------------------------------------------------------
(* The user.                                                                *)

InsertCard(kind) == ~calm /\ slot = {} /\ slot' = {Fresh(kind)} /\ UNCHANGED calm

RemoveCard == ~calm /\ slot # {} /\ slot' = {} /\ UNCHANGED calm

CalmDown == ~calm /\ calm' = TRUE /\ UNCHANGED slot
=============================================================================
