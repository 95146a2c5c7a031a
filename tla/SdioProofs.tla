----------------------------- MODULE SdioProofs -----------------------------
(***************************************************************************)
(* The driver of the SD card knows the card that it works with, for every  *)
(* set of cards, every number of retries and every clock, and whatever     *)
(* becomes of commands, responses and cards (module SdioInvariant has the  *)
(* argument).  Only what the driver learns of the size depends on          *)
(* something: that the size fits in the 32 bits it is calculated in.       *)
(***************************************************************************)
EXTENDS SdioInvariant, TLAPS

-----------------------------------------------------------------------------
(* The card and the wire.                                                   *)

\* What a command never changes in a card that hears it.
Keeps(cmd, c, d) ==
  /\ d \in Cards /\ d.kind = c.kind
  /\ cmd \notin {0, 41} => (d.mode = "idle" <=> c.mode = "idle")
  /\ cmd \notin {0, 3} => d.rca = c.rca
  /\ cmd \notin {0, 6} => d.wide = c.wide
  /\ cmd \in {6, 13, 16, 17, 24, 55} => d.mode = c.mode

LEMMA ForgettingKeeps ==
  ASSUME NEW cmd, NEW c \in Cards
  PROVE  Forgets(c) \in Cards /\ Keeps(cmd, c, Forgets(c)) /\ Keeps(cmd, c, c)
BY DEF Forgets, Cards, Keeps

LEMMA FreshIsCard ==
  ASSUME NEW k \in Kinds
  PROVE  Fresh(k) \in Cards /\ Fresh(k).mode = "idle" /\ Fresh(k).at = {} /\ Fresh(k).kind = k
BY SdCardAssumption DEF Fresh, Cards, CardModes

LEMMA ModeChange ==
  ASSUME NEW c \in Cards, NEW mode \in CardModes
  PROVE  LET d == MovesTo(c, mode)
         IN d \in Cards /\ d.mode = mode /\ d.kind = c.kind /\ d.rca = c.rca /\ d.wide = c.wide
<1>1. ASSUME NEW e \in Cards
      PROVE  LET d == [e EXCEPT !.mode = mode]
             IN d \in Cards /\ d.mode = mode /\ d.kind = e.kind /\ d.rca = e.rca /\ d.wide = e.wide
  BY DEF Cards
<1>2. /\ Forgets(c) \in Cards /\ Forgets(c).kind = c.kind
      /\ Forgets(c).rca = c.rca /\ Forgets(c).wide = c.wide
  BY DEF Forgets, Cards
<1> QED
  BY <1>1, <1>2 DEF MovesTo

LEMMA AddressChange ==
  ASSUME NEW c \in Cards, NEW rca \in Rcas
  PROVE  LET d == MovesToAddress(c, rca)
         IN d \in Cards /\ d.mode = "stby" /\ d.kind = c.kind /\ d.rca = rca /\ d.wide = c.wide
<1>1. ASSUME NEW e \in Cards
      PROVE  LET d == [e EXCEPT !.rca = rca]
             IN d \in Cards /\ d.mode = e.mode /\ d.kind = e.kind /\ d.rca = rca /\ d.wide = e.wide
  BY DEF Cards
<1> QED
  BY <1>1, ModeChange DEF MovesToAddress, CardModes

\* What a card does with each command.
LEMMA React0 ==
  ASSUME NEW c \in Cards, NEW arg, NEW r \in Reactions(c, 0, arg)
  PROVE  r = Answer(Fresh(c.kind), Plain)
<1>1. Reactions(c, 0, arg) = {Answer(Fresh(c.kind), Plain)}
  BY DEF Reactions
<1> QED
  BY <1>1

LEMMA React8 ==
  ASSUME NEW c \in Cards, NEW arg, NEW r \in Reactions(c, 8, arg)
  PROVE  \E echo : r = Answer(Forgets(c), [Plain EXCEPT !.echo = echo])
<1>1. Reactions(c, 8, arg) = IF c.mode = "idle" /\ c.kind.v2 THEN Echoes(c) ELSE {}
  BY DEF Reactions
<1> QED
  BY <1>1 DEF Echoes

LEMMA React55 ==
  ASSUME NEW c \in Cards, NEW arg, NEW r \in Reactions(c, 55, arg)
  PROVE  arg = c.rca /\ r = Answer([c EXCEPT !.app = TRUE], Plain)
<1>1. Reactions(c, 55, arg) = IF arg = c.rca THEN {Answer([c EXCEPT !.app = TRUE], Plain)} ELSE {}
  BY DEF Reactions
<1> QED
  BY <1>1

LEMMA React41 ==
  ASSUME NEW c \in Cards, NEW arg, NEW r \in Reactions(c, 41, arg)
  PROVE  c.mode = "idle" /\ (r = PowersUp(c) \/ r = Answer(Forgets(c), Plain))
<1>1. Reactions(c, 41, arg) = 
    IF c.app /\ c.mode = "idle"
    THEN (IF c.kind.hc /\ ~arg THEN {} ELSE {PowersUp(c)})
           \cup (IF calm /\ (c.kind.hc => arg) THEN {} ELSE {Answer(Forgets(c), Plain)})
    ELSE {}
  BY DEF Reactions
<1> QED
  BY <1>1

LEMMA React2 ==
  ASSUME NEW c \in Cards, NEW arg, NEW r \in Reactions(c, 2, arg)
  PROVE  c.mode = "ready" /\ r = Answer(MovesTo(c, "ident"), Plain)
<1>1. Reactions(c, 2, arg) = IF c.mode = "ready" THEN {Answer(MovesTo(c, "ident"), Plain)} ELSE {}
  BY DEF Reactions
<1> QED
  BY <1>1

LEMMA React3 ==
  ASSUME NEW c \in Cards, NEW arg, NEW r \in Reactions(c, 3, arg)
  PROVE  /\ c.mode \in {"ident", "stby"}
         /\ \E rca \in Rcas :
              r = Answer(MovesToAddress(c, rca), [Plain EXCEPT !.rca = rca])
<1>1. Reactions(c, 3, arg) = IF c.mode \in {"ident", "stby"} THEN TakesAddress(c) ELSE {}
  BY DEF Reactions
<1> QED
  BY <1>1 DEF TakesAddress

LEMMA React9 ==
  ASSUME NEW c \in Cards, NEW arg, NEW r \in Reactions(c, 9, arg)
  PROVE  c.mode = "stby" /\ arg = c.rca /\ r = Answer(Forgets(c), [Plain EXCEPT !.csd = {c.kind.csd}])
<1>1. Reactions(c, 9, arg) = IF c.mode = "stby" /\ arg = c.rca THEN {Answer(Forgets(c), [Plain EXCEPT !.csd = {c.kind.csd}])} ELSE {}
  BY DEF Reactions
<1> QED
  BY <1>1

LEMMA React7 ==
  ASSUME NEW c \in Cards, NEW arg, NEW r \in Reactions(c, 7, arg)
  PROVE  c.mode = "stby" /\ arg = c.rca /\ r = Answer(MovesTo(c, "tran"), Plain)
<1>1. Reactions(c, 7, arg) = IF c.mode = "stby" /\ arg = c.rca THEN {Answer(MovesTo(c, "tran"), Plain)} ELSE {}
  BY DEF Reactions
<1> QED
  BY <1>1

LEMMA React6 ==
  ASSUME NEW c \in Cards, NEW arg, NEW r \in Reactions(c, 6, arg)
  PROVE  c.mode = "tran" /\ c.app /\ r = Answer([Forgets(c) EXCEPT !.wide = TRUE], Plain)
<1>1. Reactions(c, 6, arg) = IF c.mode = "tran" /\ c.app THEN {Answer([Forgets(c) EXCEPT !.wide = TRUE], Plain)} ELSE {}
  BY DEF Reactions
<1> QED
  BY <1>1

LEMMA React13 ==
  ASSUME NEW c \in Cards, NEW arg, NEW r \in Reactions(c, 13, arg)
  PROVE  \E ready : r = Answer(Forgets(c), [Plain EXCEPT !.ready = ready])
<1>1. Reactions(c, 13, arg) = IF c.mode \in {"stby", "tran"} /\ arg = c.rca THEN TellsStatus(c) ELSE {}
  BY DEF Reactions
<1> QED
  BY <1>1 DEF TellsStatus

LEMMA React16 ==
  ASSUME NEW c \in Cards, NEW arg, NEW r \in Reactions(c, 16, arg)
  PROVE  c.mode = "tran" /\ r = Answer(Forgets(c), Plain)
<1>1. Reactions(c, 16, arg) = IF c.mode = "tran" THEN {Answer(Forgets(c), Plain)} ELSE {}
  BY DEF Reactions
<1> QED
  BY <1>1

LEMMA ReactTransfer ==
  ASSUME NEW c \in Cards, NEW cmd \in {17, 24}, NEW arg, NEW r \in Reactions(c, cmd, arg)
  PROVE  c.mode = "tran" /\ r = Answer([Forgets(c) EXCEPT !.at = {arg}], Plain)
<1>1. Reactions(c, cmd, arg) = IF c.mode = "tran" THEN {Answer([Forgets(c) EXCEPT !.at = {arg}], Plain)} ELSE {}
  BY DEF Reactions
<1> QED
  BY <1>1

\* The commands that the driver sends.
Commanded == {0, 2, 3, 6, 7, 8, 9, 13, 16, 17, 24, 41, 55}

LEMMA ReactionKeeps ==
  ASSUME NEW c \in Cards, NEW cmd \in Commanded, NEW arg, cmd \in {17, 24} => arg \in Nat,
         NEW r \in Reactions(c, cmd, arg)
  PROVE  Keeps(cmd, c, r.card)
<1>1. CASE cmd = 0
  <2>1. r = Answer(Fresh(c.kind), Plain)
    BY <1>1, React0
  <2> QED
    BY <1>1, <2>1, FreshIsCard DEF Answer, Forgets, Keeps, Cards, CardModes
<1>2. CASE cmd = 8
  <2>1. PICK echo : r = Answer(Forgets(c), [Plain EXCEPT !.echo = echo])
    BY <1>2, React8
  <2> QED
    BY <1>2, <2>1 DEF Answer, Forgets, Keeps, Cards, CardModes
<1>3. CASE cmd = 55
  <2>1. r = Answer([c EXCEPT !.app = TRUE], Plain)
    BY <1>3, React55
  <2> QED
    BY <1>3, <2>1 DEF Answer, Forgets, Keeps, Cards, CardModes
<1>4. CASE cmd = 41
  <2>1. c.mode = "idle" /\ (r = PowersUp(c) \/ r = Answer(Forgets(c), Plain))
    BY <1>4, React41
  <2>2. r.card = MovesTo(c, "ready") \/ r.card = Forgets(c)
    BY <2>1 DEF Answer, PowersUp
  <2>3. CASE r.card = MovesTo(c, "ready")
    BY <1>4, <2>1, <2>3, ModeChange DEF Keeps, CardModes
  <2>4. CASE r.card = Forgets(c)
    BY <2>4, ForgettingKeeps
  <2> QED
    BY <2>2, <2>3, <2>4
<1>5. CASE cmd = 2
  <2>1. c.mode = "ready" /\ r = Answer(MovesTo(c, "ident"), Plain)
    BY <1>5, React2
  <2>2. r.card = MovesTo(c, "ident")
    BY <2>1 DEF Answer
  <2> QED
    BY <1>5, <2>1, <2>2, ModeChange DEF Keeps, CardModes
<1>6. CASE cmd = 3
  <2>1. c.mode \in {"ident", "stby"}
    BY <1>6, React3
  <2>2. PICK rca \in Rcas :
          r = Answer(MovesToAddress(c, rca), [Plain EXCEPT !.rca = rca])
    BY <1>6, React3
  <2>3. r.card = MovesToAddress(c, rca)
    BY <2>2 DEF Answer
  <2> QED
    BY <1>6, <2>1, <2>3, AddressChange DEF Keeps, CardModes
<1>7. CASE cmd = 9
  <2>1. r = Answer(Forgets(c), [Plain EXCEPT !.csd = {c.kind.csd}])
    BY <1>7, React9
  <2> QED
    BY <1>7, <2>1 DEF Answer, Forgets, Keeps, Cards, CardModes
<1>8. CASE cmd = 7
  <2>1. c.mode = "stby" /\ r = Answer(MovesTo(c, "tran"), Plain)
    BY <1>8, React7
  <2>2. r.card = MovesTo(c, "tran")
    BY <2>1 DEF Answer
  <2> QED
    BY <1>8, <2>1, <2>2, ModeChange DEF Keeps, CardModes
<1>9. CASE cmd = 6
  <2>1. c.mode = "tran" /\ r = Answer([Forgets(c) EXCEPT !.wide = TRUE], Plain)
    BY <1>9, React6
  <2> QED
    BY <1>9, <2>1 DEF Answer, Forgets, Keeps, Cards, CardModes
<1>10. CASE cmd = 13
  <2>1. PICK ready : r = Answer(Forgets(c), [Plain EXCEPT !.ready = ready])
    BY <1>10, React13
  <2> QED
    BY <1>10, <2>1 DEF Answer, Forgets, Keeps, Cards, CardModes
<1>11. CASE cmd = 16
  <2>1. r = Answer(Forgets(c), Plain)
    BY <1>11, React16
  <2> QED
    BY <1>11, <2>1 DEF Answer, Forgets, Keeps, Cards, CardModes
<1>12. CASE cmd \in {17, 24}
  <2>1. r = Answer([Forgets(c) EXCEPT !.at = {arg}], Plain)
    BY <1>12, ReactTransfer
  <2> QED
    BY <1>12, <2>1 DEF Answer, Forgets, Keeps, Cards, CardModes
<1> QED
  BY <1>1, <1>2, <1>3, <1>4, <1>5, <1>6, <1>7, <1>8, <1>9, <1>10, <1>11, <1>12 DEF Commanded

\* What can come of a command.
LEMMA Outcomes ==
  ASSUME NEW cmd, NEW arg, NEW a \in Exchange(cmd, arg)
  PROVE  \/ a = Silence(cmd, slot)
         \/ a = Silence(cmd, {Forgets(c) : c \in slot})
         \/ \E c \in slot : \E r \in Reactions(c, cmd, arg) :
              a = Heard(cmd, r) \/ a = Silence(cmd, {r.card}) \/ a \in Spoilt(cmd, r)
<1>1. \A r \in Answers(cmd, arg) : \E c \in slot : r \in Reactions(c, cmd, arg)
  BY DEF Answers
<1>2. CASE a \in Ignored(cmd, arg)
  BY <1>2 DEF Ignored
<1>3. CASE a \in {Heard(cmd, r) : r \in Answers(cmd, arg)}
  BY <1>1, <1>3
<1>4. CASE a \in Noise(cmd, arg)
  BY <1>1, <1>4 DEF Noise
<1> QED
  BY <1>2, <1>3, <1>4 DEF Exchange

LEMMA OutcomeFields ==
  ASSUME NEW result, NEW resp, NEW cards
  PROVE  /\ Outcome(result, resp, cards).result = result
         /\ Outcome(result, resp, cards).resp = resp
         /\ Outcome(result, resp, cards).slot = cards
BY DEF Outcome

LEMMA Spoils ==
  ASSUME NEW cmd, NEW r, NEW a \in Spoilt(cmd, r)
  PROVE  /\ cmd \notin {0, 41} /\ a.result = "crcfail" /\ a.slot = {r.card}
         /\ \E bits \in [ready : BOOLEAN, ccs : BOOLEAN] :
              a.resp = Garbled(r.resp, bits)
<1>1. cmd \notin {0, 41}
  BY DEF Spoilt
<1>2. PICK bits \in [ready : BOOLEAN, ccs : BOOLEAN] :
        a = Outcome("crcfail", Garbled(r.resp, bits), {r.card})
  BY Zenon, <1>1 DEF Spoilt
<1>3. /\ a.result = "crcfail" /\ a.slot = {r.card}
      /\ a.resp = Garbled(r.resp, bits)
  BY <1>2 DEF Outcome
<1> QED
  BY <1>1, <1>3

\* A card is the one it was, whatever came of the command.
LEMMA ExchangeKeeps ==
  ASSUME NEW cmd \in Commanded, NEW arg, cmd \in {17, 24} => arg \in Nat,
         slot \subseteq Cards, \A c, d \in slot : c = d,
         NEW a \in Exchange(cmd, arg)
  PROVE  /\ a.slot \subseteq Cards /\ \A c, d \in a.slot : c = d
         /\ \A d \in a.slot : \E c \in slot : Keeps(cmd, c, d)
<1>1. CASE a = Silence(cmd, slot)
  <2>1. a.slot = slot
    BY <1>1 DEF Silence, Outcome
  <2> QED
    BY <2>1, ForgettingKeeps
<1>2. CASE a = Silence(cmd, {Forgets(c) : c \in slot})
  <2>1. a.slot = {Forgets(c) : c \in slot}
    BY <1>2 DEF Silence, Outcome
  <2> QED
    BY <2>1, ForgettingKeeps
<1>3. ASSUME NEW c \in slot, NEW r \in Reactions(c, cmd, arg),
             a = Heard(cmd, r) \/ a = Silence(cmd, {r.card}) \/ a \in Spoilt(cmd, r)
      PROVE  /\ a.slot \subseteq Cards /\ \A d, e \in a.slot : d = e
             /\ \A d \in a.slot : \E e \in slot : Keeps(cmd, e, d)
  <2>1. a.slot = {r.card}
    <3>1. CASE a = Heard(cmd, r) \/ a = Silence(cmd, {r.card})
      BY <3>1 DEF Heard, Silence, Outcome
    <3>2. CASE a \in Spoilt(cmd, r)
      BY <3>2, Spoils
    <3> QED
      BY <1>3, <3>1, <3>2
  <2>2. c \in Cards
    OBVIOUS
  <2>3. Keeps(cmd, c, r.card)
    BY <2>2, ReactionKeeps
  <2>4. r.card \in Cards
    BY <2>3 DEF Keeps
  <2> QED
    BY <2>1, <2>3, <2>4
<1> QED
  BY Outcomes, <1>1, <1>2, <1>3

\* A success is an answer of the card in the slot.
LEMMA SuccessIsHeard ==
  ASSUME NEW cmd \in Commanded \ {0, 41}, NEW arg, NEW a \in Exchange(cmd, arg), Succeeds(a)
  PROVE  \E c \in slot : \E r \in Reactions(c, cmd, arg) : a.slot = {r.card} /\ a.resp = r.resp
<1>1. a # Silence(cmd, slot) /\ a # Silence(cmd, {Forgets(c) : c \in slot})
  BY DEF Silence, Outcome, Unanswered, Succeeds
<1>2. PICK c \in slot : \E r \in Reactions(c, cmd, arg) :
              a = Heard(cmd, r) \/ a = Silence(cmd, {r.card}) \/ a \in Spoilt(cmd, r)
  BY <1>1, Outcomes
<1>3. PICK r \in Reactions(c, cmd, arg) :
              a = Heard(cmd, r) \/ a = Silence(cmd, {r.card}) \/ a \in Spoilt(cmd, r)
  BY <1>2
<1>4. a = Heard(cmd, r)
  <2>1. CASE a = Silence(cmd, {r.card})
    BY <2>1, OutcomeFields DEF Silence, Unanswered, Succeeds
  <2>2. CASE a \in Spoilt(cmd, r)
    BY <2>2, Spoils DEF Succeeds
  <2> QED
    BY <1>3, <2>1, <2>2
<1>5. a.slot = {r.card} /\ a.resp = r.resp
  BY <1>4 DEF Heard, Outcome
<1> QED
  BY <1>5

-----------------------------------------------------------------------------
(* The records of the driver.                                               *)

Labels == {"poll"} \cup InitSteps \cup TransferSteps

LEMMA CallsGoOn ==
  ASSUME call \in Calls, NEW label \in Labels
  PROVE  NextStep(label) \in Calls /\ NextStep(label).pc = label /\ NextStep(label).block = call.block
<1> DEFINE Tries == 0..(MaxRetries - 1)
           Deadlines == 0..MaxMillis
           Sets == {{}} \cup {{b} : b \in Blocks}
<1>1. call \in [pc : Labels, tries : Tries, deadline : Deadlines, block : Sets] /\ 0 \in Tries
  BY SdioAssumption DEF Calls, Labels
<1> HIDE DEF Tries, Deadlines, Sets
<1>2. /\ NextStep(label) \in [pc : Labels, tries : Tries, deadline : Deadlines, block : Sets]
      /\ NextStep(label).pc = label /\ NextStep(label).block = call.block
  BY <1>1 DEF NextStep
<1> QED
  BY <1>2 DEF Calls, Labels, Tries, Deadlines, Sets

LEMMA CallsRepeat ==
  ASSUME call \in Calls, call.tries + 1 < MaxRetries
  PROVE  TryAgain \in Calls /\ TryAgain.pc = call.pc /\ TryAgain.block = call.block
BY SdioAssumption DEF Calls, TryAgain

LEMMA CallsMove ==
  ASSUME NEW c \in Calls, NEW label \in Labels
  PROVE  /\ [c EXCEPT !.pc = label] \in Calls /\ [c EXCEPT !.pc = label].pc = label
         /\ [c EXCEPT !.pc = label].block = c.block
<1> DEFINE Tries == 0..(MaxRetries - 1)
           Deadlines == 0..MaxMillis
           Sets == {{}} \cup {{b} : b \in Blocks}
<1>1. c \in [pc : Labels, tries : Tries, deadline : Deadlines, block : Sets]
  BY DEF Calls, Labels
<1> HIDE DEF Tries, Deadlines, Sets
<1>2. /\ [c EXCEPT !.pc = label] \in
              [pc : Labels, tries : Tries, deadline : Deadlines, block : Sets]
      /\ [c EXCEPT !.pc = label].pc = label /\ [c EXCEPT !.pc = label].block = c.block
  BY <1>1
<1> QED
  BY <1>2 DEF Calls, Labels, Tries, Deadlines, Sets

LEMMA NoCallIsOne == NoCall \in Calls /\ NoCall.pc = "poll"
BY SdioAssumption DEF Calls, NoCall

LEMMA DeadlineFits ==
  ASSUME millis \in 0..MaxMillis
  PROVE  Deadline \in 0..MaxMillis
BY SdioAssumption DEF Deadline

LEMMA CallsWithDeadline ==
  ASSUME NEW c \in Calls, NEW deadline \in 0..MaxMillis
  PROVE  LET d == [c EXCEPT !.deadline = deadline]
         IN d \in Calls /\ d.pc = c.pc /\ d.block = c.block
<1> DEFINE Tries == 0..(MaxRetries - 1)
           Deadlines == 0..MaxMillis
           Sets == {{}} \cup {{b} : b \in Blocks}
<1>1. c \in [pc : Labels, tries : Tries, deadline : Deadlines, block : Sets] /\ deadline \in Deadlines
  BY DEF Calls, Labels
<1> HIDE DEF Tries, Deadlines, Sets
<1>2. /\ [c EXCEPT !.deadline = deadline] \in
              [pc : Labels, tries : Tries, deadline : Deadlines, block : Sets]
      /\ [c EXCEPT !.deadline = deadline].pc = c.pc
      /\ [c EXCEPT !.deadline = deadline].block = c.block
  BY <1>1
<1> QED
  BY <1>2 DEF Calls, Labels, Tries, Deadlines, Sets

LEMMA SdOffIsInfo == SdOff \in Infos
BY SdCardAssumption DEF SdOff, Infos, Sizes

-----------------------------------------------------------------------------
(* What is preserved.                                                       *)

\* Before anything is learned only the records count.
Early == {"poll", "init", "cmd0", "cmd8", "ocr", "ocr55", "ocr41"}

LEMMA NothingLearned ==
  ASSUME Records', ~initialized', call'.pc \in Early
  PROVE  SdioInv'
BY DEF Early, SdioInv, RightCall, Learned, Ready, RightAddress, InitSteps, TransferSteps,
       AfterAcmd41, AfterCmd3, AfterCmd9

LEMMA Learning ==
  ASSUME Records', ~initialized', call'.pc \in AfterAcmd41, SameAddressing',
         call'.pc \in AfterCmd3 => SameAddress', call'.pc \in AfterCmd9 => SameSize'
  PROVE  SdioInv'
BY DEF SdioInv, RightCall, Learned, Ready, RightAddress, InitSteps, TransferSteps,
       AfterAcmd41, AfterCmd3, AfterCmd9

\* The cards in the slot are those that were there, after a command.
Kept(cmd) == \A d \in slot' : \E c \in slot : Keeps(cmd, c, d)

\* What was learned stays true of the card.
LEMMA StaysTrue ==
  ASSUME NEW cmd \in Commanded \ {0, 41}, Kept(cmd)
  PROVE  /\ SameAddressing /\ sd'.ccs = sd.ccs /\ misread' = misread => SameAddressing'
         /\ SameAddress /\ cmd # 3 /\ sd'.rca = sd.rca => SameAddress'
         /\ SameSize /\ sd'.size = sd.size => SameSize'
<1>1. \A d \in Awake' : \E c \in Awake : Keeps(cmd, c, d)
  BY DEF Kept, Keeps, Awake
<1> QED
  BY <1>1 DEF SameAddressing, SameAddress, SameSize, Keeps

\* A transfer.
LEMMA Transferring ==
  ASSUME SdioInv, initialized, UNCHANGED <<sd, initialized, misread>>, Records',
         NEW cmd \in {13, 16, 17, 24}, Kept(cmd),
         call'.pc \in {"poll"} \cup TransferSteps,
         call'.pc \in TransferSteps => call'.block # {},
         RightAddress'
  PROVE  SdioInv'
<1>1. \A d \in Awake' : \E c \in Awake : Keeps(cmd, c, d)
  BY DEF Kept, Keeps, Awake
<1>2. SameAddressing'
  BY StaysTrue DEF SdioInv, Learned, Commanded
<1>3. Learned'
  BY <1>2 DEF Learned, AfterAcmd41, AfterCmd3, AfterCmd9, TransferSteps
<1>4. ASSUME Awake' # {}
      PROVE  /\ sd'.power /\ SameAddress' /\ SameSize'
             /\ \A c \in Awake' : c.mode = "tran" /\ c.wide = sd'.wide
  <2>1. Awake # {}
    BY <1>1, <1>4
  <2>2. /\ sd.power /\ SameAddress /\ SameSize
        /\ \A c \in Awake : c.mode = "tran" /\ c.wide = sd.wide
    BY <2>1 DEF SdioInv, Ready
  <2>3. SameAddress' /\ SameSize'
    BY <2>2, StaysTrue DEF Commanded
  <2> QED
    BY <1>1, <2>2, <2>3 DEF Keeps
<1>5. Ready'
  BY <1>4 DEF Ready
<1>6. RightCall'
  BY DEF RightCall, InitSteps, TransferSteps
<1> QED
  BY <1>3, <1>5, <1>6 DEF SdioInv

\* What a command leaves of the records.
LEMMA Sending ==
  ASSUME Records, NEW cmd \in Commanded, NEW arg, cmd \in {17, 24} => arg \in Nat,
         NEW a \in Results(cmd, arg), slot' = a.slot
  PROVE  /\ sd.power /\ a \in Exchange(cmd, arg)
         /\ slot' \subseteq Cards /\ \A c, d \in slot' : c = d
         /\ Kept(cmd)
<1>1. sd.power /\ a \in Exchange(cmd, arg)
  BY DEF Results
<1> QED
  BY <1>1, ExchangeKeeps DEF Kept, Records

LEMMA FlagChange ==
  ASSUME sd \in Infos, NEW b \in BOOLEAN
  PROVE  /\ [sd EXCEPT !.power = b] \in Infos
         /\ [sd EXCEPT !.hcs = b] \in Infos
         /\ [sd EXCEPT !.ccs = b] \in Infos
         /\ [sd EXCEPT !.wide = b] \in Infos
BY DEF Infos

\* Where a failed or repeated command leads.
LEMMA Failing ==
  ASSUME Records, InitFails
  PROVE  sd' \in Infos /\ call' \in Calls /\ call'.pc = "poll" /\ UNCHANGED <<initialized, misread>>
BY NoCallIsOne, FlagChange DEF InitFails, Records

LEMMA Repeating ==
  ASSUME Records, NEW a, Repeats(a)
  PROVE  /\ call' \in Calls /\ call'.pc = call.pc /\ call'.block = call.block
         /\ UNCHANGED <<sd, initialized, misread>>
BY CallsRepeat DEF Repeats, Records

LEMMA GoingOn ==
  ASSUME Records, NEW label \in Labels, GoOn(label)
  PROVE  /\ call' \in Calls /\ call'.pc = label /\ call'.block = call.block
         /\ UNCHANGED <<sd, initialized, misread>>
BY CallsGoOn DEF GoOn, Records

-----------------------------------------------------------------------------
(* The main loop.                                                           *)

LEMMA PreservedByMainLoop ==
  ASSUME SdioInv, MainLoop \/ \E b \in Blocks : StartTransfer(b), millis' = millis
  PROVE  SdioInv'
<1>1. Records
  BY DEF SdioInv
<1>2. CASE StartInit
  <2>1. call' \in Calls /\ call'.pc = "init" /\ ~initialized /\ UNCHANGED <<slot, sd, initialized, misread>>
    BY <1>1, <1>2, CallsGoOn DEF StartInit, FindsCard, Records, Labels, InitSteps
  <2> QED
    BY <1>1, <2>1, NothingLearned DEF Records, Early
<1>3. CASE NoticeRemoval
  BY <1>1, <1>3, NothingLearned DEF NoticeRemoval, Records, Early
<1>4. CASE PollNothing
  BY <1>4 DEF PollNothing, driverVars, SdioInv, Records, RightCall, Learned, Ready,
              RightAddress, SameAddressing, SameAddress, SameSize, Awake
<1>5. ASSUME NEW b \in Blocks, StartTransfer(b)
      PROVE  SdioInv'
  <2>1. /\ initialized /\ call' = [NoCall EXCEPT !.pc = "status", !.deadline = Deadline, !.block = {b}]
        /\ UNCHANGED <<slot, sd, initialized, misread>>
    BY <1>5 DEF StartTransfer
  <2>2. Deadline \in 0..MaxMillis
    BY <1>1, DeadlineFits DEF Records
  <2>3. call' \in Calls
    <3> DEFINE Tries == 0..(MaxRetries - 1)
               Deadlines == 0..MaxMillis
               Sets == {{}} \cup {{x} : x \in Blocks}
    <3>1. 0 \in Tries /\ Deadline \in Deadlines /\ {b} \in Sets /\ "status" \in Labels
      BY <2>2, SdioAssumption DEF Labels, TransferSteps
    <3> HIDE DEF Tries, Deadlines, Sets
    <3>2. call' \in [pc : Labels, tries : Tries, deadline : Deadlines, block : Sets]
      BY <2>1, <3>1 DEF NoCall
    <3> QED
      BY <3>2 DEF Calls, Labels, Tries, Deadlines, Sets
  <2>4. call'.pc = "status" /\ call'.block # {}
    BY <2>1 DEF NoCall
  <2>5. Records'
    BY <1>1, <2>1, <2>3 DEF Records
  <2>6. RightCall'
    BY <2>1, <2>4 DEF RightCall, InitSteps
  <2>7. Learned' /\ Ready'
    BY <2>1, <2>4 DEF SdioInv, Learned, Ready, AfterAcmd41, AfterCmd3, AfterCmd9,
                      SameAddressing, SameAddress, SameSize, Awake
  <2> QED
    BY <2>4, <2>5, <2>6, <2>7 DEF SdioInv, RightAddress
<1> QED
  BY <1>2, <1>3, <1>4, <1>5 DEF MainLoop

-----------------------------------------------------------------------------
(* sdio_card_init.                                                          *)

LEMMA PreservedByStartsCard ==
  ASSUME SdioInv, StartsCard, millis' = millis
  PROVE  SdioInv'
<1> DEFINE cleared == [sd EXCEPT !.rca = 0, !.ccs = FALSE, !.size = 0]
<1>1. /\ Records /\ ~initialized
  BY DEF SdioInv, RightCall, StartsCard, InitSteps
<1>2. cleared \in Infos
  BY <1>1, SdCardAssumption DEF Records, Infos, Sizes
<1>3. CASE slot = {}
  <2>1. initialized' = TRUE /\ call' = NoCall /\ sd' = cleared /\ slot' = {} /\ misread' = FALSE
    BY <1>3 DEF StartsCard
  <2>2. Records'
    BY <1>1, <1>2, <2>1, NoCallIsOne DEF Records
  <2>3. Awake' = {}
    BY <2>1 DEF Awake
  <2>4. call'.pc = "poll"
    BY <2>1, NoCallIsOne
  <2> QED
    BY <2>1, <2>2, <2>3, <2>4 DEF SdioInv, RightCall, Learned, Ready, RightAddress, InitSteps,
       TransferSteps, AfterAcmd41, AfterCmd3, AfterCmd9, SameAddressing
<1>4. CASE slot # {}
  <2>1. /\ sd' = [cleared EXCEPT !.power = TRUE, !.wide = FALSE] /\ call' = NextStep("cmd0")
        /\ initialized' = initialized /\ slot' = slot /\ misread' = FALSE
    BY <1>4 DEF StartsCard
  <2>2. sd' \in Infos
    <3> HIDE DEF cleared
    <3> QED
      BY <1>2, <2>1 DEF Infos
  <2>3. call' \in Calls /\ call'.pc = "cmd0"
    BY <1>1, <2>1, CallsGoOn DEF Labels, InitSteps, Records
  <2> QED
    BY <1>1, <2>1, <2>2, <2>3, NothingLearned DEF Records, Early
<1> QED
  BY <1>3, <1>4

LEMMA PreservedByResetsCard ==
  ASSUME SdioInv, ResetsCard, millis' = millis
  PROVE  SdioInv'
<1>1. Records /\ ~initialized
  BY DEF SdioInv, RightCall, ResetsCard, InitSteps
<1>2. PICK a \in Results(0, 0) : slot' = a.slot /\ GoOn("cmd8")
  BY DEF ResetsCard
<1>3. slot' \subseteq Cards /\ \A c, d \in slot' : c = d
  BY <1>1, <1>2, Sending DEF Commanded
<1> QED
  BY <1>1, <1>2, <1>3, GoingOn, NothingLearned DEF Records, Early, Labels, InitSteps

LEMMA Waiting ==
  ASSUME Records, NEW hcs \in BOOLEAN, WaitForCard(hcs)
  PROVE  sd' \in Infos /\ call' \in Calls /\ call'.pc = "ocr" /\ UNCHANGED <<initialized, misread>>
<1>1. Deadline \in 0..MaxMillis
  BY DeadlineFits DEF Records
<1>2. NextStep("ocr") \in Calls /\ NextStep("ocr").pc = "ocr"
  BY CallsGoOn DEF Records, Labels, InitSteps
<1>3. /\ [NextStep("ocr") EXCEPT !.deadline = Deadline] \in Calls
      /\ [NextStep("ocr") EXCEPT !.deadline = Deadline].pc = "ocr"
  BY <1>1, <1>2, CallsWithDeadline
<1> QED
  BY <1>3, FlagChange DEF WaitForCard, Records

LEMMA PreservedByAsksVersion ==
  ASSUME SdioInv, AsksVersion, millis' = millis
  PROVE  SdioInv'
<1>1. Records /\ ~initialized /\ call.pc = "cmd8"
  BY DEF SdioInv, RightCall, AsksVersion, InitSteps
<1>2. PICK a \in Results(8, 0) :
        /\ slot' = a.slot
        /\ WaitForCard(TRUE) \/ WaitForCard(FALSE) \/ Repeats(a) \/ InitFails
  BY DEF AsksVersion
<1>3. slot' \subseteq Cards /\ \A c, d \in slot' : c = d
  BY <1>1, <1>2, Sending DEF Commanded
<1>4. /\ sd' \in Infos /\ call' \in Calls /\ call'.pc \in {"ocr", "cmd8", "poll"}
      /\ UNCHANGED <<initialized, misread>>
  BY <1>1, <1>2, Waiting, Failing, Repeating DEF Records
<1> QED
  BY <1>1, <1>3, <1>4, NothingLearned DEF Records, Early

LEMMA PreservedByTestsDeadline ==
  ASSUME SdioInv, TestsDeadline, millis' = millis
  PROVE  SdioInv'
<1>1. Records /\ ~initialized
  BY DEF SdioInv, RightCall, TestsDeadline, InitSteps
<1>2. slot' = slot /\ (GoOn("ocr55") \/ InitFails)
  BY DEF TestsDeadline
<1>3. /\ sd' \in Infos /\ call' \in Calls /\ call'.pc \in {"ocr55", "poll"}
      /\ UNCHANGED <<initialized, misread>>
  BY <1>1, <1>2, GoingOn, Failing DEF Records, Labels, InitSteps
<1> QED
  BY <1>1, <1>2, <1>3, NothingLearned DEF Records, Early

\* What the driver learns from a response that it takes for one to ACMD41.
LEMMA LookingAtOcr ==
  ASSUME Records, ~initialized, NEW a, NEW isOcr \in BOOLEAN, LooksAtOcr(a, isOcr),
         slot' \subseteq Cards, \A c, d \in slot' : c = d, millis' = millis,
         a.result = "crcfail" /\ a.resp.ready => a.resp.ccs \in BOOLEAN,
         isOcr /\ a.result = "crcfail" /\ a.resp.ready => \A c \in slot' : c.kind.hc = a.resp.ccs
  PROVE  SdioInv'
<1>1. CASE a.result = "crcfail" /\ a.resp.ready
  <2>1. /\ sd' = [sd EXCEPT !.ccs = a.resp.ccs]
        /\ call' = [NextStep("cmd2") EXCEPT !.deadline = 0]
        /\ misread' = ~isOcr /\ initialized' = initialized
    BY <1>1 DEF LooksAtOcr
  <2>2. sd' \in Infos /\ sd'.ccs = a.resp.ccs
    BY <1>1, <2>1, FlagChange DEF Records, Infos
  <2>3. NextStep("cmd2") \in Calls /\ NextStep("cmd2").pc = "cmd2"
    BY CallsGoOn DEF Records, Labels, InitSteps
  <2>4. 0 \in 0..MaxMillis
    BY SdioAssumption
  <2>5. call' \in Calls /\ call'.pc = "cmd2"
    BY <2>1, <2>3, <2>4, CallsWithDeadline
  <2>6. Records'
    BY <2>1, <2>2, <2>5 DEF Records
  <2>7. SameAddressing'
    BY <1>1, <2>1, <2>2 DEF SameAddressing, Awake
  <2> QED
    BY <2>1, <2>5, <2>6, <2>7, Learning DEF AfterAcmd41, AfterCmd3, AfterCmd9
<1>2. CASE ~(a.result = "crcfail" /\ a.resp.ready)
  <2>1. GoOn("ocr")
    BY <1>2 DEF LooksAtOcr
  <2> QED
    BY <2>1, GoingOn, NothingLearned DEF Records, Early, Labels, InitSteps
<1> QED
  BY <1>1, <1>2

\* A spoilt response to CMD55 has some bit where the addressing would be.
LEMMA SpoiltBits ==
  ASSUME NEW arg, slot \subseteq Cards, NEW a \in Exchange(55, arg), a.result = "crcfail"
  PROVE  a.resp.ccs \in BOOLEAN
<1>1. a # Silence(55, slot) /\ a # Silence(55, {Forgets(c) : c \in slot})
  BY DEF Silence, Outcome, Unanswered
<1>2. PICK c \in slot : \E r \in Reactions(c, 55, arg) :
              a = Heard(55, r) \/ a = Silence(55, {r.card}) \/ a \in Spoilt(55, r)
  BY <1>1, Outcomes
<1>3. PICK r \in Reactions(c, 55, arg) :
              a = Heard(55, r) \/ a = Silence(55, {r.card}) \/ a \in Spoilt(55, r)
  BY <1>2
<1>4. a \in Spoilt(55, r)
  BY <1>3 DEF Heard, Silence, Outcome, Answered, Unanswered
<1>5. PICK bits \in [ready : BOOLEAN, ccs : BOOLEAN] : a.resp = Garbled(r.resp, bits)
  BY <1>4, Spoils
<1>6. c \in Cards
  OBVIOUS
<1>7. r = Answer([c EXCEPT !.app = TRUE], Plain)
  BY <1>6, React55
<1>8. r.resp = Plain
  BY <1>7 DEF Answer
<1> QED
  BY <1>5, <1>8 DEF Garbled, Plain

\* A response to ACMD41 tells the addressing of the card that is there.
LEMMA OcrIsTrue ==
  ASSUME NEW arg, slot \subseteq Cards, NEW a \in Exchange(41, arg),
         a.result = "crcfail", a.resp.ready
  PROVE  a.resp.ccs \in BOOLEAN /\ \A c \in a.slot : c.kind.hc = a.resp.ccs
<1>1. a # Silence(41, slot) /\ a # Silence(41, {Forgets(c) : c \in slot})
  BY DEF Silence, Outcome, Unanswered
<1>2. PICK c \in slot : \E r \in Reactions(c, 41, arg) :
              a = Heard(41, r) \/ a = Silence(41, {r.card}) \/ a \in Spoilt(41, r)
  BY <1>1, Outcomes
<1>3. PICK r \in Reactions(c, 41, arg) :
              a = Heard(41, r) \/ a = Silence(41, {r.card}) \/ a \in Spoilt(41, r)
  BY <1>2
<1>4. a = Heard(41, r)
  <2>1. CASE a = Silence(41, {r.card})
    BY <2>1 DEF Silence, Outcome, Unanswered
  <2>2. CASE a \in Spoilt(41, r)
    BY <2>2, Spoils
  <2> QED
    BY <1>3, <2>1, <2>2
<1>5. a.slot = {r.card} /\ a.resp = r.resp
  BY <1>4 DEF Heard, Outcome
<1>6. c \in Cards /\ c.kind \in Kinds
  BY DEF Cards
<1>7. r = PowersUp(c) \/ r = Answer(Forgets(c), Plain)
  BY <1>6, React41
<1>8. r # Answer(Forgets(c), Plain)
  BY <1>5 DEF Answer, Plain
<1>9. r.card = MovesTo(c, "ready") /\ r.resp = [Plain EXCEPT !.ready = TRUE, !.ccs = c.kind.hc]
  BY <1>7, <1>8 DEF PowersUp, Answer
<1>10. r.card.kind = c.kind
  BY <1>6, <1>9, ModeChange DEF CardModes
<1>11. r.resp.ccs = c.kind.hc
  BY <1>9 DEF Plain
<1> QED
  BY <1>5, <1>6, <1>10, <1>11, SdCardAssumption

LEMMA PreservedByAnnouncesOcr ==
  ASSUME SdioInv, AnnouncesOcr, millis' = millis
  PROVE  SdioInv'
<1>1. Records /\ ~initialized /\ call.pc = "ocr55"
  BY DEF SdioInv, RightCall, AnnouncesOcr, InitSteps
<1>2. PICK a \in Results(55, sd.rca) :
        /\ slot' = a.slot
        /\ \/ call' = [call EXCEPT !.pc = "ocr41"] /\ UNCHANGED <<sd, initialized, misread>>
           \/ Repeats(a)
           \/ LooksAtOcr(a, FALSE)
  BY DEF AnnouncesOcr
<1>3. /\ slot' \subseteq Cards /\ \A c, d \in slot' : c = d
      /\ a \in Exchange(55, sd.rca)
  BY <1>1, <1>2, Sending DEF Commanded
<1>4. CASE call' = [call EXCEPT !.pc = "ocr41"] /\ UNCHANGED <<sd, initialized, misread>>
  <2>1. call' \in Calls /\ call'.pc = "ocr41"
    BY <1>1, <1>4, CallsMove DEF Records, Labels, InitSteps
  <2> QED
    BY <1>1, <1>3, <1>4, <2>1, NothingLearned DEF Records, Early
<1>5. CASE Repeats(a)
  BY <1>1, <1>3, <1>5, Repeating, NothingLearned DEF Records, Early
<1>6. CASE LooksAtOcr(a, FALSE)
  <2>1. a.result = "crcfail" => a.resp.ccs \in BOOLEAN
    BY <1>1, <1>3, SpoiltBits DEF Records
  <2> QED
    BY <1>1, <1>3, <1>6, <2>1, LookingAtOcr
<1> QED
  BY <1>2, <1>4, <1>5, <1>6

LEMMA PreservedByAsksOcr ==
  ASSUME SdioInv, AsksOcr, millis' = millis
  PROVE  SdioInv'
<1>1. Records /\ ~initialized /\ call.pc = "ocr41"
  BY DEF SdioInv, RightCall, AsksOcr, InitSteps
<1>2. PICK a \in Results(41, sd.hcs) :
        /\ slot' = a.slot
        /\ \/ /\ call.tries + 1 < MaxRetries
              /\ call' = [TryAgain EXCEPT !.pc = "ocr55"] /\ UNCHANGED <<sd, initialized, misread>>
           \/ LooksAtOcr(a, TRUE)
  BY DEF AsksOcr
<1>3. /\ slot' \subseteq Cards /\ \A c, d \in slot' : c = d
      /\ a \in Exchange(41, sd.hcs)
  BY <1>1, <1>2, Sending DEF Commanded
<1>4. CASE /\ call.tries + 1 < MaxRetries
           /\ call' = [TryAgain EXCEPT !.pc = "ocr55"] /\ UNCHANGED <<sd, initialized, misread>>
  <2>1. TryAgain \in Calls
    BY <1>1, <1>4, CallsRepeat DEF Records
  <2>2. call' \in Calls /\ call'.pc = "ocr55"
    BY <1>4, <2>1, CallsMove DEF Labels, InitSteps
  <2> QED
    BY <1>1, <1>3, <1>4, <2>2, NothingLearned DEF Records, Early
<1>5. CASE LooksAtOcr(a, TRUE)
  <2>1. a.result = "crcfail" /\ a.resp.ready
          => a.resp.ccs \in BOOLEAN /\ \A c \in slot' : c.kind.hc = a.resp.ccs
    BY <1>1, <1>2, <1>3, OcrIsTrue DEF Records
  <2> QED
    BY <1>1, <1>3, <1>5, <2>1, LookingAtOcr
<1> QED
  BY <1>2, <1>4, <1>5

LEMMA PreservedByAsksId ==
  ASSUME SdioInv, AsksId, millis' = millis
  PROVE  SdioInv'
<1>1. Records /\ ~initialized /\ call.pc = "cmd2"
  BY DEF SdioInv, RightCall, AsksId, InitSteps
<1>2. PICK a \in Results(2, 0) :
        slot' = a.slot /\ (GoOn("cmd3") \/ Repeats(a) \/ InitFails)
  BY DEF AsksId
<1>3. slot' \subseteq Cards /\ (\A c, d \in slot' : c = d) /\ Kept(2)
  BY <1>1, <1>2, Sending DEF Commanded
<1>4. CASE InitFails
  BY <1>1, <1>3, <1>4, Failing, NothingLearned DEF Records, Early
<1>5. CASE GoOn("cmd3") \/ Repeats(a)
  <2>1. /\ call' \in Calls /\ call'.pc \in {"cmd2", "cmd3"}
        /\ UNCHANGED <<sd, initialized, misread>>
    BY <1>1, <1>5, GoingOn, Repeating DEF Labels, InitSteps
  <2>2. SameAddressing'
    BY <1>1, <1>3, <2>1, StaysTrue DEF SdioInv, Learned, AfterAcmd41, Commanded
  <2> QED
    BY <1>1, <1>3, <2>1, <2>2, Learning DEF Records, AfterAcmd41, AfterCmd3, AfterCmd9
<1> QED
  BY <1>2, <1>4, <1>5

\* The address in a response to CMD3 is the one that the card has taken.
LEMMA AddressIsTrue ==
  ASSUME slot \subseteq Cards, NEW a \in Exchange(3, 0), Succeeds(a)
  PROVE  a.resp.rca \in Rcas /\ \A d \in a.slot : d.rca = a.resp.rca
<1>1. PICK c \in slot : \E r \in Reactions(c, 3, 0) : a.slot = {r.card} /\ a.resp = r.resp
  BY SuccessIsHeard DEF Commanded
<1>2. PICK r \in Reactions(c, 3, 0) : a.slot = {r.card} /\ a.resp = r.resp
  BY <1>1
<1>3. c \in Cards
  OBVIOUS
<1>4. PICK rca \in Rcas : r = Answer(MovesToAddress(c, rca), [Plain EXCEPT !.rca = rca])
  BY <1>3, React3
<1>5. r.card = MovesToAddress(c, rca) /\ r.resp.rca = rca
  BY <1>4 DEF Answer, Plain
<1> QED
  BY <1>2, <1>3, <1>5, AddressChange

LEMMA PreservedByAsksAddress ==
  ASSUME SdioInv, AsksAddress, millis' = millis
  PROVE  SdioInv'
<1>1. Records /\ ~initialized /\ call.pc = "cmd3" /\ SameAddressing
  BY DEF SdioInv, RightCall, Learned, AfterAcmd41, AsksAddress, InitSteps
<1>2. PICK a \in Results(3, 0) :
        /\ slot' = a.slot /\ UNCHANGED <<initialized, misread>>
        /\ \/ /\ Succeeds(a) /\ a.resp.rca # 0
              /\ sd' = Known(a) /\ call' = NextStep("cmd9")
           \/ /\ call.tries + 1 < MaxRetries
              /\ sd' = Known(a) /\ call' = TryAgain
           \/ sd' = [Known(a) EXCEPT !.power = FALSE] /\ call' = NoCall
  BY DEF AsksAddress
<1>3. /\ slot' \subseteq Cards /\ (\A c, d \in slot' : c = d) /\ Kept(3)
      /\ a \in Exchange(3, 0)
  BY <1>1, <1>2, Sending DEF Commanded
<1>4. Succeeds(a) => a.resp.rca \in Rcas /\ \A d \in slot' : d.rca = a.resp.rca
  BY <1>1, <1>2, <1>3, AddressIsTrue DEF Records
<1>5. /\ Known(a) \in Infos /\ Known(a).ccs = sd.ccs
      /\ [Known(a) EXCEPT !.power = FALSE] \in Infos
      /\ Succeeds(a) => Known(a).rca = a.resp.rca
  BY <1>1, <1>4 DEF Known, Records, Infos
<1>7. CASE Succeeds(a) /\ a.resp.rca # 0 /\ sd' = Known(a) /\ call' = NextStep("cmd9")
  <2>1. call' \in Calls /\ call'.pc = "cmd9"
    BY <1>1, <1>7, CallsGoOn DEF Records, Labels, InitSteps
  <2>2. SameAddressing'
    BY <1>1, <1>2, <1>3, <1>5, <1>7, StaysTrue DEF Commanded
  <2>3. SameAddress'
    BY <1>4, <1>5, <1>7 DEF SameAddress, Awake
  <2> QED
    BY <1>1, <1>2, <1>3, <1>5, <1>7, <2>1, <2>2, <2>3, Learning
       DEF Records, AfterAcmd41, AfterCmd3, AfterCmd9
<1>8. CASE call.tries + 1 < MaxRetries /\ sd' = Known(a) /\ call' = TryAgain
  <2>1. call' \in Calls /\ call'.pc = "cmd3"
    BY <1>1, <1>8, CallsRepeat DEF Records
  <2>2. SameAddressing'
    BY <1>1, <1>2, <1>3, <1>5, <1>8, StaysTrue DEF Commanded
  <2> QED
    BY <1>1, <1>2, <1>3, <1>5, <1>8, <2>1, <2>2, Learning
       DEF Records, AfterAcmd41, AfterCmd3, AfterCmd9
<1>9. CASE sd' = [Known(a) EXCEPT !.power = FALSE] /\ call' = NoCall
  BY <1>1, <1>2, <1>3, <1>5, <1>9, NoCallIsOne, NothingLearned DEF Records, Early
<1> QED
  BY <1>2, <1>7, <1>8, <1>9

\* The description in a response to CMD9 is that of the card.
LEMMA DescriptionIsTrue ==
  ASSUME slot \subseteq Cards, NEW arg, NEW a \in Exchange(9, arg), Succeeds(a), NEW csd \in a.resp.csd
  PROVE  /\ \A d \in a.slot : d.kind.csd = csd
         /\ \E k \in Kinds : csd = k.csd
<1>1. PICK c \in slot : \E r \in Reactions(c, 9, arg) : a.slot = {r.card} /\ a.resp = r.resp
  BY SuccessIsHeard DEF Commanded
<1>2. PICK r \in Reactions(c, 9, arg) : a.slot = {r.card} /\ a.resp = r.resp
  BY <1>1
<1>3. c \in Cards /\ c.kind \in Kinds
  BY DEF Cards
<1>4. r = Answer(Forgets(c), [Plain EXCEPT !.csd = {c.kind.csd}])
  BY <1>3, React9
<1>5. r.card = Forgets(c) /\ r.resp.csd = {c.kind.csd}
  BY <1>4 DEF Answer, Plain
<1>6. r.card.kind = c.kind
  BY <1>3, <1>5 DEF Forgets, Cards
<1> QED
  BY <1>2, <1>3, <1>5, <1>6

LEMMA PreservedByAsksSize ==
  ASSUME SdioInv, AsksSize, millis' = millis
  PROVE  SdioInv'
<1>1. Records /\ ~initialized /\ call.pc = "cmd9" /\ SameAddressing /\ SameAddress
  BY DEF SdioInv, RightCall, Learned, AfterAcmd41, AfterCmd3, AsksSize, InitSteps
<1>2. PICK a \in Results(9, sd.rca) :
        /\ slot' = a.slot
        /\ \/ Succeeds(a) /\ \E csd \in a.resp.csd : LearnsSize(csd)
           \/ Repeats(a)
           \/ InitFails
  BY DEF AsksSize
<1>3. /\ slot' \subseteq Cards /\ (\A c, d \in slot' : c = d) /\ Kept(9)
      /\ a \in Exchange(9, sd.rca)
  BY <1>1, <1>2, Sending DEF Commanded
<1>4. CASE InitFails
  BY <1>1, <1>3, <1>4, Failing, NothingLearned DEF Records, Early
<1>5. CASE Repeats(a)
  <2>1. call' \in Calls /\ call'.pc = "cmd9" /\ UNCHANGED <<sd, initialized, misread>>
    BY <1>1, <1>5, Repeating
  <2>2. SameAddressing' /\ SameAddress'
    BY <1>1, <1>3, <2>1, StaysTrue DEF Commanded
  <2> QED
    BY <1>1, <1>3, <2>1, <2>2, Learning DEF Records, AfterAcmd41, AfterCmd3, AfterCmd9
<1>6. ASSUME Succeeds(a), NEW csd \in a.resp.csd, LearnsSize(csd), ~InitFails
      PROVE  SdioInv'
  <2>1. /\ Version(csd) \in {0, 1} /\ sd' = [sd EXCEPT !.size = SizeOf(csd)]
        /\ call' = NextStep("cmd7") /\ UNCHANGED <<initialized, misread>>
    BY <1>6 DEF LearnsSize
  <2>2. (\A d \in slot' : d.kind.csd = csd) /\ \E k \in Kinds : csd = k.csd
    BY <1>1, <1>2, <1>3, <1>6, DescriptionIsTrue DEF Records
  <2>3. SizeOf(csd) \in Sizes
    BY <2>1, <2>2 DEF Sizes, Sized
  <2>4. sd' \in Infos /\ sd'.size = SizeOf(csd) /\ sd'.rca = sd.rca /\ sd'.ccs = sd.ccs
    BY <1>1, <2>1, <2>3 DEF Records, Infos
  <2>5. call' \in Calls /\ call'.pc = "cmd7"
    BY <1>1, <2>1, CallsGoOn DEF Records, Labels, InitSteps
  <2>6. SameAddressing' /\ SameAddress'
    BY <1>1, <1>3, <2>1, <2>4, StaysTrue DEF Commanded
  <2>7. SameSize'
    BY <2>1, <2>2, <2>4 DEF SameSize, Awake, Sized
  <2> QED
    BY <1>1, <1>3, <2>1, <2>4, <2>5, <2>6, <2>7, Learning
       DEF Records, AfterAcmd41, AfterCmd3, AfterCmd9
<1> QED
  BY <1>2, <1>4, <1>5, <1>6

\* The steps after CMD9 that learn nothing more.
LEMMA NothingMore ==
  ASSUME SdioInv, call.pc \in AfterCmd9, NEW cmd \in {7, 55, 6}, Kept(cmd), Records',
         call'.pc \in AfterCmd9, UNCHANGED <<sd, initialized, misread>>
  PROVE  SdioInv'
<1>1. ~initialized /\ SameAddressing /\ SameAddress /\ SameSize
  BY DEF SdioInv, RightCall, Learned, AfterAcmd41, AfterCmd3, AfterCmd9, InitSteps
<1>2. SameAddressing' /\ SameAddress' /\ SameSize'
  BY <1>1, StaysTrue DEF Commanded
<1> QED
  BY <1>1, <1>2, Learning DEF AfterAcmd41, AfterCmd3, AfterCmd9

LEMMA PreservedBySelects ==
  ASSUME SdioInv, Selects, millis' = millis
  PROVE  SdioInv'
<1>1. Records /\ ~initialized /\ call.pc = "cmd7"
  BY DEF SdioInv, RightCall, Selects, InitSteps
<1>2. PICK a \in Results(7, sd.rca) :
        slot' = a.slot /\ (GoOn("wide55") \/ Repeats(a) \/ InitFails)
  BY DEF Selects
<1>3. slot' \subseteq Cards /\ (\A c, d \in slot' : c = d) /\ Kept(7)
  BY <1>1, <1>2, Sending DEF Commanded
<1>4. CASE InitFails
  BY <1>1, <1>3, <1>4, Failing, NothingLearned DEF Records, Early
<1>5. CASE GoOn("wide55") \/ Repeats(a)
  <2>1. /\ call' \in Calls /\ call'.pc \in {"wide55", "cmd7"}
        /\ UNCHANGED <<sd, initialized, misread>>
    BY <1>1, <1>5, GoingOn, Repeating DEF Labels, InitSteps
  <2> QED
    BY <1>1, <1>3, <2>1, NothingMore DEF Records, AfterCmd9
<1> QED
  BY <1>2, <1>4, <1>5

LEMMA PreservedByAnnouncesWidth ==
  ASSUME SdioInv, AnnouncesWidth, millis' = millis
  PROVE  SdioInv'
<1>1. Records /\ ~initialized /\ call.pc = "wide55"
  BY DEF SdioInv, RightCall, AnnouncesWidth, InitSteps
<1>2. PICK a \in Results(55, sd.rca) :
        /\ slot' = a.slot
        /\ \/ call' = [call EXCEPT !.pc = "wide6"] /\ UNCHANGED <<sd, initialized, misread>>
           \/ Repeats(a)
           \/ InitFails
  BY DEF AnnouncesWidth
<1>3. slot' \subseteq Cards /\ (\A c, d \in slot' : c = d) /\ Kept(55)
  BY <1>1, <1>2, Sending DEF Commanded
<1>4. CASE InitFails
  BY <1>1, <1>3, <1>4, Failing, NothingLearned DEF Records, Early
<1>5. CASE \/ call' = [call EXCEPT !.pc = "wide6"] /\ UNCHANGED <<sd, initialized, misread>>
           \/ Repeats(a)
  <2>1. /\ call' \in Calls /\ call'.pc \in {"wide6", "wide55"}
        /\ UNCHANGED <<sd, initialized, misread>>
    <3>1. call \in Calls /\ "wide6" \in Labels
      BY <1>1 DEF Records, Labels, InitSteps
    <3>2. /\ [call EXCEPT !.pc = "wide6"] \in Calls
          /\ [call EXCEPT !.pc = "wide6"].pc = "wide6"
      BY <3>1, CallsMove
    <3> QED
      BY <1>1, <1>5, <3>2, Repeating
  <2> QED
    BY <1>1, <1>3, <2>1, NothingMore DEF Records, AfterCmd9
<1> QED
  BY <1>2, <1>4, <1>5

\* The card is ready when the bus width is set, and now the main loop knows it.
LEMMA PreservedBySetsWidth ==
  ASSUME SdioInv, SetsWidth, millis' = millis
  PROVE  SdioInv'
<1>1. /\ Records /\ ~initialized /\ call.pc = "wide6"
      /\ SameAddressing /\ SameAddress /\ SameSize
  BY DEF SdioInv, RightCall, Learned, SetsWidth, InitSteps, AfterAcmd41, AfterCmd3, AfterCmd9
<1>2. PICK a \in Results(6, 2) :
        /\ slot' = a.slot
        /\ \/ Succeeds(a) /\ InitSucceeds
           \/ /\ call.tries + 1 < MaxRetries
              /\ call' = [TryAgain EXCEPT !.pc = "wide55"]
              /\ UNCHANGED <<sd, initialized, misread>>
           \/ InitFails
  BY DEF SetsWidth
<1>3. /\ slot' \subseteq Cards /\ (\A c, d \in slot' : c = d) /\ Kept(6)
      /\ a \in Exchange(6, 2) /\ sd.power
  BY <1>1, <1>2, Sending DEF Commanded
<1>4. CASE InitFails
  BY <1>1, <1>3, <1>4, Failing, NothingLearned DEF Records, Early
<1>5. CASE /\ call.tries + 1 < MaxRetries
           /\ call' = [TryAgain EXCEPT !.pc = "wide55"]
           /\ UNCHANGED <<sd, initialized, misread>>
  <2>1. TryAgain \in Calls /\ "wide55" \in Labels
    BY <1>1, <1>5, CallsRepeat DEF Records, Labels, InitSteps
  <2>2. call' \in Calls /\ call'.pc = "wide55"
    BY <1>5, <2>1, CallsMove
  <2> QED
    BY <1>1, <1>3, <1>5, <2>2, NothingMore DEF Records, AfterCmd9
<1>6. CASE Succeeds(a) /\ InitSucceeds
  <2>1. /\ sd' = [sd EXCEPT !.wide = TRUE] /\ call' = NoCall
        /\ initialized' = TRUE /\ misread' = misread
    BY <1>6 DEF InitSucceeds
  <2>2. /\ sd' \in Infos /\ sd'.wide = TRUE /\ sd'.power = sd.power
        /\ sd'.rca = sd.rca /\ sd'.ccs = sd.ccs /\ sd'.size = sd.size
    BY <1>1, <2>1 DEF Records, Infos
  <2>3. SameAddressing' /\ SameAddress' /\ SameSize'
    BY <1>1, <1>3, <2>1, <2>2, StaysTrue DEF Commanded
  <2>4. \A d \in slot' : d.mode = "tran" /\ d.wide = TRUE
    <3>1. PICK c \in slot : \E r \in Reactions(c, 6, 2) : a.slot = {r.card} /\ a.resp = r.resp
      BY <1>3, <1>6, SuccessIsHeard DEF Commanded
    <3>2. PICK r \in Reactions(c, 6, 2) : a.slot = {r.card} /\ a.resp = r.resp
      BY <3>1
    <3>3. c \in Cards
      BY <1>1 DEF Records
    <3>4. c.mode = "tran" /\ r = Answer([Forgets(c) EXCEPT !.wide = TRUE], Plain)
      BY <3>3, React6
    <3>5. r.card.mode = "tran" /\ r.card.wide = TRUE
      BY <3>3, <3>4 DEF Answer, Forgets, Cards
    <3> QED
      BY <1>2, <3>2, <3>5
  <2>5. Records'
    BY <1>1, <1>3, <2>1, <2>2, NoCallIsOne DEF Records
  <2>6. call'.pc = "poll"
    BY <2>1, NoCallIsOne
  <2>7. RightCall' /\ Learned' /\ RightAddress'
    BY <2>3, <2>6 DEF RightCall, Learned, RightAddress, InitSteps, TransferSteps,
                      AfterAcmd41, AfterCmd3, AfterCmd9
  <2>8. Ready'
    BY <1>3, <2>2, <2>3, <2>4 DEF Ready, Awake
  <2> QED
    BY <2>5, <2>7, <2>8 DEF SdioInv
<1> QED
  BY <1>2, <1>4, <1>5, <1>6

-----------------------------------------------------------------------------
(* sdio_read_block and sdio_write_block.                                    *)

LEMMA Ending ==
  ASSUME Records, TransferFails
  PROVE  call' \in Calls /\ call'.pc = "poll" /\ UNCHANGED <<sd, initialized, misread>>
BY NoCallIsOne DEF TransferFails

\* Without a command the slot stays as it is.
LEMMA TransferringQuietly ==
  ASSUME SdioInv, initialized, UNCHANGED <<slot, sd, initialized, misread>>, Records',
         call'.pc \in {"poll", "status", "cmd13"}, call'.pc \in TransferSteps => call'.block # {}
  PROVE  SdioInv'
<1>1. Kept(13)
  BY ForgettingKeeps DEF SdioInv, Records, Kept
<1>2. RightAddress'
  BY DEF RightAddress
<1> QED
  BY <1>1, <1>2, Transferring DEF TransferSteps

LEMMA PreservedByTestsTimeout ==
  ASSUME SdioInv, TestsTimeout, millis' = millis
  PROVE  SdioInv'
<1>1. Records /\ initialized /\ call.block # {}
  BY DEF SdioInv, RightCall, TestsTimeout, TransferSteps
<1>2. slot' = slot /\ (GoOn("cmd13") \/ TransferFails)
  BY DEF TestsTimeout
<1>3. /\ call' \in Calls /\ UNCHANGED <<sd, initialized, misread>>
      /\ call'.pc = "poll" \/ (call'.pc = "cmd13" /\ call'.block = call.block)
  <2>1. CASE GoOn("cmd13")
    <3>1. "cmd13" \in Labels
      BY DEF Labels, TransferSteps
    <3> QED
      BY <1>1, <2>1, <3>1, GoingOn
  <2>2. CASE TransferFails
    BY <1>1, <2>2, Ending
  <2> QED
    BY <1>2, <2>1, <2>2
<1> QED
  BY <1>1, <1>2, <1>3, TransferringQuietly DEF Records, TransferSteps

LEMMA PreservedByAsksStatus ==
  ASSUME SdioInv, AsksStatus, millis' = millis
  PROVE  SdioInv'
<1>1. Records /\ initialized /\ call.block # {}
  BY DEF SdioInv, RightCall, AsksStatus, TransferSteps
<1>2. PICK a \in Results(13, sd.rca) :
        /\ slot' = a.slot /\ UNCHANGED <<sd, initialized, misread>>
        /\ \/ call' = [NextStep("command") EXCEPT !.deadline = 0]
           \/ call' = [NextStep("blocklen") EXCEPT !.deadline = 0]
           \/ call' = NextStep("status")
  BY DEF AsksStatus
<1>3. slot' \subseteq Cards /\ (\A c, d \in slot' : c = d) /\ Kept(13)
  BY <1>1, <1>2, Sending DEF Commanded
<1>4. /\ call' \in Calls /\ call'.pc \in {"command", "blocklen", "status"}
      /\ call'.block = call.block
  <2>1. 0 \in 0..MaxMillis
    BY SdioAssumption
  <2>2. \A label \in {"command", "blocklen", "status"} :
          NextStep(label) \in Calls /\ NextStep(label).pc = label /\ NextStep(label).block = call.block
    BY <1>1, CallsGoOn DEF Records, Labels, TransferSteps
  <2>3. \A label \in {"command", "blocklen"} :
          /\ [NextStep(label) EXCEPT !.deadline = 0] \in Calls
          /\ [NextStep(label) EXCEPT !.deadline = 0].pc = label
          /\ [NextStep(label) EXCEPT !.deadline = 0].block = call.block
    BY <2>1, <2>2, CallsWithDeadline
  <2> QED
    BY <1>2, <2>2, <2>3
<1>5. Records' /\ RightAddress'
  BY <1>1, <1>2, <1>3, <1>4 DEF Records, RightAddress
<1> QED
  BY <1>1, <1>2, <1>3, <1>4, <1>5, Transferring DEF TransferSteps

LEMMA PreservedBySetsBlockLength ==
  ASSUME SdioInv, SetsBlockLength, millis' = millis
  PROVE  SdioInv'
<1>1. Records /\ initialized /\ call.pc = "blocklen" /\ call.block # {}
  BY DEF SdioInv, RightCall, SetsBlockLength, TransferSteps
<1>2. PICK a \in Results(16, 512) :
        slot' = a.slot /\ (GoOn("command") \/ Repeats(a) \/ TransferFails)
  BY DEF SetsBlockLength
<1>3. slot' \subseteq Cards /\ (\A c, d \in slot' : c = d) /\ Kept(16)
  BY <1>1, <1>2, Sending DEF Commanded
<1>4. /\ call' \in Calls /\ UNCHANGED <<sd, initialized, misread>>
      /\ call'.pc = "poll" \/ (call'.pc \in {"command", "blocklen"} /\ call'.block = call.block)
  <2>1. CASE GoOn("command")
    <3>1. "command" \in Labels
      BY DEF Labels, TransferSteps
    <3> QED
      BY <1>1, <2>1, <3>1, GoingOn
  <2>2. CASE Repeats(a)
    BY <1>1, <2>2, Repeating
  <2>3. CASE TransferFails
    BY <1>1, <2>3, Ending
  <2> QED
    BY <1>2, <2>1, <2>2, <2>3
<1>5. Records' /\ RightAddress'
  BY <1>1, <1>3, <1>4 DEF Records, RightAddress
<1> QED
  BY <1>1, <1>3, <1>4, <1>5, Transferring DEF TransferSteps

\* The card that takes the command is the one that was initialised, so it counts
\* as the driver does.
LEMMA PreservedByCommands ==
  ASSUME SdioInv, Commands, millis' = millis
  PROVE  SdioInv'
<1>1. Records /\ initialized /\ call.pc = "command" /\ call.block # {}
  BY DEF SdioInv, RightCall, Commands, TransferSteps
<1>2. PICK b \in call.block : \E cmd \in {17, 24} : \E a \in Results(cmd, Address(b)) :
        slot' = a.slot /\ IF Succeeds(a) THEN GoOn("data") ELSE TransferFails
  BY DEF Commands
<1>3. PICK cmd \in {17, 24} : \E a \in Results(cmd, Address(b)) :
        slot' = a.slot /\ IF Succeeds(a) THEN GoOn("data") ELSE TransferFails
  BY <1>2
<1>4. PICK a \in Results(cmd, Address(b)) :
        slot' = a.slot /\ IF Succeeds(a) THEN GoOn("data") ELSE TransferFails
  BY <1>3
<1>5. b \in Nat /\ call.block = {b}
  BY <1>1, SdioAssumption DEF Records, Calls
<1>6. Address(b) \in Nat
  <2>1. b * BlockSize \in Nat
    BY <1>5, SdioAssumption
  <2>2. (b * BlockSize) % AddressSpace \in Nat
    BY <2>1, SdioAssumption
  <2> QED
    BY <1>5, <2>2 DEF Address
<1>7. /\ slot' \subseteq Cards /\ (\A c, d \in slot' : c = d) /\ Kept(cmd)
      /\ a \in Exchange(cmd, Address(b))
  BY <1>1, <1>4, <1>6, Sending DEF Commanded
<1>8. CASE ~Succeeds(a)
  <2>1. call' \in Calls /\ call'.pc = "poll" /\ UNCHANGED <<sd, initialized, misread>>
    BY <1>1, <1>4, <1>8, Ending
  <2>2. Records' /\ RightAddress'
    BY <1>1, <1>7, <2>1 DEF Records, RightAddress
  <2> QED
    BY <1>1, <1>7, <2>1, <2>2, Transferring DEF TransferSteps
<1>9. CASE Succeeds(a)
  <2>1. /\ call' \in Calls /\ call'.pc = "data" /\ call'.block = call.block
        /\ UNCHANGED <<sd, initialized, misread>>
    <3>1. "data" \in Labels
      BY DEF Labels, TransferSteps
    <3> QED
      BY <1>1, <1>4, <1>9, <3>1, GoingOn
  <2>2. PICK c \in slot : \E r \in Reactions(c, cmd, Address(b)) : a.slot = {r.card} /\ a.resp = r.resp
    BY <1>7, <1>9, SuccessIsHeard DEF Commanded
  <2>3. PICK r \in Reactions(c, cmd, Address(b)) : a.slot = {r.card} /\ a.resp = r.resp
    BY <2>2
  <2>4. c \in Cards
    BY <1>1 DEF Records
  <2>5. c.mode = "tran" /\ r = Answer([Forgets(c) EXCEPT !.at = {Address(b)}], Plain)
    BY <2>4, ReactTransfer
  <2>6. r.card.at = {Address(b)} /\ r.card.kind = c.kind
    <3>1. Forgets(c) \in Cards /\ Forgets(c).kind = c.kind
      BY <2>4 DEF Forgets, Cards
    <3>2. r.card = [Forgets(c) EXCEPT !.at = {Address(b)}]
      BY <2>5 DEF Answer
    <3> QED
      BY <3>1, <3>2 DEF Cards
  <2>7. c.kind.hc = sd.ccs \/ misread
    BY <1>1, <2>5 DEF SdioInv, Learned, SameAddressing, Awake
  <2>8. c.kind.hc \in BOOLEAN /\ sd.ccs \in BOOLEAN
    BY <1>1, <2>4, SdCardAssumption DEF Records, Cards, Infos
  <2>9. RightAddress'
    <3>1. slot' = {r.card}
      BY <1>4, <2>3
    <3>2. ASSUME ~misread
          PROVE  Address(b) = IF c.kind.hc THEN b ELSE (b * BlockSize) % AddressSpace
      BY <2>7, <2>8, <3>2 DEF Address
    <3> QED
      BY <1>5, <2>1, <2>6, <3>1, <3>2 DEF RightAddress
  <2>10. Records'
    BY <1>1, <1>7, <2>1 DEF Records
  <2> QED
    BY <1>1, <1>7, <2>1, <2>9, <2>10, Transferring DEF TransferSteps
<1> QED
  BY <1>8, <1>9

LEMMA PreservedByEndsData ==
  ASSUME SdioInv, EndsData, millis' = millis
  PROVE  SdioInv'
<1>1. Records /\ initialized
  BY DEF SdioInv, RightCall, EndsData, TransferSteps
<1>2. /\ slot' = {[c EXCEPT !.at = {}] : c \in slot} /\ call' = NoCall
      /\ UNCHANGED <<sd, initialized, misread>>
  BY DEF EndsData
<1>3. ASSUME NEW c \in Cards
      PROVE  [c EXCEPT !.at = {}] \in Cards /\ Keeps(13, c, [c EXCEPT !.at = {}])
  BY DEF Cards, Keeps
<1>4. slot' \subseteq Cards /\ (\A c, d \in slot' : c = d) /\ Kept(13)
  BY <1>1, <1>2, <1>3 DEF Records, Kept
<1>5. call' \in Calls /\ call'.pc = "poll"
  BY <1>2, NoCallIsOne
<1>6. Records' /\ RightAddress'
  BY <1>1, <1>2, <1>4, <1>5 DEF Records, RightAddress
<1> QED
  BY <1>1, <1>2, <1>4, <1>5, <1>6, Transferring DEF TransferSteps

-----------------------------------------------------------------------------
(* The steps that leave driver or card alone.                               *)

LEMMA PreservedByStutter ==
  ASSUME SdioInv, UNCHANGED <<slot, driverVars>>, millis' \in 0..MaxMillis
  PROVE  SdioInv'
BY DEF driverVars, SdioInv, Records, RightCall, Learned, Ready, RightAddress,
       SameAddressing, SameAddress, SameSize, Awake

\* A card that is taken out is not there to be mistaken for another, and one that
\* is put in is idle.
LEMMA PreservedByUser ==
  ASSUME SdioInv, User
  PROVE  SdioInv'
<1>1. UNCHANGED driverVars /\ millis' = millis /\ Records
  BY DEF User, SdioInv
<1>2. CASE slot' = slot
  BY <1>1, <1>2, PreservedByStutter DEF Records
<1>3. CASE slot' = {} \/ \E k \in Kinds : slot' = {Fresh(k)}
  <2>1. slot' \subseteq Cards /\ (\A c, d \in slot' : c = d) /\ Awake' = {}
    BY <1>3, FreshIsCard DEF Awake
  <2>2. RightAddress'
    BY <1>3, FreshIsCard DEF RightAddress
  <2>3. Records' /\ RightCall'
    BY <1>1, <2>1 DEF driverVars, SdioInv, Records, RightCall
  <2>4. Learned' /\ Ready'
    BY <1>1, <2>1 DEF driverVars, SdioInv, Learned, Ready, SameAddressing, SameAddress, SameSize
  <2> QED
    BY <2>2, <2>3, <2>4 DEF SdioInv
<1> QED
  BY <1>2, <1>3 DEF User, RemoveCard, InsertCard, CalmDown

LEMMA PreservedByRollover ==
  ASSUME SdioInv, Rollover
  PROVE  SdioInv'
<1>1. Records
  BY DEF SdioInv
<1>2. Records' /\ ~initialized' /\ call'.pc = "poll"
  <2>1. /\ slot' = slot /\ sd' = SdOff /\ call' = NoCall /\ millis' = 0
        /\ initialized' = FALSE /\ misread' = FALSE
    BY DEF Rollover
  <2>2. 0 \in 0..MaxMillis
    BY SdioAssumption
  <2> QED
    BY <1>1, <2>1, <2>2, SdOffIsInfo, NoCallIsOne DEF Records
<1> QED
  BY <1>2, NothingLearned DEF Early

LEMMA Preserved ==
  ASSUME SdioInv, [Next]_vars
  PROVE  SdioInv'
<1>1. millis \in 0..MaxMillis
  BY DEF SdioInv, Records
<1>2. CASE UNCHANGED vars
  BY <1>1, <1>2, PreservedByStutter DEF vars
<1>3. CASE Tick
  <2>1. millis' \in 0..MaxMillis
    BY <1>1, <1>3, SdioAssumption DEF Tick
  <2> QED
    BY <1>3, <2>1, PreservedByStutter DEF Tick
<1>4. CASE Driver
  <2>1. millis' = millis
    BY <1>4 DEF Driver
  <2>2. CASE MainLoop \/ \E b \in Blocks : StartTransfer(b)
    BY <2>1, <2>2, PreservedByMainLoop
  <2>3. CASE CardInit
    BY <2>1, <2>3, PreservedByStartsCard, PreservedByResetsCard, PreservedByAsksVersion,
       PreservedByTestsDeadline, PreservedByAnnouncesOcr, PreservedByAsksOcr, PreservedByAsksId,
       PreservedByAsksAddress, PreservedByAsksSize, PreservedBySelects,
       PreservedByAnnouncesWidth, PreservedBySetsWidth DEF CardInit
  <2>4. CASE Spins
    BY <1>1, <2>1, <2>4, PreservedByStutter DEF Spins
  <2>5. CASE Transfer /\ ~Spins
    BY <2>1, <2>5, PreservedByTestsTimeout, PreservedByAsksStatus, PreservedBySetsBlockLength,
       PreservedByCommands, PreservedByEndsData DEF Transfer
  <2> QED
    BY <1>4, <2>2, <2>3, <2>4, <2>5 DEF Driver
<1> QED
  BY <1>2, <1>3, <1>4, PreservedByUser, PreservedByRollover DEF Next

LEMMA HoldsAtFirst == Init => SdioInv
<1> SUFFICES ASSUME Init PROVE SdioInv
  OBVIOUS
<1>1. slot \subseteq Cards /\ (\A c, d \in slot : c = d) /\ Awake = {}
  BY FreshIsCard DEF Init, Awake
<1>2. 0 \in 0..MaxMillis
  BY SdioAssumption
<1>3. Records
  BY <1>1, <1>2, SdOffIsInfo, NoCallIsOne DEF Init, Records
<1>4. call.pc = "poll" /\ initialized = FALSE
  BY NoCallIsOne DEF Init
<1> QED
  BY <1>3, <1>4 DEF SdioInv, RightCall, Learned, Ready, RightAddress, InitSteps,
     TransferSteps, AfterAcmd41, AfterCmd3, AfterCmd9

-----------------------------------------------------------------------------

\* Driver and card agree on what the driver has learned, step by step of the
\* initialisation and from then on (sdio_card_init, sdio_read_block,
\* sdio_write_block), whatever is lost or spoilt and however cards are moved.
THEOREM DriverAndCardAgree == Spec => []SdioInv
BY HoldsAtFirst, Preserved, PTL DEF Spec

\* The address of a block that is on the card does not wrap.
LEMMA AddressOnCard ==
  ASSUME NEW b \in Nat, NEW size \in Nat, b < size, size * BlockSize <= AddressSpace
  PROVE  ((b * BlockSize) % AddressSpace) \div BlockSize = b
<1> DEFINE n == BlockSize
<1>1. n \in Nat \ {0} /\ AddressSpace \in Nat \ {0}
  BY SdioAssumption
<1> HIDE DEF n
<1>2. b * n \in Nat /\ (b * n) \div n = b
  BY <1>1
<1>3. b * n < AddressSpace
  <2>1. (b + 1) * n <= size * n
    BY <1>1
  <2>2. (b + 1) * n = b * n + n
    BY <1>1
  <2>3. size * n <= AddressSpace /\ size * n \in Nat
    BY <1>1 DEF n
  <2> QED
    BY <1>1, <1>2, <2>1, <2>2, <2>3
<1>4. (b * n) % AddressSpace = b * n
  BY <1>1, <1>2, <1>3
<1> QED
  BY <1>2, <1>4 DEF n

\* A card that moves data for a call moves the block that the call was for, if
\* it has such a block and the bytes of no card are more than 32 bits can
\* address.
THEOREM TheRightBlockIsMoved ==
  ASSUME BytesFit
  PROVE  Spec => []MovesTheRightBlock
<1>1. SdioInv => MovesTheRightBlock
  <2> SUFFICES ASSUME SdioInv, NEW c \in slot, NEW b \in call.block,
                      call.pc = "data", ~misread, b < BlocksOf(c.kind.csd),
                      NEW address \in c.at
               PROVE  b = IF c.kind.hc THEN address ELSE address \div BlockSize
    BY DEF MovesTheRightBlock
  <2>1. address = IF c.kind.hc THEN b ELSE (b * BlockSize) % AddressSpace
    BY DEF SdioInv, RightAddress
  <2>2. b \in Nat /\ c.kind \in Kinds
    BY SdioAssumption DEF SdioInv, Records, Calls, Cards
  <2>3. CASE c.kind.hc
    BY <2>1, <2>3
  <2>4. CASE ~c.kind.hc
    BY <2>1, <2>2, <2>4, AddressOnCard DEF BytesFit
  <2> QED
    BY <2>3, <2>4
<1> QED
  BY <1>1, DriverAndCardAgree, PTL

\* The driver knows the card that the main loop takes for initialised, if no
\* size overflows the 32 bits that it is calculated in.
THEOREM TheCardIsKnown ==
  ASSUME SizesFit
  PROVE  Spec => []KnowsTheCard
<1>1. SdioInv => KnowsTheCard
  <2> SUFFICES ASSUME SdioInv, NEW c \in slot, initialized, c.mode # "idle"
               PROVE  /\ c.mode = "tran" /\ sd.power
                      /\ sd.rca = c.rca /\ sd.rca # 0
                      /\ sd.wide = c.wide
                      /\ sd.size = BlocksOf(c.kind.csd)
                      /\ ~misread => sd.ccs = c.kind.hc
    BY DEF KnowsTheCard
  <2>1. c \in Awake
    BY DEF Awake
  <2>2. SameAddressing /\ SameAddress /\ SameSize /\ sd.power /\ c.mode = "tran" /\ c.wide = sd.wide
    BY <2>1 DEF SdioInv, Learned, Ready
  <2>3. c.kind \in Kinds /\ Sized(c.kind.csd) /\ sd.size = SizeOf(c.kind.csd)
    BY <2>1, <2>2 DEF SdioInv, Records, Cards, SameSize
  <2>4. sd.size = BlocksOf(c.kind.csd)
    BY <2>3 DEF SizesFit
  <2> QED
    BY <2>1, <2>2, <2>4 DEF SameAddressing, SameAddress
<1> QED
  BY <1>1, DriverAndCardAgree, PTL

\* The variables have their types.
THEOREM TypesAreRight ==
  ASSUME SizesFit
  PROVE  Spec => []TypeOK
<1>1. SdioInv => TypeOK
  <2>1. Sizes \subseteq Nat
    BY DEF SizesFit, Sizes
  <2> QED
    BY <2>1 DEF SdioInv, Records, TypeOK, Cards, Infos, Calls
<1> QED
  BY <1>1, DriverAndCardAgree, PTL
=============================================================================
