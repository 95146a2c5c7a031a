--------------------------- MODULE KeyboardProofs ---------------------------
(***************************************************************************)
(* For every chord of keys that have a place of their own, every number of *)
(* ticks, and whatever the USB interrupt, the bus and the user do: the     *)
(* host sees whole chords, and the button's signal is steady.              *)
(***************************************************************************)
EXTENDS Keyboard, TLAPS

-----------------------------------------------------------------------------
(* The interrupt.                                                           *)

\* Whatever the host asks for, the keys and the reports stay as they are, but
\* for the report that a new configuration drops.
LEMMA InterruptKeepsKeys ==
  ASSUME Interrupt
  PROVE  UNCHANGED <<down, mainVars, bound, seen>> /\ inEp' \in {inEp, {}}
<1>1. CASE Configure
  BY <1>1 DEF Configure
<1>2. ASSUME NEW r \in Requests, ControlRequest(r) PROVE UNCHANGED <<down, mainVars, bound, inEp, seen>>
  BY <1>2 DEF ControlRequest, SetProtocol, SetIdle, SetReport, JustAnswers, Answers
<1> QED
  BY <1>1, <1>2 DEF Interrupt

-----------------------------------------------------------------------------
(* Reports.                                                                 *)

Places == UNION {Position(c) : c \in Chord}

\* A key has one place, and the descriptor gives it the usage of the key.
LEMMA PlaceOfKey ==
  ASSUME NEW c \in Chord
  PROVE  \E pos : Position(c) = {pos} /\ Usage(pos) = c
<1> DEFINE pos == <<(c \div 8) + 1, c % 8>>
<1>1. c \in 0..239
  BY KeyboardAssumption
<1>2. c \div 8 \in Nat /\ c % 8 \in 0..7 /\ c = 8 * (c \div 8) + (c % 8) /\ c \div 8 < 30
  BY <1>1
<1>3. pos[1] = (c \div 8) + 1 /\ pos[2] = c % 8
  OBVIOUS
<1>4. pos[1] < 32 /\ pos[1] # 0
  BY <1>2, <1>3
<1>5. Position(c) = {pos}
  BY <1>1, <1>4 DEF Position
<1>6. Usage(pos) = c
  BY <1>2, <1>3, <1>4 DEF Usage
<1> QED
  BY <1>5, <1>6

\* The report of all keys shows the chord.
LEMMA ChordShows == Usages(NkroReport(Places)) = Chord
<1>1. ASSUME NEW c \in Chord PROVE c \in {Usage(pos) : pos \in Places}
  <2>1. PICK pos : Position(c) = {pos} /\ Usage(pos) = c
    BY PlaceOfKey
  <2> QED
    BY <2>1 DEF Places
<1>2. ASSUME NEW pos \in Places PROVE Usage(pos) \in Chord
  <2>1. PICK c \in Chord : pos \in Position(c)
    BY DEF Places
  <2> QED
    BY <2>1, PlaceOfKey
<1> QED
  BY <1>1, <1>2 DEF NkroReport, Bytes, Usages

-----------------------------------------------------------------------------
(* Whole chords.                                                            *)

\* The report holds the chord while the button is pressed and nothing while it
\* is not.
KeysFollowButton == pressed \in BOOLEAN /\ nkro = IF pressed THEN Places ELSE {}

\* Reports on their way have the length of their kind.
WholeReports ==
  \A report \in out \cup inEp :
    /\ report.bytes \in {8, 32}
    /\ report.bytes = 32 => Usages(report) \in {{}, Chord}

ChordInv == KeysFollowButton /\ WholeReports /\ WholeChords

LEMMA ReportIsWhole ==
  ASSUME KeysFollowButton
  PROVE  Usages(NkroReport(nkro)) \in {{}, Chord}
<1>1. CASE pressed
  BY <1>1, ChordShows DEF KeysFollowButton
<1>2. CASE ~pressed
  BY <1>2 DEF KeysFollowButton, NkroReport, Bytes, Usages
<1> QED
  BY <1>1, <1>2 DEF KeysFollowButton

LEMMA NoKeysShow == NoKeys.usages = {}
BY DEF NoKeys, NkroReport, Bytes, Read, Usages

LEMMA ChordInit == Init => ChordInv
BY NoKeysShow DEF Init, ChordInv, KeysFollowButton, WholeReports, WholeChords

\* What the host reads in a report of the report protocol's length is what it says.
LEMMA TakenIsWhole ==
  ASSUME NEW report, report.bytes \in {8, 32},
         report.bytes = 32 => Usages(report) \in {{}, Chord},
         NEW p, NEW s \in Takes(p, report), s # seen
  PROVE  s.protocol # 0 /\ 8 * s.bytes = KeyboardReportBits => s.usages \in {{}, Chord}
<1>1. s = Read(p, report)
  BY DEF Takes
<1>2. s.protocol = p /\ s.bytes = report.bytes /\ (p # 0 => s.usages = Usages(report))
  BY <1>1 DEF Read
<1>3. 8 * report.bytes = KeyboardReportBits => report.bytes = 32
  BY DEF KeyboardReportBits
<1> QED
  BY <1>2, <1>3

LEMMA ChordStep == ChordInv /\ [Next]_vars => ChordInv'
<1> SUFFICES ASSUME ChordInv, [Next]_vars PROVE ChordInv'
  OBVIOUS
<1> USE DEF ChordInv, KeysFollowButton
<1>0. CASE Interrupt
  BY <1>0, InterruptKeepsKeys DEF WholeReports, WholeChords, mainVars
<1>1. CASE MoveButton \/ BindDriver \/ UNCHANGED vars
  BY <1>1 DEF MoveButton, BindDriver, WholeReports, WholeChords, vars, mainVars
<1>2. CASE PollSame \/ SendNothing
  BY <1>2 DEF PollSame, SendNothing, WholeReports, WholeChords, usbVars
<1>3. CASE PollPressed
  <2>1. nkro' = Places /\ pressed' = TRUE
    BY <1>3 DEF PollPressed, KeysDown, Places
  <2> QED
    BY <1>3, <2>1 DEF PollPressed, WholeReports, WholeChords
<1>4. CASE PollReleased
  <2>1. nkro' = {} /\ pressed' = FALSE
    BY <1>4 DEF PollReleased, KeysUp, Places
  <2> QED
    BY <1>4, <2>1 DEF PollReleased, WholeReports, WholeChords
<1>5. CASE SendReport
  <2>1. UNCHANGED <<pressed, nkro, inEp, seen>>
    BY <1>5 DEF SendReport
  <2>2. ASSUME NEW r \in out'
        PROVE  r.bytes \in {8, 32} /\ (r.bytes = 32 => Usages(r) \in {{}, Chord})
    <3>1. r = NkroReport(nkro) \/ r = BootReport(boot')
      BY <1>5, <2>2 DEF SendReport
    <3>2. CASE r = NkroReport(nkro)
      BY <3>2, ReportIsWhole DEF NkroReport, Bytes
    <3>3. CASE r = BootReport(boot')
      <4>1. r.bytes = 8
        BY <3>3 DEF BootReport, Bytes
      <4> QED
        BY <4>1
    <3> QED
      BY <3>1, <3>2, <3>3
  <2> QED
    BY <2>1, <2>2 DEF WholeReports, WholeChords
<1>6. CASE WriteReport
  <2>1. UNCHANGED <<pressed, nkro, seen>> /\ out' = {} /\ (inEp' = out \/ inEp' = inEp)
    BY <1>6 DEF WriteReport
  <2> QED
    BY <2>1 DEF WholeReports, WholeChords
<1>7. CASE Collect
  <2>1. UNCHANGED <<pressed, nkro, out>> /\ inEp' = {}
    BY <1>7 DEF Collect, mainVars
  <2>2. PICK report \in inEp, p \in HostProtocols : seen' \in Takes(p, report)
    BY <1>7 DEF Collect
  <2>3. report.bytes \in {8, 32} /\ (report.bytes = 32 => Usages(report) \in {{}, Chord})
    BY DEF WholeReports
  <2>4. WholeChords'
    BY <2>2, <2>3, TakenIsWhole DEF WholeChords
  <2> QED
    BY <2>1, <2>4 DEF WholeReports
<1>8. CASE BusReset
  BY <1>8, NoKeysShow DEF BusReset, WholeReports, WholeChords, mainVars
<1> QED
  BY <1>0, <1>1, <1>2, <1>3, <1>4, <1>5, <1>6, <1>7, <1>8 DEF Next, MainLoop

\* A host that reads a report of the report protocol's length by this protocol
\* sees all keys of the chord or none of them, wherever the interrupt comes
\* between the steps of the main loop.
THEOREM HostSeesWholeChords == Spec => []WholeChords
<1>1. ChordInv => WholeChords
  BY DEF ChordInv
<1> QED
  BY <1>1, ChordInit, ChordStep, PTL DEF Spec

-----------------------------------------------------------------------------
(* What the host knows of the settings.                                     *)

LEMMA Meaning ==
  ASSUME NEW r, NEW dir, NEW b, Means(r, dir, b)
  PROVE  r.dir = dir /\ r.type = "class" /\ r.bRequest = b /\ r.wIndex = KeyboardInterface
BY DEF Means, Request

\* What the handler takes for a request to the keyboard, the host means as one.
LEMMA SetsWhatIsMeant ==
  ASSUME NEW r \in Requests, NEW b
  PROVE  SetsKeyboard(r, b) <=> Means(r, "out", b)
<1>1. ASSUME Means(r, "out", b) PROVE SetsKeyboard(r, b)
  BY <1>1, Meaning DEF SetsKeyboard
<1>2. ASSUME SetsKeyboard(r, b) PROVE Means(r, "out", b)
  <2>1. r = Request(r.dir, r.type, r.bRequest, r.wValue, r.wIndex, r.data)
    BY RequestsAssumption
  <2> QED
    BY <1>2, <2>1 DEF SetsKeyboard, Means
<1> QED
  BY <1>1, <1>2

LEMMA KeyboardAnswers ==
  ASSUME NEW r, NEW p, NEW i, r.wIndex = KeyboardInterface, r.type = "class"
  PROVE  /\ r.dir = "in" /\ r.bRequest = Hid.get_protocol => InterfaceAnswer(r, p, i) = Data(p)
         /\ r.dir = "in" /\ r.bRequest = Hid.get_idle => InterfaceAnswer(r, p, i) = Data(i)
<1>1. InterfaceAnswer(r, p, i) = KeyboardAnswer(r, p, i)
  BY DEF InterfaceAnswer, KeyboardInterface, RawHidInterface, CdcCommInterface
<1>2. \A set : r.dir = "in" => ~SetsKeyboard(r, set)
  BY DEF SetsKeyboard
<1>3. ASSUME r.dir = "in", r.bRequest = Hid.get_protocol PROVE KeyboardAnswer(r, p, i) = Data(p)
  BY <1>2, <1>3 DEF KeyboardAnswer, Hid
<1>4. ASSUME r.dir = "in", r.bRequest = Hid.get_idle PROVE KeyboardAnswer(r, p, i) = Data(i)
  BY <1>2, <1>4 DEF KeyboardAnswer, Hid
<1> QED
  BY <1>1, <1>3, <1>4

\* After a request the host knows no other settings than the new ones.
LEMMA RequestTellsSettings ==
  ASSUME HostKnowsSettings, NEW r \in Requests, ControlRequest(r)
  PROVE  HostKnowsSettings'
<1> DEFINE answer == InterfaceAnswer(r, protocol, idle)
           known == Learns(r, answer)
<1>1. belief' = known
  BY DEF ControlRequest, SetProtocol, SetIdle, SetReport, JustAnswers, Answers
<1>2. /\ SetsKeyboard(r, Hid.set_protocol) => protocol' = r.wValue % 256
      /\ ~SetsKeyboard(r, Hid.set_protocol) => protocol' = protocol
  BY DEF ControlRequest, SetProtocol, SetIdle, SetReport, JustAnswers, SetsKeyboard, Hid
<1>3. /\ SetsKeyboard(r, Hid.set_idle) => idle' = r.wValue \div 256
      /\ ~SetsKeyboard(r, Hid.set_idle) => idle' = idle
  BY DEF ControlRequest, SetProtocol, SetIdle, SetReport, JustAnswers, SetsKeyboard, Hid
<1>4. /\ known.protocol = IF Means(r, "out", Hid.set_protocol) /\ answer = Ack THEN {r.wValue}
                          ELSE IF Means(r, "in", Hid.get_protocol) /\ answer # Stall
                               THEN {answer[2]} ELSE belief.protocol
      /\ known.idle = IF Means(r, "out", Hid.set_idle) /\ answer = Ack THEN {r.wValue \div 256}
                      ELSE IF Means(r, "in", Hid.get_idle) /\ answer # Stall
                           THEN {answer[2]} ELSE belief.idle
  BY DEF Learns
<1> HIDE DEF known
<1>5. /\ Means(r, "in", Hid.get_protocol) => answer[2] = protocol
      /\ Means(r, "in", Hid.get_idle) => answer[2] = idle
  <2>1. ASSUME Means(r, "in", Hid.get_protocol) PROVE answer = Data(protocol)
    BY <2>1, Meaning, KeyboardAnswers
  <2>2. ASSUME Means(r, "in", Hid.get_idle) PROVE answer = Data(idle)
    BY <2>2, Meaning, KeyboardAnswers
  <2>3. \A x : Data(x)[2] = x
    BY DEF Data
  <2> QED
    BY <2>1, <2>2, <2>3
<1> HIDE DEF answer
<1>6. ASSUME NEW p \in known.protocol PROVE p = protocol'
  <2>1. CASE Means(r, "out", Hid.set_protocol)
    <3>1. protocol' = r.wValue
      <4>1. r.wValue \in {0, 1}
        BY <2>1, ProtocolAssumption
      <4>2. protocol' = r.wValue % 256
        BY <1>2, <2>1, SetsWhatIsMeant
      <4> QED
        BY <4>1, <4>2
    <3>2. answer = Ack
      <4>1. SetsKeyboard(r, Hid.set_protocol)
        BY <2>1, SetsWhatIsMeant
      <4> QED
        BY <4>1 DEF answer, InterfaceAnswer, KeyboardAnswer, SetsKeyboard, AsksDescriptor, Hid,
             KeyboardInterface, RawHidInterface, CdcCommInterface
    <3> QED
      BY <1>4, <1>6, <2>1, <3>1, <3>2
  <2>2. CASE ~Means(r, "out", Hid.set_protocol)
    <3>1. protocol' = protocol
      BY <1>2, <2>2, SetsWhatIsMeant
    <3> QED
      BY <1>4, <1>5, <1>6, <2>2, <3>1 DEF HostKnowsSettings
  <2> QED
    BY <2>1, <2>2
<1>7. ASSUME NEW d \in known.idle PROVE d = idle'
  <2>1. CASE Means(r, "out", Hid.set_idle)
    <3>1. idle' = r.wValue \div 256
      BY <1>3, <2>1, SetsWhatIsMeant
    <3>2. answer = Ack
      <4>1. SetsKeyboard(r, Hid.set_idle)
        BY <2>1, SetsWhatIsMeant
      <4> QED
        BY <4>1 DEF answer, InterfaceAnswer, KeyboardAnswer, SetsKeyboard, AsksDescriptor, Hid,
             KeyboardInterface, RawHidInterface, CdcCommInterface
    <3> QED
      BY <1>4, <1>7, <2>1, <3>1, <3>2
  <2>2. CASE ~Means(r, "out", Hid.set_idle)
    <3>1. idle' = idle
      BY <1>3, <2>2, SetsWhatIsMeant
    <3> QED
      BY <1>4, <1>5, <1>7, <2>2, <3>1 DEF HostKnowsSettings
  <2> QED
    BY <2>1, <2>2
<1> QED
  BY <1>1, <1>6, <1>7 DEF HostKnowsSettings

\* What the host was told or has set is what the keyboard uses, for all the
\* requests that it may make to any of the interfaces.
THEOREM HostIsToldTheTruth == Spec => []HostKnowsSettings
<1>1. Init => HostKnowsSettings
  BY DEF Init, HostKnowsSettings, NothingKnown
<1>2. HostKnowsSettings /\ [Next]_vars => HostKnowsSettings'
  <2> SUFFICES ASSUME HostKnowsSettings, [Next]_vars PROVE HostKnowsSettings'
    OBVIOUS
  <2>1. CASE UNCHANGED <<protocol, idle, belief>>
    BY <2>1 DEF HostKnowsSettings
  <2>2. ASSUME NEW r \in Requests, ControlRequest(r) PROVE HostKnowsSettings'
    BY <2>2, RequestTellsSettings
  <2>3. CASE MoveButton \/ MainLoop \/ Configure \/ BindDriver \/ Collect \/ UNCHANGED vars
    <3>1. UNCHANGED <<protocol, idle, belief>>
      BY <2>3 DEF MoveButton, MainLoop, PollSame, PollPressed, PollReleased, SendNothing, SendReport,
                  WriteReport, Configure, BindDriver, Collect, usbVars, vars
    <3> QED
      BY <2>1, <3>1
  <2>4. CASE BusReset
    BY <2>4 DEF BusReset, HostKnowsSettings, NothingKnown
  <2> QED
    BY <2>2, <2>3, <2>4 DEF Next, Interrupt
<1> QED
  BY <1>1, <1>2, PTL DEF Spec

-----------------------------------------------------------------------------
(* A steady signal.                                                         *)

\* The first half of the counter belongs to a press.
ButtonInv ==
  /\ debounce \in 0..(2 * DebounceTicks)
  /\ pressed \in BOOLEAN
  /\ pressed <=> debounce \in 1..DebounceTicks

\* A poll that finds what the poll before found.
LEMMA SamePoll ==
  ASSUME ButtonInv, IF pressed THEN ReportsPress ELSE ReportsRelease, UNCHANGED pressed
  PROVE  ButtonInv' /\ Signal!Keep
<1> USE ButtonAssumption DEF ButtonInv
<1>1. CASE pressed
  <2>1. debounce \in 1..DebounceTicks /\ debounce' \in 1..DebounceTicks
        /\ debounce' = IF debounce < DebounceTicks THEN debounce + 1 ELSE debounce
    BY <1>1 DEF ReportsPress, Counting
  <2>2. Age = debounce /\ Age' = debounce'
    BY <2>1 DEF Age
  <2> QED
    BY <1>1, <2>1, <2>2 DEF Signal!Keep
<1>2. CASE ~pressed
  <2>1. debounce \in {0} \cup (DebounceTicks + 1)..(2 * DebounceTicks)
    BY <1>2
  <2>2. CASE debounce = 0
    <3>1. debounce' = 0
      BY <1>2, <2>2 DEF ReportsRelease, Counting
    <3> QED
      BY <1>2, <2>2, <3>1 DEF Signal!Keep, Age
  <2>3. CASE debounce = 2 * DebounceTicks
    <3>1. debounce' = 0 \/ debounce' = debounce
      BY <1>2, <2>3 DEF ReportsRelease, Counting
    <3>2. Age = DebounceTicks /\ Age' = DebounceTicks
      BY <2>3, <3>1 DEF Age
    <3>3. ButtonInv'
      BY <1>2, <2>3, <3>1
    <3> QED
      BY <3>2, <3>3 DEF Signal!Keep
  <2>4. CASE debounce \in (DebounceTicks + 1)..(2 * DebounceTicks - 1)
    <3>1. debounce' = debounce + 1
      BY <1>2, <2>4 DEF ReportsRelease, Counting
    <3>2. Age = debounce - DebounceTicks /\ Age' = debounce + 1 - DebounceTicks
      BY <2>4, <3>1 DEF Age
    <3>3. ButtonInv'
      BY <1>2, <2>4, <3>1
    <3>4. Age < DebounceTicks /\ Age' = Age + 1
      BY <2>4, <3>2
    <3> QED
      BY <3>3, <3>4 DEF Signal!Keep
  <2> QED
    BY <2>1, <2>2, <2>3, <2>4
<1> QED
  BY <1>1, <1>2

LEMMA PressingPoll ==
  ASSUME ButtonInv, ~pressed, ReportsPress, pressed' = TRUE
  PROVE  ButtonInv' /\ Signal!Turn
<1> USE ButtonAssumption DEF ButtonInv
<1>1. debounce = 0 /\ debounce' = 1
  BY DEF ReportsPress, Counting
<1>2. Age = DebounceTicks /\ Age' = 1
  BY <1>1 DEF Age
<1>3. ButtonInv'
  BY <1>1
<1>4. pressed' = ~pressed
  BY Zenon
<1> QED
  BY <1>2, <1>3, <1>4 DEF Signal!Turn

LEMMA ReleasingPoll ==
  ASSUME ButtonInv, pressed, ReportsRelease, pressed' = FALSE
  PROVE  ButtonInv' /\ Signal!Turn
<1> USE ButtonAssumption DEF ButtonInv
<1>1. debounce = DebounceTicks /\ debounce' = DebounceTicks + 1
  BY DEF ReportsRelease, Counting
<1>2. Age = DebounceTicks /\ Age' = 1
  BY <1>1 DEF Age
<1>3. ButtonInv'
  <2>1. debounce' \in 0..(2 * DebounceTicks) /\ debounce' \notin 1..DebounceTicks
    BY <1>1
  <2> QED
    BY <2>1, Zenon
<1>4. pressed' = ~pressed
  BY Zenon
<1> QED
  BY <1>2, <1>3, <1>4 DEF Signal!Turn

LEMMA ButtonStep ==
  ASSUME ButtonInv, [Next]_vars
  PROVE  ButtonInv' /\ [Signal!Next]_<<pressed, Age>>
<1>1. CASE PollSame
  BY <1>1, SamePoll DEF PollSame, Signal!Next
<1>2. CASE PollPressed
  BY <1>2, PressingPoll DEF PollPressed, Signal!Next
<1>3. CASE PollReleased
  BY <1>3, ReleasingPoll DEF PollReleased, Signal!Next
<1>4. CASE UNCHANGED <<debounce, pressed>>
  BY <1>4 DEF ButtonInv, Age
<1>5. CASE \/ MoveButton \/ SendNothing \/ SendReport \/ WriteReport
           \/ Interrupt \/ BindDriver \/ Collect \/ BusReset \/ UNCHANGED vars
  <2>1. UNCHANGED <<debounce, pressed>>
    BY <1>5, InterruptKeepsKeys DEF MoveButton, SendNothing, SendReport, WriteReport,
                                    BindDriver, Collect, BusReset, vars, mainVars
  <2> QED
    BY <1>4, <2>1
<1> QED
  BY <1>1, <1>2, <1>3, <1>5 DEF Next, MainLoop

LEMMA InitButton ==
  ASSUME Init
  PROVE  ButtonInv /\ Signal!Init
<1>1. debounce = 0 /\ pressed = FALSE
  BY DEF Init
<1>2. debounce \in 0..(2 * DebounceTicks) /\ debounce \notin 1..DebounceTicks
  BY <1>1, ButtonAssumption
<1>3. ButtonInv
  BY <1>1, <1>2, Zenon DEF ButtonInv
<1>4. Age = DebounceTicks
  BY <1>1 DEF Age
<1> QED
  BY <1>1, <1>3, <1>4 DEF Signal!Init

\* The debouncer implements a steady signal, for every number of ticks: once it
\* has turned it keeps its value for that many polls.
THEOREM ButtonIsSteady == Spec => PressesAreSteady
<1>1. Init => ButtonInv /\ Signal!Init
  BY InitButton
<1>2. ButtonInv /\ [Next]_vars => ButtonInv' /\ [Signal!Next]_<<pressed, Age>>
  BY ButtonStep
<1> QED
  BY <1>1, <1>2, PTL DEF Spec, PressesAreSteady, Signal!Spec

-----------------------------------------------------------------------------
(* Types.                                                                   *)

\* Every set of numbers that lie within n of each other has a largest one.
HasMax(n) ==
  \A a \in Nat : \A S \in SUBSET (a..(a + n - 1)) :
    S # {} => \E x \in S : \A y \in S : x >= y

LEMMA MaxOfTwice ==
  ASSUME NEW n \in Nat, HasMax(n)
  PROVE  HasMax(2 * n)
<1> SUFFICES ASSUME NEW a \in Nat, NEW S \in SUBSET (a..(a + 2 * n - 1)), S # {}
             PROVE  \E x \in S : \A y \in S : x >= y
  BY DEF HasMax
<1> DEFINE Upper == S \cap ((a + n)..(a + n + n - 1))
<1>1. CASE Upper # {}
  <2>1. PICK x \in Upper : \A y \in Upper : x >= y
    <3>1. a + n \in Nat /\ Upper \in SUBSET ((a + n)..((a + n) + n - 1))
      OBVIOUS
    <3> HIDE DEF Upper
    <3> QED
      BY <1>1, <3>1 DEF HasMax
  <2>2. ASSUME NEW y \in S PROVE x >= y
    <3>1. y \in Nat /\ x \in Nat /\ x >= a + n /\ y <= a + 2 * n - 1 /\ y >= a
      BY <2>1
    <3> QED
      BY <2>1, <3>1
  <2> QED
    BY <2>1, <2>2
<1>2. CASE Upper = {}
  <2>1. S \in SUBSET (a..(a + n - 1))
    <3> SUFFICES ASSUME NEW y \in S PROVE y \in a..(a + n - 1)
      OBVIOUS
    <3>1. y \in a..(a + 2 * n - 1) /\ y \notin (a + n)..(a + n + n - 1)
      BY <1>2
    <3> QED
      BY <3>1
  <2> QED
    BY <2>1 DEF HasMax
<1> QED
  BY <1>1, <1>2

LEMMA MaxOfBytes ==
  ASSUME NEW S, S \subseteq 0..255, S # {}
  PROVE  Max(S) \in S
<1>1. HasMax(1)
  <2> SUFFICES ASSUME NEW a \in Nat, NEW T \in SUBSET (a..(a + 1 - 1)), T # {}
               PROVE  \E x \in T : \A y \in T : x >= y
    BY DEF HasMax
  <2>1. \A y \in T : y = a /\ a >= y
    OBVIOUS
  <2>2. PICK x \in T : TRUE
    OBVIOUS
  <2> QED
    BY <2>1, <2>2
<1>2. HasMax(2 * 1) /\ HasMax(2)
  BY <1>1, MaxOfTwice
<1>3. HasMax(2 * 2) /\ HasMax(4)
  BY <1>2, MaxOfTwice
<1>4. HasMax(2 * 4) /\ HasMax(8)
  BY <1>3, MaxOfTwice
<1>5. HasMax(2 * 8) /\ HasMax(16)
  BY <1>4, MaxOfTwice
<1>6. HasMax(2 * 16) /\ HasMax(32)
  BY <1>5, MaxOfTwice
<1>7. HasMax(2 * 32) /\ HasMax(64)
  BY <1>6, MaxOfTwice
<1>8. HasMax(2 * 64) /\ HasMax(128)
  BY <1>7, MaxOfTwice
<1>9. HasMax(2 * 128) /\ HasMax(256)
  BY <1>8, MaxOfTwice
<1>10. \E x \in S : \A y \in S : x >= y
  <2>1. 0 \in Nat /\ S \in SUBSET (0..(0 + 256 - 1))
    OBVIOUS
  <2> QED
    BY <1>9, <2>1 DEF HasMax
<1> QED
  BY <1>10 DEF Max

Matrix == (0..31) \X (0..7)

LEMMA PlaceInMatrix ==
  ASSUME NEW c \in 0..239
  PROVE  Position(c) \subseteq Matrix
<1>1. (c \div 8) + 1 \in 1..30 /\ c % 8 \in 0..7
  OBVIOUS
<1>2. Position(c) \subseteq {<<(c \div 8) + 1, c % 8>>}
  BY DEF Position
<1> QED
  BY <1>1, <1>2 DEF Matrix

LEMMA BootCodesAreBytes ==
  ASSUME NEW report, report \subseteq Matrix
  PROVE  BootCodes(report) \subseteq 0..255
<1> SUFFICES ASSUME NEW pos \in report PROVE pos[1] * 8 + 7 - pos[2] \in 0..255
  BY DEF BootCodes
<1>1. pos[1] \in 0..31 /\ pos[2] \in 0..7
  BY DEF Matrix
<1> QED
  BY <1>1

LEMMA BootKeysAreBytes ==
  ASSUME NEW old, old.keys \in [1..6 -> 0..255], NEW report, report \subseteq Matrix
  PROVE  ConvertToBoot(old, report).keys \in [1..6 -> 0..255]
<1> DEFINE codes == BootCodes(report)
<1>1. codes # {} => Max(codes) \in 0..255
  <2>1. codes \subseteq 0..255
    BY BootCodesAreBytes
  <2> HIDE DEF codes
  <2> QED
    BY <2>1, MaxOfBytes
<1>2. ConvertToBoot(old, report).keys
        = IF codes = {} THEN old.keys ELSE [old.keys EXCEPT ![1] = Max(codes)]
  BY DEF ConvertToBoot
<1> HIDE DEF codes
<1> QED
  BY <1>1, <1>2

SettingsTypes == protocol \in 0..255 /\ idle \in 0..255 /\ leds \in 0..255

LEMMA RequestKeepsSettingsTypes ==
  ASSUME SettingsTypes, NEW r \in Requests, ControlRequest(r)
  PROVE  SettingsTypes'
<1>1. r.wValue % 256 \in 0..255 /\ r.wValue \div 256 \in 0..255
  <2>1. PICK w \in Nat : w < 65536 /\ w = r.wValue
    BY WordAssumption
  <2>2. w % 256 \in 0..255
    OBVIOUS
  <2>3. w \div 256 \in 0..255
    BY <2>1
  <2> QED
    BY <2>1, <2>2, <2>3
<1>2. Len(r.data) = 1 => r.data[1] \in 0..255
  <2> DEFINE Byte == 0..255
  <2>1. r.data \in Seq(Byte)
    BY BytesAssumption
  <2> HIDE DEF Byte
  <2>2. Len(r.data) = 1 => r.data[1] \in Byte
    BY <2>1
  <2> QED
    BY <2>2 DEF Byte
<1> QED
  BY <1>1, <1>2 DEF SettingsTypes, ControlRequest, SetProtocol, SetIdle, SetReport, JustAnswers

\* What ButtonInv and SettingsTypes leave of TypeOK.
MainTypes ==
  /\ down \in BOOLEAN
  /\ mpc \in {"poll", "send", "write"}
  /\ dirty \in BOOLEAN /\ configured \in BOOLEAN /\ bound \in BOOLEAN
  /\ nkro \subseteq Matrix
  /\ boot.keys \in [1..6 -> 0..255]
  /\ \A r, s \in out : r = s
  /\ \A r, s \in inEp : r = s

LEMMA MainTypesStep ==
  ASSUME MainTypes, [Next]_vars
  PROVE  MainTypes'
<1> USE DEF MainTypes
<1>1. CASE MoveButton
  BY <1>1 DEF MoveButton, mainVars, usbVars
<1>2. CASE PollSame \/ SendNothing
  BY <1>2 DEF PollSame, SendNothing, usbVars
<1>3. CASE BindDriver
  BY <1>3 DEF BindDriver, mainVars
<1>4. CASE Collect
  BY <1>4 DEF Collect, mainVars, usbVars
<1>5. CASE BusReset
  BY <1>5 DEF BusReset, mainVars
<1>6. CASE WriteReport
  BY <1>6 DEF WriteReport, usbVars
<1>7. CASE PollPressed
  <2>1. \A c \in Chord : Position(c) \subseteq Matrix
    BY KeyboardAssumption, PlaceInMatrix
  <2>2. nkro' \subseteq Matrix
    BY <1>7, <2>1 DEF PollPressed, KeysDown
  <2> QED
    BY <1>7, <2>2 DEF PollPressed, usbVars
<1>8. CASE PollReleased
  BY <1>8 DEF PollReleased, KeysUp, usbVars
<1>9. CASE SendReport
  <2>1. boot'.keys \in [1..6 -> 0..255] /\ \A r, s \in out' : r = s
    BY <1>9, BootKeysAreBytes DEF SendReport
  <2> QED
    BY <1>9, <2>1 DEF SendReport, usbVars
<1>10. CASE Interrupt
  <2>1. UNCHANGED <<down, mainVars, bound>> /\ inEp' \in {inEp, {}}
    BY <1>10, InterruptKeepsKeys
  <2>2. configured' \in BOOLEAN
    BY <1>10 DEF Interrupt, Configure, ControlRequest, SetProtocol, SetIdle, SetReport, JustAnswers,
                Answers
  <2> QED
    BY <2>1, <2>2 DEF mainVars
<1>11. CASE UNCHANGED vars
  BY <1>11 DEF vars, mainVars, usbVars
<1> QED
  BY <1>1, <1>2, <1>3, <1>4, <1>5, <1>6, <1>7, <1>8, <1>9, <1>10, <1>11
     DEF Next, MainLoop

\* The report keeps to the bytes and bits that it has, the settings to a byte,
\* and one report at most is on its way, whatever the host asks for.
THEOREM KeyboardTypes == Spec => []TypeOK
<1>1. Init => MainTypes /\ SettingsTypes
  <2> SUFFICES ASSUME Init PROVE MainTypes /\ SettingsTypes
    OBVIOUS
  <2>1. boot.keys \in [1..6 -> 0..255]
    BY DEF Init
  <2>2. SettingsTypes
    BY DEF Init, SettingsTypes
  <2>3. configured \in BOOLEAN /\ bound \in BOOLEAN /\ dirty \in BOOLEAN /\ down \in BOOLEAN
    BY DEF Init
  <2>4. nkro = {} /\ out = {} /\ inEp = {} /\ mpc = "poll"
    BY DEF Init
  <2> QED
    BY <2>1, <2>2, <2>3, <2>4 DEF MainTypes
<1>2. SettingsTypes /\ [Next]_vars => SettingsTypes'
  <2> SUFFICES ASSUME SettingsTypes, [Next]_vars PROVE SettingsTypes'
    OBVIOUS
  <2>1. ASSUME NEW r \in Requests, ControlRequest(r) PROVE SettingsTypes'
    BY <2>1, RequestKeepsSettingsTypes
  <2>2. CASE MoveButton \/ MainLoop \/ Configure \/ BindDriver \/ Collect \/ BusReset \/ UNCHANGED vars
    BY <2>2 DEF SettingsTypes, MoveButton, MainLoop, PollSame, PollPressed, PollReleased, SendNothing,
                SendReport, WriteReport, Configure, BindDriver, Collect, BusReset, usbVars, vars
  <2> QED
    BY <2>1, <2>2 DEF Next, Interrupt
<1>3. MainTypes /\ [Next]_vars => MainTypes'
  BY MainTypesStep
<1>4. MainTypes /\ SettingsTypes /\ ButtonInv => TypeOK
  BY DEF MainTypes, SettingsTypes, ButtonInv, TypeOK, ButtonTypeOK, Matrix
<1>5. Spec => []ButtonInv
  <2>1. Init => ButtonInv
    BY InitButton
  <2>2. ButtonInv /\ [Next]_vars => ButtonInv'
    BY ButtonStep
  <2> QED
    BY <2>1, <2>2, PTL DEF Spec
<1> QED
  BY <1>1, <1>2, <1>3, <1>4, <1>5, PTL DEF Spec
=============================================================================
