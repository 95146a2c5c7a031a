------------------------------ MODULE Keyboard ------------------------------
(***************************************************************************)
(* The keyboard of the firmware: the main loop that polls the button and   *)
(* sends reports (firmware/main.c, firmware/usb.c), the USB interrupt that *)
(* serves the host between any two of its steps, the user, and the host.   *)
(*                                                                         *)
(* A key report is a set of positions, a byte and a bit of                 *)
(* nkro_key_report.  On its way to the host a report is bytes and no more: *)
(* the host reads them by the protocol that it believes to be set.         *)
(*                                                                         *)
(* A reset of the device starts a new behaviour.                           *)
(***************************************************************************)
EXTENDS UserButton, ControlRequests, FiniteSetsExt

CONSTANTS
  Chord,     \* the codes of the keys that the button stands for
  Requests   \* the requests to interfaces that the host may make

\* What the host means by r: the class request bRequest to the keyboard.
Means(r, dir, bRequest) ==
  r = Request(dir, "class", bRequest, r.wValue, KeyboardInterface, r.data)

ASSUME KeyboardAssumption == Chord \subseteq 0..239

ASSUME RequestsAssumption ==
  \A r \in Requests : r = Request(r.dir, r.type, r.bRequest, r.wValue, r.wIndex, r.data)

\* Their fields have two bytes, and one byte each.
ASSUME WordAssumption == \A r \in Requests : r.wValue \in Nat /\ r.wValue < 65536
ASSUME BytesAssumption == \A r \in Requests : r.data \in Seq(0..255)

\* A host that chooses a protocol names one of those that there are.
ASSUME ProtocolAssumption ==
  \A r \in Requests : Means(r, "out", Hid.set_protocol) => r.wValue \in {0, 1}

VARIABLES
  mpc,         \* where the main loop is: "poll", "send" or "write"
  pressed,     \* the button was pressed at the last poll
  nkro,        \* nkro_key_report
  boot,        \* boot_key_report
  dirty,       \* key_state_chaged
  out,         \* the report about to be written: none or one
  protocol,    \* keyboard_protocol
  idle,        \* keyboard_idle
  leds,        \* keyboard_leds
  configured,  \* the host has configured the device
  bound,       \* a driver of the host has read the report descriptor
  belief,      \* protocol and idle as the host knows them: none or one of each
  inEp,        \* the report in the endpoint: none or one
  seen         \* the last report that the host has taken, as it has read it

mainVars == <<debounce, mpc, pressed, nkro, boot, dirty, out>>
usbVars  == <<protocol, idle, leds, configured, bound, belief>>
vars == <<down, mainVars, usbVars, inEp, seen>>

-----------------------------------------------------------------------------
(* Reports.                                                                 *)

\* Mutant: the byte of the modifiers is not skipped.
PositionOverModifiers(code) == {<<code \div 8, code % 8>>}

\* Where a key is in nkro_key_report; codes that do not fit have no place.
Position(code) ==
  IF code \in 240..247 THEN {<<0, code % 8>>}
  ELSE {pos \in {<<(code \div 8) + 1, code % 8>>} : pos[1] < 32}

\* usb_keyboard_key_down and usb_keyboard_key_up for each of codes.
KeysDown(report, codes) == report \cup UNION {Position(c) : c \in codes}
KeysUp(report, codes) == report \ UNION {Position(c) : c \in codes}

\* A report on its way: how long it is, and the places of the bits that are one.
Bytes(n, bits) == [bytes |-> n, bits |-> bits]

NkroReport(report) == Bytes(32, report)

\* What the loops over bytes and bits put into keys[] one after the other.
\* They count bits from the top, and they come by in ascending order.
BootCodes(report) == {pos[1] * 8 + 7 - pos[2] : pos \in {q \in report : q[1] > 0}}

\* Each of them goes to keys[0], as nkeys is never counted up; so keys[0] is
\* the last one, or what it was before, and the branch for more than six keys
\* is never reached.
ConvertToBoot(old, report) ==
  [ modifiers |-> {pos[2] : pos \in {q \in report : q[1] = 0}},
    keys      |-> IF BootCodes(report) = {} THEN old.keys
                  ELSE [old.keys EXCEPT ![1] = Max(BootCodes(report))] ]

\* The bits of a number.
BitsOf(n) == {bit \in 0..7 : (n \div 2^bit) % 2 = 1}

\* The byte behind the modifiers is reserved.
BootReport(b) ==
  Bytes(8, {<<0, bit>> : bit \in b.modifiers}
             \cup UNION {{<<i + 1, bit>> : bit \in BitsOf(b.keys[i])} : i \in 1..6})

NothingKnown == [protocol |-> {}, idle |-> {}]

-----------------------------------------------------------------------------
(* The host reads a report.                                                 *)

\* The usages of a bit, by keyboard_hid_report_descriptor.
Usage(pos) == IF pos[1] = 0 THEN 224 + pos[2] ELSE 8 * (pos[1] - 1) + pos[2]

ByteOf(report, i) == SumSet({2^bit : bit \in {b \in 0..7 : <<i, b>> \in report.bits}})

\* What a report says in the report protocol, and in the boot protocol.
Usages(report) == {Usage(pos) : pos \in report.bits}
BootUsages(report) ==
  {224 + bit : bit \in {b \in 0..7 : <<0, b>> \in report.bits}}
    \cup ({ByteOf(report, i) : i \in 2..7} \ {0})

\* The protocol that the host believes to be set: at first that of reports.
HostProtocols == IF belief.protocol = {} THEN {1} ELSE belief.protocol

Read(p, report) ==
  [ protocol |-> p, bytes |-> report.bytes,
    usages   |-> IF p # 0 THEN Usages(report) ELSE BootUsages(report) ]

\* The report is as long as the protocol says.
Expected(p, report) ==
  8 * report.bytes = IF p # 0 THEN KeyboardReportBits ELSE 8 * 8

\* A host takes a report of another length for what it is not, or drops it.
Takes(p, report) ==
  {Read(p, report)} \cup (IF Expected(p, report) THEN {} ELSE {seen})

NoKeys == Read(1, NkroReport({}))

-----------------------------------------------------------------------------

Init ==
  /\ down \in BOOLEAN
  /\ debounce = 0
  /\ mpc = "poll" /\ pressed = FALSE
  /\ nkro = {} /\ dirty = FALSE /\ out = {}
  /\ boot = [modifiers |-> {}, keys |-> [i \in 1..6 |-> 0]]
  /\ protocol = 1 /\ idle = 0 /\ leds = 0
  /\ configured = FALSE /\ bound = FALSE /\ belief = NothingKnown
  /\ inEp = {} /\ seen = NoKeys

\* The user presses or releases the button.
MoveButton ==
  /\ down' = ~down
  /\ UNCHANGED <<mainVars, usbVars, inEp, seen>>

-----------------------------------------------------------------------------
(* The main loop.  Only it touches the keys, so a poll and what it does to  *)
(* them is one step; the interrupt may come between the steps.              *)

\* The button is as it was.
PollSame ==
  /\ mpc = "poll"
  /\ IF pressed THEN ReportsPress ELSE ReportsRelease
  /\ mpc' = "send"
  /\ UNCHANGED <<down, pressed, nkro, boot, dirty, out, usbVars, inEp, seen>>

PollPressed ==
  /\ mpc = "poll"
  /\ ~pressed /\ ReportsPress
  /\ nkro' = KeysDown(nkro, Chord) /\ dirty' = TRUE
  /\ pressed' = TRUE
  /\ mpc' = "send"
  /\ UNCHANGED <<down, boot, out, usbVars, inEp, seen>>

\* Mutant: the main loop forgets to say that a report is due.
PollReleasedSilently ==
  /\ mpc = "poll"
  /\ pressed /\ ReportsRelease
  /\ nkro' = KeysUp(nkro, Chord)
  /\ pressed' = FALSE
  /\ mpc' = "send"
  /\ UNCHANGED <<down, boot, dirty, out, usbVars, inEp, seen>>

PollReleased ==
  /\ mpc = "poll"
  /\ pressed /\ ReportsRelease
  /\ nkro' = KeysUp(nkro, Chord) /\ dirty' = TRUE
  /\ pressed' = FALSE
  /\ mpc' = "send"
  /\ UNCHANGED <<down, boot, out, usbVars, inEp, seen>>

\* usb_send_keys_if_changed finds nothing to send.
SendNothing ==
  /\ mpc = "send"
  /\ ~dirty
  /\ mpc' = "poll"
  /\ UNCHANGED <<down, debounce, pressed, nkro, boot, dirty, out, usbVars, inEp, seen>>

\* Mutant: a report without keys is not worth sending.
SendReportOfKeys ==
  /\ mpc = "send"
  /\ dirty
  /\ dirty' = FALSE
  /\ out' = IF nkro = {} THEN {} ELSE {NkroReport(nkro)}
  /\ mpc' = "write"
  /\ UNCHANGED <<down, debounce, pressed, nkro, boot, usbVars, inEp, seen>>

\* It clears the flag and builds the report of the protocol that is set now.
SendReport ==
  /\ mpc = "send"
  /\ dirty
  /\ dirty' = FALSE
  /\ IF protocol # 0
     THEN out' = {NkroReport(nkro)} /\ UNCHANGED boot
     ELSE boot' = ConvertToBoot(boot, nkro) /\ out' = {BootReport(boot')}
  /\ mpc' = "write"
  /\ UNCHANGED <<down, debounce, pressed, nkro, usbVars, inEp, seen>>

\* The endpoint takes a report when it is set up, empty and large enough.
Accepts ==
  /\ configured /\ inEp = {}
  /\ \A report \in out : Fits(SetUpSize, keyboard_hid_interface, "keyboardIn", report.bytes)

\* Mutant: the length is that of the protocol that is set when it is written.
WriteReportOfOtherLength ==
  /\ mpc = "write"
  /\ inEp' = IF Accepts THEN {Bytes(IF protocol # 0 THEN 32 ELSE 8, r.bits) : r \in out} ELSE inEp
  /\ out' = {}
  /\ mpc' = "poll"
  /\ UNCHANGED <<down, debounce, pressed, nkro, boot, dirty, usbVars, seen>>

\* usbd_ep_write_packet; nobody looks at what it returns.
WriteReport ==
  /\ mpc = "write"
  /\ inEp' = IF Accepts THEN out ELSE inEp   \* a refused report is lost
  /\ out' = {}
  /\ mpc' = "poll"
  /\ UNCHANGED <<down, debounce, pressed, nkro, boot, dirty, usbVars, seen>>

MainLoop ==
  \/ PollSame \/ PollPressed \/ PollReleased
  \/ SendNothing \/ SendReport \/ WriteReport

-----------------------------------------------------------------------------
(* The USB interrupt.                                                       *)

\* set_config_handler.
Configure ==
  /\ ~configured /\ Configurable
  /\ configured' = TRUE
  /\ inEp' = {}
  /\ UNCHANGED <<down, mainVars, protocol, idle, leds, bound, belief, seen>>

\* What it knows when answer has come.
Learns(r, answer) ==
  [ protocol |-> IF Means(r, "out", Hid.set_protocol) /\ answer = Ack THEN {r.wValue}
                 ELSE IF Means(r, "in", Hid.get_protocol) /\ answer # Stall THEN {answer[2]}
                 ELSE belief.protocol,
    idle     |-> IF Means(r, "out", Hid.set_idle) /\ answer = Ack THEN {r.wValue \div 256}
                 ELSE IF Means(r, "in", Hid.get_idle) /\ answer # Stall THEN {answer[2]}
                 ELSE belief.idle ]

\* Every request is answered at once, from the settings as they are.
Answers(r) ==
  /\ configured
  /\ belief' = Learns(r, InterfaceAnswer(r, protocol, idle))
  /\ UNCHANGED <<down, mainVars, configured, bound, inEp, seen>>

\* One byte of wValue is kept.
SetProtocol(r) ==
  /\ SetsKeyboard(r, Hid.set_protocol)
  /\ Answers(r)
  /\ protocol' = r.wValue % 256
  /\ UNCHANGED <<idle, leds>>

\* Mutant: the whole of wValue is kept.
SetIdleUnshifted(r) ==
  /\ SetsKeyboard(r, Hid.set_idle)
  /\ Answers(r)
  /\ idle' = r.wValue
  /\ UNCHANGED <<protocol, leds>>

\* The upper byte of wValue is the duration.
SetIdle(r) ==
  /\ SetsKeyboard(r, Hid.set_idle)
  /\ Answers(r)
  /\ idle' = r.wValue \div 256
  /\ UNCHANGED <<protocol, leds>>

\* Reports of more than one byte are acknowledged and ignored.
SetReport(r) ==
  /\ SetsKeyboard(r, Hid.set_report)
  /\ Answers(r)
  /\ leds' = IF Len(r.data) = 1 THEN r.data[1] ELSE leds
  /\ UNCHANGED <<protocol, idle>>

\* The other requests change nothing.
JustAnswers(r) ==
  /\ \A set \in {Hid.set_protocol, Hid.set_idle, Hid.set_report} : ~SetsKeyboard(r, set)
  /\ Answers(r)
  /\ UNCHANGED <<protocol, idle, leds>>

ControlRequest(r) == SetProtocol(r) \/ SetIdle(r) \/ SetReport(r) \/ JustAnswers(r)

-----------------------------------------------------------------------------
(* The host and the outside.                                                *)

\* The keyboard's driver of the host gets the descriptor of its reports.
BindDriver ==
  /\ configured /\ ~bound
  /\ TellsReports(InterfaceAnswer(AskReports(KeyboardInterface), protocol, idle),
                  KeyboardInterface)
  /\ bound' = TRUE
  /\ UNCHANGED <<down, mainVars, protocol, idle, leds, configured, belief, inEp, seen>>

\* The driver polls the endpoint.
Collect ==
  /\ bound
  /\ \E report \in inEp, p \in HostProtocols : seen' \in Takes(p, report)
  /\ inEp' = {}
  /\ UNCHANGED <<down, mainVars, usbVars>>

\* The host forgets the keys of a device that it resets or that went away.
BusReset ==
  /\ configured
  /\ configured' = FALSE /\ bound' = FALSE /\ belief' = NothingKnown
  /\ inEp' = {} /\ seen' = NoKeys
  /\ UNCHANGED <<down, mainVars, protocol, idle, leds>>

Interrupt == Configure \/ \E r \in Requests : ControlRequest(r)

Next == MoveButton \/ MainLoop \/ Interrupt \/ BindDriver \/ Collect \/ BusReset

\* The main loop goes round, and the host configures, binds its driver and polls.
Fairness ==
  /\ WF_vars(MainLoop)
  /\ WF_vars(Configure) /\ WF_vars(BindDriver) /\ WF_vars(Collect)

Spec == Init /\ [][Next]_vars /\ Fairness

-----------------------------------------------------------------------------
(* Safety.                                                                  *)

TypeOK ==
  /\ ButtonTypeOK
  /\ mpc \in {"poll", "send", "write"}
  /\ pressed \in BOOLEAN /\ dirty \in BOOLEAN
  /\ configured \in BOOLEAN /\ bound \in BOOLEAN
  /\ nkro \subseteq (0..31) \X (0..7)
  /\ boot.keys \in [1..6 -> 0..255]
  /\ protocol \in 0..255 /\ idle \in 0..255 /\ leds \in 0..255
  /\ \A r, s \in out : r = s
  /\ \A r, s \in inEp : r = s

\* A host that reads a report of the report protocol's length by this protocol
\* sees all keys of the chord or none of them, wherever its changes of the
\* protocol come between building, writing and collecting the report: the length
\* goes with the bytes, and what the firmware says of a key's place agrees with
\* the descriptor it gives the host (usb_send_keyboard_report,
\* usb_keyboard_key_down, keyboard_hid_report_descriptor).
WholeChords ==
  seen.protocol # 0 /\ 8 * seen.bytes = KeyboardReportBits => seen.usages \in {{}, Chord}

\* What the host was told or has set is what the keyboard uses: the requests to
\* the other interfaces and the standard requests with the same numbers do not
\* change it (interface_control_request_handler and the handlers below it).
HostKnowsSettings ==
  /\ \A p \in belief.protocol : p = protocol
  /\ \A d \in belief.idle : d = idle

\* The button's signal, as it comes out of the debouncer, is steady: two
\* changes are at least DEBOUNCE_TICKS polls apart (user_button.h: "no suprious
\* on/off events").
Age ==
  CASE debounce = 0              -> DebounceTicks
    [] debounce \in 1..DebounceTicks -> debounce
    [] OTHER                     -> debounce - DebounceTicks

Signal == INSTANCE SteadySignal WITH Ticks <- DebounceTicks, on <- pressed, age <- Age

PressesAreSteady == Signal!Spec

-----------------------------------------------------------------------------
(* Liveness.                                                                *)

\* The host uses the report protocol, and collects each report before the next
\* one is written.
HostKeepsUp == [](protocol # 0 /\ (mpc = "write" => inEp = {}))

\* Keys do not stay down for the host after the user has released the button,
\* whatever happens to the bus (main, usb_send_keys_if_changed).
NoStuckKeys ==
  HostKeepsUp => (~pressed ~> seen.usages = {} \/ pressed)

\* A change of the keys reaches the host, unless the bus is reset meanwhile
\* (usb_send_keys_if_changed, usb_send_keyboard_report).
ChangesArrive ==
  HostKeepsUp =>
    (dirty /\ configured ~> seen.usages = Usages(NkroReport(nkro)) \/ ~configured)

\* A button that stays down is reported down in the end (user_button.h: the
\* function "debounces the button presses").
HeldButtonIsReported == <>[]down => []<>pressed
=============================================================================
