-------------------------- MODULE ControlRequests ---------------------------
(***************************************************************************)
(* Requests to the interfaces of both programs, on the control endpoint:   *)
(* interface_control_request_handler in firmware/usb.c and the handlers    *)
(* that it chooses by wIndex, and control_request_handler in               *)
(* bootloader/usb.c.  The numbers of the requests are kept, as those of    *)
(* the HID class coincide with others of the standard.                     *)
(***************************************************************************)
EXTENDS UsbDescriptors, Sequences

Standard == [get_status |-> 0, get_descriptor |-> 6, get_interface |-> 10, set_interface |-> 11]
Hid      == [get_report |-> 1, get_idle |-> 2, get_protocol |-> 3,
             set_report |-> 9, set_idle |-> 10, set_protocol |-> 11]
Cdc      == [set_line_coding |-> 32, set_control_line_state |-> 34]

\* A request: direction and type of bmRequestType, and the data of an OUT one.
Request(d, t, b, value, index, x) ==
  [dir |-> d, type |-> t, bRequest |-> b, wValue |-> value, wIndex |-> index, data |-> x]

Stall        == <<"stall">>
Ack          == <<"ack">>
Data(x)      == <<"data", x>>

ReportDescriptor == 8704   \* 0x2200 in wValue
HidDescriptor    == 8448   \* 0x2100

AsksDescriptor(r) ==
  r.dir = "in" /\ r.bRequest = Standard.get_descriptor
    /\ r.wValue \in {ReportDescriptor, HidDescriptor}

\* raw_hid_control_request_handler does not look at the type.
RawHidAnswer(r) ==
  IF AsksDescriptor(r) THEN Data(<<RawHidInterface, r.wValue>>) ELSE Stall

\* Mutant: only what the functional descriptor advertises is handled.
CdcAnswerAsAdvertised(r) ==
  IF r.bRequest = Cdc.set_line_coding /\ Len(r.data) >= 7 THEN Ack ELSE Stall

\* cdcacm_control_request_handler looks at neither direction nor type.
CdcAnswer(r) ==
  IF \/ r.bRequest = Cdc.set_control_line_state
     \/ r.bRequest = Cdc.set_line_coding /\ Len(r.data) >= 7
  THEN Ack
  ELSE Stall

\* Mutant: the type of the request is not looked at.
SetsKeyboardOfAnyType(r, bRequest) ==
  r.wIndex = KeyboardInterface /\ r.dir = "out" /\ r.bRequest = bRequest

\* The keyboard's handler takes r for the class request bRequest to the device.
SetsKeyboard(r, bRequest) ==
  /\ r.wIndex = KeyboardInterface
  /\ r.dir = "out" /\ r.type = "class" /\ r.bRequest = bRequest

\* keyboard_hid_control_request_handler, where a request to the host finds
\* protocol and idle as they are given; it tells the boot report whatever
\* the protocol is.
KeyboardAnswer(r, protocol, idle) ==
  CASE r.type = "standard" /\ AsksDescriptor(r) -> Data(<<KeyboardInterface, r.wValue>>)
    [] r.dir = "in" /\ r.type = "class" /\ r.bRequest = Hid.get_report   -> Data("boot report")
    [] r.dir = "in" /\ r.type = "class" /\ r.bRequest = Hid.get_idle     -> Data(idle)
    [] r.dir = "in" /\ r.type = "class" /\ r.bRequest = Hid.get_protocol -> Data(protocol)
    [] \E set \in {Hid.set_report, Hid.set_idle, Hid.set_protocol} : SetsKeyboard(r, set) -> Ack
    [] OTHER -> Stall

\* What libopencm3 does with a request that no handler took.
LibraryAnswer(r) ==
  IF r.type = "standard"
     /\ r.bRequest \in {Standard.get_status, Standard.get_interface, Standard.set_interface}
  THEN Ack
  ELSE Stall

\* interface_control_request_handler.  Only the requests to the data interface
\* of the serial port get to the library: the handlers refuse the rest.
InterfaceAnswer(r, protocol, idle) ==
  CASE r.wIndex = RawHidInterface   -> RawHidAnswer(r)
    [] r.wIndex = CdcCommInterface  -> CdcAnswer(r)
    [] r.wIndex = KeyboardInterface -> KeyboardAnswer(r, protocol, idle)
    [] OTHER                        -> LibraryAnswer(r)

\* control_request_handler of the bootloader, which is registered for standard
\* requests to the host, and does not look at wIndex.
BootloaderAnswer(r) ==
  IF r.dir = "in" /\ r.type = "standard"
  THEN IF r.bRequest = Standard.get_descriptor /\ r.wValue = ReportDescriptor
       THEN Data(<<RawHidInterface, ReportDescriptor>>)
       ELSE Stall
  ELSE LibraryAnswer(r)

-----------------------------------------------------------------------------
(* The HID driver of the host asks an interface for the description of its  *)
(* reports before it uses it.                                               *)

AskReports(interface) ==
  Request("in", "standard", Standard.get_descriptor, ReportDescriptor, interface, <<>>)

TellsReports(answer, interface) == answer = Data(<<interface, ReportDescriptor>>)

\* The raw HID interface that the programs present: reports are as long as
\* packets, and both endpoints take them.
RawHidFits(sizes, i) ==
  \A ep \in {"rawHidIn", "rawHidOut"} : Fits(sizes, i, ep, RawHidReportBits \div 8)

FirmwareServesRawHid ==
  /\ Configurable /\ RawHidFits(SetUpSize, raw_hid_interface)
  /\ TellsReports(InterfaceAnswer(AskReports(RawHidInterface), 1, 0), RawHidInterface)

BootloaderServesRawHid ==
  /\ BootloaderConfigurable /\ RawHidFits(BootloaderSetUpSize, hid_interface)
  /\ TellsReports(BootloaderAnswer(AskReports(RawHidInterface)), RawHidInterface)
=============================================================================
