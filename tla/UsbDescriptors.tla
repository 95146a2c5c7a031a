--------------------------- MODULE UsbDescriptors ---------------------------
(***************************************************************************)
(* What the two programs tell the host about themselves (the descriptors   *)
(* in firmware/usb.c and bootloader/usb.c) and what they set up            *)
(* (set_config_handler), as far as the two have to fit each other and the  *)
(* reports and packets that are sent.  A descriptor without interest but   *)
(* for its length is this length.                                          *)
(***************************************************************************)
EXTENDS Naturals, FiniteSets, SequencesExt

\* The numbers of the interfaces.
RawHidInterface   == 0
CdcCommInterface  == 1
CdcDataInterface  == 2
KeyboardInterface == 3
InterfaceCount    == 4

\* wMaxPacketSize of the endpoints.
raw_hid_interface_endpoints     == [rawHidIn |-> 64, rawHidOut |-> 64]
cdc_comm_endpoints              == [cdcCommIn |-> 16]
cdc_data_endpoints              == [cdcDataOut |-> 64, cdcDataIn |-> 64]
keyboard_hid_interface_endpoint == [keyboardIn |-> 32]

\* The bits that the keyboard's report descriptor describes: modifiers, keys.
KeyboardReportBits == 8 + 248

\* The functional descriptors; those of the serial port are a header, call
\* management, ACM and the union, which names two interfaces.
raw_hid_function      == [length |-> 9]
keyboard_hid_function == [length |-> 9]
cdcacm_functional_descriptors ==
  [length |-> 5 + 5 + 4 + 5, control |-> 1, subordinate |-> 2]

cdc_acm_interface_association == [length |-> 8, first |-> CdcCommInterface, count |-> 2]

raw_hid_interface ==
  [ number |-> RawHidInterface, endpoints |-> raw_hid_interface_endpoints,
    extra |-> raw_hid_function.length ]
cdc_comm_interface ==
  [ number |-> CdcCommInterface, endpoints |-> cdc_comm_endpoints,
    extra |-> cdcacm_functional_descriptors.length + cdc_acm_interface_association.length ]
cdc_data_interface ==
  [number |-> CdcDataInterface, endpoints |-> cdc_data_endpoints, extra |-> 0]
keyboard_hid_interface ==
  [ number |-> KeyboardInterface, endpoints |-> keyboard_hid_interface_endpoint,
    extra |-> keyboard_hid_function.length ]

interfaces ==
  <<raw_hid_interface, cdc_comm_interface, cdc_data_interface, keyboard_hid_interface>>

\* What the library has to fit into the buffer for control requests to tell
\* the host a configuration of these interfaces.
ConfigurationLength(list) ==
  FoldLeft(LAMBDA sum, i : sum + 9 + 7 * Cardinality(DOMAIN i.endpoints) + i.extra, 9, list)

\* sizeof(usbd_control_buffer).
ControlBuffer == 256

\* A host that reads a configuration cut short does not choose it.
Configurable == ConfigurationLength(SubSeq(interfaces, 1, InterfaceCount)) <= ControlBuffer

\* The sizes with which set_config_handler sets the endpoints up.
SetUpSize == [rawHidIn |-> 64, rawHidOut |-> 64, cdcDataOut |-> 64,
              cdcDataIn |-> 64, cdcCommIn |-> 8, keyboardIn |-> 32]

-----------------------------------------------------------------------------
(* The bootloader has the raw HID interface alone, with the same number.    *)

hid_interface_endpoints == [rawHidIn |-> 64, rawHidOut |-> 64]

hid_function == [length |-> 9]

hid_interface ==
  [ number |-> RawHidInterface, endpoints |-> hid_interface_endpoints,
    extra |-> hid_function.length ]

BootloaderControlBuffer == 128

BootloaderConfigurable == ConfigurationLength(<<hid_interface>>) <= BootloaderControlBuffer

BootloaderSetUpSize == [rawHidIn |-> 64, rawHidOut |-> 64]

\* The bits of a report in each direction: the same descriptor in both programs.
RawHidReportBits == 64 * 8

-----------------------------------------------------------------------------
(* The host.                                                                *)

\* The endpoint ep of interface i, set up with sizes, holds a packet of size
\* bytes, and the host takes it.
Fits(sizes, i, ep, size) == size <= sizes[ep] /\ size <= i.endpoints[ep]

\* A driver of the host takes the interfaces of the association for a serial
\* port when the union names the same two, and they are what they are taken for.
SerialPortFound ==
  LET grouped == cdc_acm_interface_association
      found   == {interfaces[grouped.first + k].number : k \in 1..grouped.count}
  IN  /\ cdcacm_functional_descriptors.control = cdc_comm_interface.number
      /\ cdcacm_functional_descriptors.subordinate = cdc_data_interface.number
      /\ found = {cdc_comm_interface.number, cdc_data_interface.number}
=============================================================================
