----------------------------- MODULE MCKeyboard -----------------------------
(***************************************************************************)
(* The keyboard with the eight keys of main, a debouncer of three polls,   *)
(* and requests to every interface.                                        *)
(***************************************************************************)
EXTENDS Keyboard

\* KEY_Q, KEY_W, KEY_E, KEY_R, KEY_U, KEY_I, KEY_O, KEY_P
MCChord == {20, 26, 8, 21, 24, 12, 18, 19}

Interfaces == 0..(InterfaceCount - 1)

\* To the keyboard: what a host sets, with every value that is told apart.
Settings ==
  {Request("out", "class", Hid.set_protocol, v, KeyboardInterface, <<>>) : v \in {0, 1}}
    \cup {Request("out", "class", Hid.set_idle, v, KeyboardInterface, <<>>) : v \in {0, 256}}
    \cup {Request("out", "class", Hid.set_report, 512, KeyboardInterface, d) :
            d \in {<<0>>, <<1>>, <<1, 1>>}}

\* To all interfaces: questions, what a host sets in other HID devices, the
\* standard requests with the same numbers, and those of serial ports.
ToAll ==
  {Request("in", "class", b, 0, i, <<>>) :
     b \in {Hid.get_report, Hid.get_idle, Hid.get_protocol}, i \in Interfaces}
    \cup {Request("in", "standard", b, 0, i, <<>>) :
            b \in {Standard.get_status, Standard.get_interface}, i \in Interfaces}
    \cup {Request("in", "standard", Standard.get_descriptor, v, i, <<>>) :
            v \in {ReportDescriptor, HidDescriptor, 8960}, i \in Interfaces}
    \cup {Request("out", "standard", Standard.set_interface, 0, i, <<>>) : i \in Interfaces}
    \cup {Request("out", "class", b, 0, i, <<>>) :
            b \in {Hid.set_idle, Hid.set_protocol}, i \in Interfaces}
    \cup {Request("out", "class", Cdc.set_line_coding, 0, i, d) :
            d \in {<<0, 0, 0>>, <<0, 0, 0, 0, 0, 0, 0>>}, i \in Interfaces}
    \cup {Request("out", "class", Cdc.set_control_line_state, 3, i, <<>>) : i \in Interfaces}

MCRequests == Settings \cup ToAll
=============================================================================
