# Verification of Stenosaurus

Stenosaurus is a steno keyboard controller built on an STM32F103. The repository
holds a bootloader, a firmware, and a host tool that flashes the firmware
through the bootloader. This directory holds TLA+ modules that model these
programs, TLC configurations that check them on small instances, and proofs that
TLAPS checks.

Module names are in `Code`; lines of the source are written `file:line`.

## 1. The system

### Components

| Component | State it keeps | Operations | Modules |
|---|---|---|---|
| Program area and its check (`bootloader/memorymap.h`, `bootloader/main.c:56-88`) | the flash words between `PROGRAM_AREA_BEGIN` and `PROGRAM_AREA_END` | erase a page, program a word, `firmware_is_valid` | `ProgramFlash` |
| Bootloader, choice at boot (`bootloader/main.c:90-147`) | the flag in bit 0 of `BKP_DR1`; the level of the user button | `should_run_firmware`, `main` | `Bootloader`, `Chip` |
| Bootloader, request handlers (`bootloader/protocol.c`, `bootloader/usb.c`) | flash lock, backup-domain protection, the endpoint buffers, the loop index of a running handler | info, erase, flash, verify, bootloader, reset, debug, unknown | `Bootloader`, `Chip`, `UsbPipe` |
| Firmware, raw HID (`firmware/protocol.c`, `firmware/usb.c:859-872`) | the same endpoints and flag | info, bootloader, reset, debug, unknown | `Firmware` |
| Clock (`firmware/clock.c`) | `system_millis` | tick, reset at rollover | `Chip` (`Rollover`), `Sdio` (`Tick`, `Rollover`) |
| Host tool (`application/main.cpp`) | HID handle, attempts left, words sent, the file's image | `flash <file>`, `debug` | `HostTool` |
| Keyboard HID (`firmware/usb.c:744-1019`, `firmware/main.c`, `firmware/keyboard.*`) | key bitmap, boot report, report-due flag, protocol, idle rate, LEDs | key down/up, send a report, SET/GET protocol, idle, report | `Keyboard` |
| User button (`common/user_button.*`) | debouncing counter | poll | `UserButton`, `SteadySignal` |
| SD card (`firmware/sdio.*`) | `sd_card_info`: address, addressing, size; power and bus width of the interface | look for a card, initialise it, read and write blocks, with retries and deadlines | `Sdio`, `SdCard`; `main.c:81-98` has the calls under `#if 0` at this commit |
| Strokes, TX Bolt (`firmware/stroke.*`, `firmware/txbolt.*`) | none (pure) | `string_to_stroke`, `make_packet` | `Stroke`, `TxBolt`; `main.c:100-107` has the calls under `#if 0` |
| Serial port, debug output (`firmware/usb.c:949-951`, `firmware/debug.*`) | none of its own | send a packet; `print`, `print_word`, `print_arg1`, spinning on a full endpoint | `SerialPort` |
| USB control requests (`*/usb.c`) | none but the keyboard's | descriptors, requests to interfaces, the sizes of endpoints | `ControlRequests`, `UsbDescriptors` |
| LEDs (`common/leds.*`) | output pins | setup, on, off, toggle | not modelled: nothing reads the pins back |

### How they interact

* The **tool** talks to whichever program runs on the **device** through raw HID:
  one request of 64 bytes in the OUT endpoint, one reply in the IN endpoint. Both
  programs answer "bootloader?", "debug" and "reset"; only the bootloader can
  erase, flash and verify.
* A **reset request** stores in `BKP_DR1` whether the bootloader should stay in
  control after the reset, replies, spins for a while and resets the chip. The
  flag is the only message from the firmware, or from the bootloader of the
  time before, to the bootloader of the time after.
* At every boot the **bootloader** decides by the button, the flag and
  `firmware_is_valid` whether it jumps to the firmware.
* `firmware_is_valid` relies on the layout that the **tool** writes: program,
  length in words, CRC, a zero, erased words.
* Handlers of requests run inside the USB interrupt. Erasing and programming are
  long; the bus may be reset and the power may fail in the middle.
* In the firmware, the main loop and the USB interrupt share the keyboard's state.
* Four **interfaces** share the firmware's control endpoint: a request is passed to a
  handler by its `wIndex` alone. A driver of the host uses an interface only when the
  handlers and the descriptors have told it what it asked.
* **Strokes** become packets of two to five bytes; a packet that meets a full endpoint is
  lost, and the listener hears bytes, not packets.

### What is hard

Power failures and bus resets between any two words of an update; replies that
carry no number, so that a late one is taken for the answer to another request;
requests that outlive the tool that sent them; the enumeration that races the
tool's sleeps; a handle kept beyond its life; a flag that survives resets; and
the edges of the program area, where four comparisons in three programs have to
agree. In the SD card's driver: responses that are lost although the card has acted,
cards that are exchanged between two commands, and deadlines that wrap. On the serial
port: packets that are lost between others, and a loop that only a reader ends.
`PROJECT.json` lists each of these at its line with the properties that
would catch it.

### What makes it correct

1. The firmware that runs is a program somebody flashed, complete, whatever
   interrupted the updates before (`RunsOnlyCompleteFirmware`), also when cells are worn
   (`RunsWholeFirmware`).
2. "Successfully flashed program" is the truth (`SuccessMeansInstalled`).
3. An update that nothing disrupts succeeds and leads to the new firmware
   (`NoSpuriousFailure`, `LeavesTheBootloader`, `SuccessLeadsToFirmware`).
4. The device cannot be bricked: it takes every request as long as no number in one
   wraps at 32 bits, gets to the bootloader when it is told to, and boots into one of the
   two programs (`RequestsAreTaken`, `StopsOnlyOnWraps`, `ResetReachesBootloader`; the last,
   `BootNeverFaults`, does not hold: run `bad_fault`).
5. A reply of success to a flash request vouches for all its words
   (`WordsSoFarStored`).
6. Every command of the tool ends (`CommandsEnd`).
7. The host sees the keys that the button stands for, all or none, and comes to see
   every change (`WholeChords`, `ChangesArrive`, `NoStuckKeys`).
8. What the host knows of the keyboard's settings is true (`HostKnowsSettings`).
9. The debounced button does not flicker (`PressesAreSteady`).
10. The driver and the SD card agree on what they have to (`KnowsTheCard`), blocks are
   the right ones (`MovesTheRightBlock`), calls end (`CallsEnd`), and no failure is
   final (`CardGetsInitialized`).
11. A stroke arrives as it was written, whatever was lost before it, and without
    waiting for the next (`StrokesArriveWhole`, `NothingHeldBack`); text arrives in order
    and once, and `print` ends (`TextArrivesInOrder`, `PrintEnds`).

## 2. The modules

```
ControlRequests   UsbPipe, ProgramFlash   requests; the endpoints, operators
             \     /     \
              Chip     HostTool           what a reset keeps; enumeration | the tool
           /    \         |
  Bootloader   Firmware   |
           \    /         |
           Device         |               the two programs on one chip
           /    \         |
  DeviceAlone   FirmwareUpdate            any host | the host tool
       |          |     \
 DeviceProofs     |    SafeUpdate (abstract)
     +------------+------------+
  UpdateInvariant       SuccessInvariant
        |                   |     \
   UpdateProofs             |   QuietInvariant (extends both)
        |                   |        |
        +--- SuccessProofs -+        |    success is true, wear, types
              /        \             |
     PromiseProofs    QuietProofs ---+    implements SafeUpdate | does not fail

 UserButton  SteadySignal   UsbDescriptors      Stroke
      \      (abstract)           |               |
       \        /         ControlRequests       TxBolt
        \      /         /               \       /
         Keyboard -------                 SerialPort
            |
      KeyboardProofs               SerialInvariant
                                         |
 SdCard (the card and the wire)    SerialProofs
    |
  Sdio
    |
 SdioInvariant
    |
 SdioProofs
```

* **`ProgramFlash`** has no state. A word is a number or the CRC of some words; the
  CRC is idealised (no collisions), except that the CRC of *no* words is
  `0xFFFFFFFF`, the value `crc_reset` leaves, which is also an erased word. That
  exception matters: see `bad_phantom`. `FirmwareCheck` returns the set of outcomes
  of `firmware_is_valid`; "fault" is among them when the length it reads from
  flash leads the CRC out of the area. `Programmed` is what flash cells do. Addresses in
  requests are added to the beginning of the area in 32 bits (`Address`, `Word32`), as
  the bounds of `protocol.c:53` and `protocol.c:149` see them.
* **`UsbPipe`** keeps `usb` (configured), `outEp` and `inEp`, each a set of at most
  one packet. A reply written while the previous one waits is dropped, as
  `usbd_ep_write_packet` does and its callers ignore. `Disruptions` names what may
  go wrong in a run.
* **`Chip`** keeps what outlives a handler: `phase` (boot, bootloader, erasing,
  programming, firmware, resetting, fault, damaged), `flash`, `unlocked`, `bkp` (the flag),
  `dbp` (the backup domain may be written), and for a long-running handler its
  request and loop index. `Restart` is what every reset does. Here are also the
  reset request, which both programs have, and power, bus and clock.
* **`Bootloader`**: `BootHeldByButton`, `BootByFlag`, `BootByContents` are
  `should_run_firmware`; one operator per request of `packet_handler`.
  `ErasePageStep` and `ProgramWordStep` are one turn of the loops at
  `protocol.c:37` and `protocol.c:136`; `EraseDone`/`ProgramDone` are what follows
  the loops. All other handlers are one step, since they run in the interrupt. A word is
  refused, stored in the area (`WordInArea`), or, when its address wraps, written in front
  of it (`WordInFront`), where there is no memory or the bootloader itself: the processor
  faults, or is "damaged". `HandleVerify` faults on a count that wraps.
* **`Firmware`**: the raw HID handler of the firmware.
* **`Device`** is the disjunction of these, and the device's properties.
* **`DeviceAlone`** adds a host that sends any of `Requests` whenever the endpoint is
  free and collects replies when it likes: nothing is assumed of the order of
  requests.
* **`HostTool`** is `application/main.cpp`: `hpc` is where it stands (idle, connect,
  send, recv, sleep), `step` which exchange it is in. `EnterMode`, `ModeKnown`,
  `RetryOrGiveUp` and `CloseAndSleep` are `enter_device_mode` with its five attempts;
  `Request` and `ReplyOk` are the sequence of exchanges of `flash_program`;
  `ReceiveFails` is a read that fails or times out. The handle is `null`, `live`,
  `stale` (its device left the bus) or `closed` (closed, pointer kept).
  `CollectReport` and `DropReport` are the host's operating system.
* **`FirmwareUpdate`** composes device and tool. They share the endpoints; the tool
  notices a device that leaves the bus by its handle only.
* **`SafeUpdate`** is the abstract specification: what is stored, what runs, what the
  user was told. `KeepsThePromise` says that `FirmwareUpdate` implements it
  under the mapping `Promise`. A firmware that runs out of an area that holds no program
  is mapped to a program of its own, "incomplete", which `SafeUpdate` never starts
  (`RunningProgram`).
* **`DeviceProofs`** has the theorems about the device alone. **`UpdateInvariant`**,
  **`SuccessInvariant`**, **`QuietInvariant`**, **`SdioInvariant`** and **`SerialInvariant`**
  have the inductive invariants, **`UpdateProofs`**, **`SuccessProofs`**, **`PromiseProofs`**,
  **`QuietProofs`**, **`SdioProofs`** and **`SerialProofs`** the theorems that rest on them
  (section 4).
* **`UserButton`** is `is_user_button_pressed`: `ReportsPress` and `ReportsRelease` are the
  branches that return true and false. **`SteadySignal`** is the abstract
  specification of debouncing: a signal that keeps its value for `Ticks` polls after
  it has turned.
* **`UsbDescriptors`** has the descriptors of both programs, reduced to what has to agree:
  numbers of interfaces, sizes of endpoints as described and as set up, bits of a report,
  and lengths, which add up to what the buffer for control requests has to hold.
  **`ControlRequests`** has the handlers of requests to interfaces, one operator each
  (`RawHidAnswer`, `CdcAnswer`, `KeyboardAnswer`, `BootloaderAnswer`), chosen by
  `InterfaceAnswer`. They are used where the host's drivers ask: `Enumerate` in `Chip`,
  `BindDriver` and `ControlRequest` in `Keyboard`, `OpenPort` in `SerialPort`.
* **`Keyboard`** is the firmware's main loop (`mpc`: poll, send, write), the USB interrupt
  that comes between its steps (`Configure`, and `ControlRequest` for any request to any
  interface), the user (`MoveButton`) and the host (`BindDriver`, `Collect`, `BusReset`).
  `belief` is what the host has set or was told of protocol and idle rate since the last
  reset of the bus. `nkro`, `boot`, `dirty`,
  `protocol`, `idle` and `leds` are the variables of `firmware/usb.c`. A report is its
  bytes and nothing else: the host reads them by the protocol that it has set, or was told
  of, at that moment (`HostProtocols`, `Read`), in the report protocol by the usages that
  the report descriptor gives the bits, so that the place of a key and the descriptor are
  checked against each other. A report whose length is not that of the protocol is read
  all the same or dropped (`Takes`). **`KeyboardProofs`** has its
  theorems. It shares no state with the update path but for the USB configuration, so it
  is a specification of its own.
* **`SdCard`** is the card and the wire, which are not in `src/`: `Reactions` is what a
  card does with a command in its mode (from the SD specification, as far as `sdio.c`
  depends on it, with the echo of CMD8 that may come back wrong), `Exchange` what the driver may see of it: the answer, nothing, because
  the command or the response was lost, or a response with a wrong checksum. Cards are
  put in and taken out at any time; `calm` ends all that.
* **`Sdio`** is the driver: `call.pc` is where `sdio_card_init` or a transfer is, and a
  step is one command with its result. `Repeats` and `GivesUp` are the loop of
  `send_command_retry`; `AnnouncesOcr`/`AsksOcr` and `AnnouncesWidth`/`SetsWidth` are that of
  `send_application_command`, where ACMD41 succeeds by a failed checksum. The main loop's
  search for cards is `StartInit` and `NoticeRemoval`; as nothing calls the transfers, a
  caller does so at any time. The description of a card is the set of its bits that are
  one; `SizeOf` takes the fields out of the response registers as `sdio.c:273-284` does, and
  `BlocksOf` by the numbers that the specification gives them. `Address` is a product in
  32 bits. `misread` is a history variable. It shares no state with the
  other components.
* **`Stroke`** is a stroke as the set of its keys and `string_to_stroke`; **`TxBolt`** is
  `make_packet`, where a byte is its set and the bits below it, and what the comment in
  `txbolt.c` says of a receiver (`EndsBefore`, `StrokeOf`).
* **`SerialPort`** is the endpoint with its two uses. `SendStroke` is the main loop's body,
  a refused packet is lost; `Call` and `PrintGoesOn` are `print` and its callers, a turn of the
  loop in which the endpoint refuses is no step. An endpoint that is not set up may take the
  text, which its set-up then empties (`PrintGetsLost`). The host's driver opens the port and reads
  packets, the listener hears one byte after the other (`Hear`). `owed` is a history
  variable: what was sent and not received. It shares only the endpoint's rules and the
  requests with the rest of the firmware, so it is a specification of its own.
* **`MCDeviceAlone`**, **`MCFirmwareUpdate`**, **`MCKeyboard`**, **`MCSerialPort`**, **`MCSdio`** give the constants for TLC.

A definition whose comment begins with "Mutant" is a plausible bug in the
definition that follows it. It is used by no specification; each property is
checked to be violated when one of them takes the place of the original.

## 3. The runs

| Run | Shows | Disruptions |
|---|---|---|
| `device` | the device alone against any host: `TypeOK`, `FirmwareRunsWithFlagClear`, `WordsSoFarStored`, `StopsOnlyOnWraps`, `RequestsAreTaken`, `ResetReachesBootloader` | power, bus, wear, rollover, lateAck |
| `update_quiet` | an update that nothing disrupts does not fail (`NoSpuriousFailure`, with its inductive invariant `QuietInv`), leaves the bootloader (`LeavesTheBootloader`) and the new firmware runs (`SuccessLeadsToFirmware`), also right after other commands | none |
| `update_interrupted` | `RunsOnlyCompleteFirmware`, `ProgramsOnlyErasedWords`, the inductive invariant `UpdateInv`, the refinement `KeepsThePromise`, and every command ends (`CommandsEnd`) | power, bus, kill, timeout, lateAck, slow |
| `update_wear` | with cells and pages that fail to change, `RunsWholeFirmware` and `SuccessMeansInstalled`, with the inductive invariants `WornInv` and `SuccessInv` | wear, kill, power, timeout |
| `keyboard` | the keyboard: `WholeChords`, `HostKnowsSettings`, the refinement `PressesAreSteady`, `NoStuckKeys`, `ChangesArrive` | bus |
| `serial` | the serial port: `StrokesArriveWhole`, `NothingHeldBack`, `TextArrivesInOrder`, the inductive invariant `SerialInv`, `PrintEnds` | bus, full endpoint |
| `sdcard` | the SD card's driver: `KnowsTheCard`, `MovesTheRightBlock`, the inductive invariant `SdioInv`, `CallsEnd`, `CardGetsInitialized` | noise, exchanged cards, rollover |
| `bad_flag`, `bad_fault`, `bad_limit`, `bad_phantom`, `bad_button` | a statement of the repository that the code does not keep, see section 6 | as needed |

The disruptions: *power* (fails and returns, between any two pages or words), *bus*
(the host resets the bus, also in the middle of a handler), *wear* (an erase or a
word has no effect), *rollover* (`clock.c:49-53` resets the chip), *lateAck* (the
delay loop at `usb.c:320` is too short for the host to read the reply, or the read
fails although a report waits), *slow* (enumeration takes longer than the tool's
sleep), *timeout* (a reply takes more than 30 seconds), *kill* (the user interrupts
the tool).

### Bounds, and why they are enough

* The area has two pages of three or four words (three pages in `bad_phantom`).
  Two pages tell "the first page is erased" from "the area is erased", which is
  the distinction on which an interrupted erase depends.
* A flash request holds two or three words, so an image (program and three words of
  trailer) needs two requests, the last of them shorter; each request can be cut at
  every word. In `update_wear` it holds five, so that one of the two images needs one
  request and the other two: only then can words of the longer image stay behind the
  shorter one, and only then do old replies last long enough to hide it.
* Two programs of different contents (`Normal`, `Worn`), so that mixtures of two are
  possible; one contains a zero, so that the search for the trailer finds one
  inside a program. `Mixed` adds a program that is too long.
* At first the area is blank or holds a complete program. Everything else arises in
  the run: commands follow each other without a bound.
* The tool has its five attempts in `update_quiet`; three in `update_interrupted`,
  which has the first, the repeated and the last one; two in `update_wear`, the fewest
  that lead from a running firmware to an update. In `update_interrupted` the button may
  be down at any boot.
* In `device` the fifteen requests cover every operation, a write of a program, one
  over written cells, one that ends behind the area, one with too many words, a
  verify at and behind the limit, and a write and a verify whose numbers wrap (words have
  8 bits there, so that the write begins in front of the area and the sum of the verify is
  its beginning). That run does not check for deadlock: a fault or a damaged bootloader,
  at a boot or by a number that wraps, may leave a device that does nothing more until
  the power fails, or for ever. A host that writes a program with its trailer and
  boots it is in the runs with the tool.
* In `keyboard` the eight keys are those of `main.c` with their codes; the debouncer
  counts to three instead of 20000, which has all its branches and boundaries. The
  requests are those of the HID class, of serial ports and of the standard, each to every
  interface, so that those with the same number meet every handler.
* In `serial` the strokes are all of seven keys from the four sets of a packet, as far as
  they can be written without a doubt, the stroke of `main.c`, and three with the number
  key. The driver reads the next packet when the listener has heard the one before; so up
  to three strokes are under way. Words go up to 2147483647, the largest number TLC has.
* In `sdcard` there are an old card, one of high capacity and one with an unknown
  description; loops go round twice instead of five times, which has the first, the
  repeated and the last turn; cards choose among two addresses, and the address zero
  that the driver has to refuse. Addresses of blocks have 30 bits, as TLC's integers have
  32: the blocks are 3, which all cards have, and 3 + 2^21, which only the card of high
  capacity has and whose first byte wraps to that of block 3 on the others. The fields of
  the descriptions have ones in both registers that they are spread over. The counter goes to 20 and a deadline is four ticks
  away: with at most one tick per command an initialisation needs twelve, so a failed
  one, a whole one and the wrap all fit in.

There is no bound on the length of behaviours: all variables are finite by nature
(the number of reports kept by the operating system is at most the number of
exchanges between two connections).

### Fairness

The processor runs when it has work (`DeviceProgress`: a handler's next step, a
waiting request, the end of the delay loop, the boot, and the enumeration that
the host carries out when a device appears). The tool runs when it can, and the
operating system polls the IN endpoint at the interval that the descriptors ask for.
Weak fairness of each is justified as each stays enabled until it is taken or
something else resets the situation. Nothing is assumed to happen that
`Disruptions` allows, nor that a user gives a command.

In `Keyboard` the main loop goes round, and the host configures the device and polls.
Two properties have a premise, `HostKeepsUp`: the host uses the report protocol and
collects each report before the next one is written. The code does not see to the
latter. The debouncer keeps changes 20000 turns of the main loop apart, some
milliseconds, and the descriptor asks for a poll every 10 ms (`firmware/usb.c:522`), so
it holds for a host that polls faster than it has to. What happens when it does not
hold is in section 6; the model has those behaviours as well, and the other
properties are checked on all of them.

In `SerialPort` a call of `print` that can go on does (it is the only thing the processor
does then), the host configures the device if it can, and somebody opens the port and reads
it. `PrintEnds` has the premise that the bus is reset only finitely often: with bus resets
for ever, and none long enough away from the next, `print` may never meet an empty
endpoint. That the device comes to be configured is not a premise; with a control buffer
shorter than the configuration it does not, and TLC refutes the property. That nobody
sends strokes or calls `print` is allowed.

In `Sdio` the processor and the clock go on; that the counter rolls over is not assumed,
so that no property holds only because the reset saves it. A millisecond is longer than
a command (some 0.25 ms), so the clock ticks at most once per step. `CardGetsInitialized`
asks for calm and for a counter at its beginning, as the driver cannot initialise a card
in the last second before the rollover.

## 4. What is proved

Each theorem holds for every value of the constants: every layout of the area, packet
size, set of programs and requests, chord, number of ticks and retries, set of cards,
strokes and calls, and any number of interruptions. The inductive invariants are checked
by TLC as well, each on the run of its module.

| Theorem | States | Assumes, beyond the named assumptions of the constants |
|---|---|---|
| `DeviceProofs!TypeSafe`, `AcknowledgedWordsAreStored`, `FlagKeepsFirmwareOut`, `RequestsInRangeAreSafe` | `TypeOK`, `WordsSoFarStored`, `FirmwareRunsWithFlagClear`, `StopsOnlyOnWraps` of the device alone, wear included | nothing |
| `UpdateProofs!UpdateIsOrdered`, `FirmwareIsComplete`, `WordsGoIntoErasedCells` | `UpdateInv`, `RunsOnlyCompleteFirmware`, `ProgramsOnlyErasedWords` | no wear, `EndWord # Zero`, `NoPhantoms` |
| `PromiseProofs!NoMixture`, `PromiseIsKept` | all words belong to one image; the refinement `KeepsThePromise` | the same |
| `SuccessProofs!OldRepliesAreUsedUp`, `SuccessIsTrue` | `SuccessInv`, `SuccessMeansInstalled`, wear included | nothing |
| `SuccessProofs!TypesAreKept` | `TypeOK` of device, wire and tool together | nothing |
| `SuccessProofs!WordsKeepTheirPlace`, `WornFirmwareIsWhole` | `WornInv`, `RunsWholeFirmware`, wear included | `EndWord # Zero` |
| `QuietProofs!ToolAndDeviceInStep`, `QuietUpdatesDoNotFail` | `QuietInv`, `NoSpuriousFailure` | `Undisturbed` |
| `QuietProofs!TheBootloaderIsLeft` | `LeavesTheBootloader` | `Undisturbed`, `Unheld` |
| `KeyboardProofs!HostSeesWholeChords`, `HostIsToldTheTruth`, `ButtonIsSteady`, `KeyboardTypes` | `WholeChords`, `HostKnowsSettings`, the refinement `PressesAreSteady`, `TypeOK` | nothing |
| `SdioProofs!DriverAndCardAgree` | `SdioInv` | nothing |
| `SdioProofs!TheRightBlockIsMoved` | `MovesTheRightBlock` | `BytesFit` |
| `SdioProofs!TheCardIsKnown`, `TypesAreRight` | `KnowsTheCard`, `TypeOK` | `SizesFit` |
| `SerialProofs!OwedIsUnderWay`, `StrokesAreNotMixed`, `NothingStaysBehind`, `TextsAreInOrder`, `PacketsAreShort` | `SerialInv`, `StrokesArriveWhole`, `NothingHeldBack`, `TextArrivesInOrder`, `TypeOK` | `Readable` |

What is assumed, and why:

* *No wear* is `"wear" \notin Disruptions`. With wear a page can keep the words of an older
  image, and what holds then is weaker (`RunsWholeFirmware`).
* `EndWord # Zero`: the word behind the area, which the search for the trailer reads first.
* `NoPhantoms`: no program contains a trailer of its own; without it the claim is false
  (run `bad_phantom`).
* `Undisturbed`: nothing disrupts (`Disruptions = {}`); the tool may try three times (the
  code has five); `EndWord # Zero`; and the images that the tool accepts leave the last
  word of the area free, which the bootloader refuses to write (run `bad_limit`). With two
  attempts the claim is false, TLC finds: one can go to a device that is still in its reset,
  and one is needed to reset the firmware.
* `Unheld`: nobody holds the button, and the reset vector of each file lies in the area; a
  file of which that is not true is flashed, reported as installed and never run.
* `SizesFit`: the sizes that cards describe can be held in 32 bits. It is false for one
  description, the 4 GB of a CSD of version 1 (section 6), and then so is the claim.
* `BytesFit`: a block that is on a card that counts bytes has an address of 32 bits. Such
  cards have at most 2^22 blocks by their specification; `address *= 512` (`sdio.c:326`,
  `sdio.c:381`) wraps for a block from 2^23, which is then beyond the card's end but
  reaches another block on it. `MovesTheRightBlock` says nothing of blocks that are not on
  the card.
* `Readable`: `string_to_stroke` reads each of `Strokes` from its letters, each has only
  keys of `make_packet`'s sets, and a text of a call reads as what it stands for. It
  goes through recursive definitions, so TLC evaluates it for the strokes and calls of the
  run (`MCSerialPort`); it is false for a string that looks like a printed number, and for
  strokes whose letters `string_to_stroke` reads differently (section 6).
* The assumptions that the modules make of their constants: the tool's packets fit the
  device's, the area is blank or holds a program at first, the fields of requests have their
  widths, and so on.

### No mixture runs (`UpdateInvariant`)

The claim is not inductive: that the flash holds no mixture depends
on the requests under way, which depend on what the tool did before. Nor can it rest
on what the tool believes, as it may take a late reply for the answer to its
request. What saves the device is order. There is one endpoint, so requests are
carried out in the order they were sent; they are lost only together with the
device's session; and a tool whose device left the bus cannot write any more. So
`UpdateInv` says: the flash is a beginning of one image with nothing behind it, or
its first page is erased (`FlashIsStage`); the request that is being carried out,
and the one that waits, continue that image (`Programming`, `InOrder`); and the next
request of a tool with a live handle will continue it (`ToolInOrder`, by way of
`WillHold`, which says what the flash will hold when the device has finished). A
beginning of an image passes the check at boot only when it is the whole image:
`PrefixIsInvalid` and its neighbours, by what the search for a zero can
find. An erased first page has no reset vector. The proofs have a lemma per action
of the device and of the tool.

### The promise is kept (`PromiseProofs`)

That an erased page takes a program away and never uncovers another needs more than the
stage of the flash, as the pages are erased one by one: `OneImage` says that each word is
erased or comes from one image, and is inductive together with `UpdateInv`. A word that is
programmed completes an image or leaves none. What was reported is what is stored because
of `SuccessInv`, which gives `Tell`. Every step of the device and of the tool is then a
step of `SafeUpdate` or a stutter; the lemmas go through the actions that change the flash,
the phase or the report.

### Success is the truth (`SuccessInvariant`)

Here order alone does not help, since wear is allowed; what vouches for the area is the CRC
in the reply to the verify request, and replies carry no number. At most three replies can
be left over when the tool connects: one in the endpoint, one that a running handler owes,
one for the request that waits. They come first. Until it looks at a CRC the tool has taken a
reply for the question which program runs, one for the erase request and one for each flash
request: three or more. So `LateReplies` counts how far away an old verdict may be (within
three, two, one, none), and `VerdictIsTrue` says that the CRC that the tool compares was
computed after the last change. That an image takes at least one flash request is why the
numbers match: the tool's own retries close the handle, which starts the count anew.

### The firmware is whole although cells are worn (`UpdateInvariant`, `SuccessProofs`)

When an erase fails and the tool takes an old reply for the news that it succeeded, words of
two images do get mixed, and `UpdateInv` breaks. What no failure can do is to move a word:
`WordsInPlace` says that each word is erased or stands where one of the accepted images has
it, and `RequestsInPlace` that the requests under way keep that. It rests on the types and on
`SuccessInv`, which say that the tool's position lies within an accepted image. For a check
that passes there are then two cases. Either the length it found is zero and the CRC an
erased word (`TrailerOfNothing`). Or the word taken for the CRC is one, and an image has a CRC
in one place only (`OnlyOneCrc`); so it is the CRC of the program whose length and zero stand
around it, and since CRCs do not collide the words in front are that program's
(`ValidBeginsWithAProgram`). Nothing is assumed of the programs. The first case does occur:
without it TLC refutes `RunsWholeFirmware` on the run `update_wear` (section 6).

### An undisturbed update does not fail (`QuietInvariant`)

`QuietInv` says that tool and device go in step. While the tool waits, its request or the
reply to it is in exactly one place: in the endpoint (`Waiting`), with a handler (`Working`),
in the other endpoint (`Answered`), or with the operating system (`Collected`); and in each
place it is known what the flash holds, so that the next exchange finds what it needs
(`Ready`, `Done`). While it does not wait nothing is under way (`Pausing`, `Sending`). One thing
can be met unprepared: a command that comes at once after another finds the device on its
way through the reset, opens it and loses it (`Missed`). That takes the first attempt; the
sleep behind it is long enough for the device to return, as nothing is "slow". The second
attempt may meet the firmware and reset it; from then on the flag or the bootloader itself is
there, so the third attempt is the last one needed (`InTime`). That the bootloader comes up
at all needs `Bootable`: at every boot the area is blank or holds a program, and neither
leads to a fault. The erase loop's last turn and the last, shorter packet are where the steps
of the proof need arithmetic.

`LeavesTheBootloader` needs one conjunct more (`Leaving`): from the moment at which the device
takes the last reset request, its flag is clear, although an earlier request of the same
command set it. That it then passes the check at boot is `TrailerIsRight`: the search finds
the end of the trailer and nothing else in a whole buffer, and the two words before it match.
Together with `SuccessInv` it is the safety part of `SuccessLeadsToFirmware`.

### Types of the update path (`SuccessProofs`)

Two parts need an argument: `attempts` stays a natural number because a command that goes
on has an attempt left (`AttemptLeft`), and `sent` stays within the image because the last
packet is cut short.

### The keyboard (`KeyboardProofs`)

`ButtonIsSteady` maps the counter to `Age`: the counter itself in its first half, what it
exceeds the first half by in its second. The invariant is that the button counts as
pressed exactly in the first half (`ButtonInv`). `HostIsToldTheTruth` rests on `Meaning`
(what a request means to the host and what handler takes it are the same) and on the
answers of the handlers (`KeyboardAnswers`), and assumes that a host that chooses a protocol
names 0 or 1. In `KeyboardTypes` the hard part is that the boot report's codes are bytes:
the largest of a set of codes (`Max` is defined by CHOOSE) exists only because the set is
finite and not empty. As induction is out of reach, `MaxOfBytes` is obtained by doubling an
interval eight times (`MaxOfTwice`).

### The SD card (`SdioInvariant`)

`KnowsTheCard` speaks of the end of an initialisation, during which responses are lost and
spoilt, commands repeated, and cards exchanged. The invariant speaks of the cards that are
*awake*, not idle: a new card is idle, and only CMD0 and ACMD41 move it on, so no
exchanged card gets among them unnoticed. `Learned` has what the driver knows of an awake
card after ACMD41, CMD3 and CMD9: its addressing (unless the response was misread), its
address, which is not zero, its size. `Ready` is what is left of it while the main loop
takes the card for initialised, also after the card has gone. That the driver refuses the
address zero matters: a command to address zero would be taken by a card that has not got
an address yet, and the mutant that asks it breaks the invariant.

### The serial port (`SerialInvariant`)

`owed` is what is under way: the stroke whose packet the listener has begun to hear, the one
in the endpoint, and the texts that `print` has still to write, in this order and nothing
else. `part \o line` is the whole packet of the first. That a stroke ends at its zero and
nowhere else (`ZeroEndsThePacket`) follows from the shape of a packet: no byte before the
zero is empty and the sets go up (`PagesGoUp`), so that no byte looks like the beginning of
another stroke. `KeysAreHeard` is what a listener makes of the bytes: each key comes back,
but the number key as the final T, whose bit it has (section 6).

## 5. What is only model-checked

* Liveness (`RequestsAreTaken`, `ResetReachesBootloader`, `SuccessLeadsToFirmware`,
  `CommandsEnd`, `NoStuckKeys`, `ChangesArrive`, `CallsEnd`, `CardGetsInitialized`,
  `PrintEnds`): out of the prover's reach.
  The safety part of `SuccessLeadsToFirmware` is proved (`LeavesTheBootloader`).
* `Readable`, that letters and digits come back as they were written: folds over sequences.

## 6. What disagrees with the code

Runs (each is expected to end in a counterexample):

* `bad_fault`: `firmware_is_valid` computes a CRC over a length that it does not
  compare with anything (`bootloader/main.c:83`). An update cut off behind a zero of
  the vector table can leave a length that runs out of flash; the bus error comes
  before USB is set up, at every boot. Only the button gets the device back.
  `bootloader/main.c:24` states the goal "Impossible to brick the device with a
  firmware update."
* `bad_phantom`: a part of a program that ends in 0, 0xFFFFFFFF, 0 passes for a
  program.
* `bad_limit`: `protocol.c:53` refuses the last word of the area, so the largest
  programs that the tool accepts never flash.
* `bad_flag`: the write that clears the flag at boot (`bootloader/main.c:101`) is
  ignored, as the backup domain is protected after a reset.
* `bad_button`: `is_user_button_pressed` has no branch for a button that is down when
  the second half of the counter ends (`user_button.c:63`). A button pressed again
  within that time and held is reported up until it is let go.

Met while modelling, without a run:

* The bounds of the bootloader wrap at 32 bits. A verify request for 0x40000000 words, or
  some fewer, passes `protocol.c:149`; the CRC runs off the end of the flash inside the USB
  interrupt, and no later request is taken. A flash request whose address wraps when
  `PROGRAM_AREA_BEGIN` is added passes `protocol.c:53` and writes in front of the area, where
  the bootloader is. The tool sends neither; `StopsOnlyOnWraps` says that nothing else
  stops the device, and `RequestsAreTaken` except for this that requests are taken.
* A boot report that is still in the endpoint when the host sets the report protocol is
  read by the report descriptor, unless the host looks at its length: without
  `8 * seen.bytes = KeyboardReportBits`, TLC refutes `WholeChords` by a change of
  the protocol between `firmware/usb.c:993` and the host's poll. The same happens after a bus reset
  with the protocol that survives it.
* The address of a block is a product in 32 bits (`sdio.c:326`, `sdio.c:381`), and nothing
  compares the block with `size`: a block beyond the end of a card that counts bytes may
  wrap to one on it.
* With wear, words of an older image can stay behind a program that runs, and
  `RunsOnlyCompleteFirmware` is violated: a page does not erase, the tool takes an old reply
  for the answer that it did, and is stopped before it compares the CRC of the whole area.
  `firmware_is_valid` computes its CRC over the program alone (`bootloader/main.c:83`). In
  the same way the zeros of two images can make up a trailer of no words around a word that
  stayed erased. TLC finds both on `update_wear`.

* The erase loop goes one page too far (`protocol.c:37`, `EraseMore`), and the search for the
  trailer starts at `PROGRAM_AREA_END` (`bootloader/main.c:70`), of which
  `memorymap.h:27` says that it is not valid to read or to write.
* After `hid_close` the tool calls `connect` with the old pointer, and `connect` takes a
  pointer that is not null for a connection (`main.cpp:161`): when no device is found,
  the tool writes to a closed handle (`SendFails`, `UseAfterClose`).
* `usb_send_keys_if_changed` clears its flag before the endpoint may refuse the report
  (`firmware/usb.c:988`), so a key-up that meets a full endpoint is never sent and the
  key stays down for the host until the next change: without the premise `HostKeepsUp`,
  `NoStuckKeys` is violated.
* `nkeys` is never counted up (`firmware/usb.c:1005`), so a boot report shows one key and
  never the "Error rollover" of `firmware/usb.c:1007-1008`.
* The boot report's codes are those of other keys (bits counted from the top, bytes
  from one, `firmware/usb.c:1003-1005`), and released keys stay in it.
* Modifiers are looked for at codes 240 to 247 (`firmware/usb.c:964`); `keyboard.h:251` has
  them at 224. In the report protocol the host finds them in the key bitmap; the boot
  report loses them.
* `main.cpp:264` asks `feof` after reading at most the maximum size; for a file of
  exactly that size end-of-file is not yet set and the file is refused (`MayBeRefused`).
* `sdio_card_init` returns true when there is no card any more (`sdio.c:200`), without
  power on the interface; the main loop then takes the next card for initialised.
* A deadline in the last second of the counter is in the past (`sdio.c:228`, `sdio.c:310`).
* When CMD55 fails in the last turn with a wrong checksum, `send_application_command`
  returns what ACMD41 returns for success (`sdio.c:181-189`), and bits 31 and 30 of a spoilt
  response decide on the addressing: without `~misread`, `KnowsTheCard` is violated.
* `sdio.c:37` names 0x100000000 as the largest size, which `uint32_t size` cannot hold; a
  card of 4 GB with a CSD of version 1 comes out as zero blocks (`sdio.c:282`).
* `main.cpp:363` says of a failed last exchange that it is no failure when the reset
  took effect; the code returns failure.

* The number key is not shifted to its bit (`txbolt.c:94`; the comment at `txbolt.c:33-34`
  has it on the fifth), and comes out as the final T. `StrokesArriveWhole` leaves these two
  keys out of strokes with the number key; without that TLC refutes it.
* `string_to_stroke` skips the dash, so that a final S, T, P or R without one of A, O, *, E,
  U before it becomes the initial one.
* `main.c:105` calls `serial_usb_send_data`, which does not exist (`usb_send_serial_data`
  does); the part is under `#if 0`. `print` of an empty string never ends, as a write of no
  bytes returns zero.
* The firmware's handlers refuse what they do not know instead of passing it on
  (`firmware/usb.c:713`, `firmware/usb.c:741`, `firmware/usb.c:828`), so standard requests
  to three of the interfaces (GET_STATUS, SET_INTERFACE) are stalled and never reach
  libopencm3. The bootloader's handler does so for all standard questions, among them that
  for the HID descriptor, which the firmware answers.
* `firmware/usb.c:874-878` says that all setup happens in `set_config_handler`, as it is
  called again after a reset by the host; `keyboard_protocol` and `keyboard_idle` keep what
  the host had set before. GET_REPORT answers with the boot report in both protocols.
* The interrupt endpoint of the serial port is set up with 8 bytes (`firmware/usb.c:903`) and
  described with 16; nothing is sent on it. `sizeof(usb_strings)` is passed as the number
  of strings (`firmware/usb.c:932`, `bootloader/usb.c:369`).

## 7. Abstractions

* Power fails between words and pages, never inside one; no half-programmed words.
* Addresses in requests are multiples of four. What a bootloader does that has overwritten
  itself is not modelled: it is "damaged" for ever, and only the bus changes. Writes through the alias of the flash at address 0 count as writes in front of
  the area.
* `connect` enumerates and opens in one step; a device that disappears in between is
  covered by one that disappears right after.
* The delay before a reset is not counted; "lateAck" says whether it was long enough.
* The file is given as words; the tool's padding is part of `Len(prog)`.
* The reply's second byte repeats the request and is read by nobody; it is left out.
* The eight key changes of one turn of the main loop are one step: only the main loop
  touches the keys. So is the conversion to a boot report, which GET_REPORT may see half
  done; its answer is therefore not told apart by contents.
* A control request is answered in one step, which is what the host's side of the control
  endpoint amounts to. Descriptors of the device and strings are libopencm3's.
* Letters have no case in `Stroke`; the setters of `stroke.h` and `usb_keyboard_keys_up`, which
  nothing calls, are left out. Texts of more than 64 bytes are excluded
  (`SerialAssumption`): what becomes of them is up to the library's driver.
* A reset of the device starts a new behaviour of `Keyboard`.
* A report or a stroke written before the device is configured is lost, as setting up the
  endpoint empties it. The idle rate is stored and, as in the code, has no effect.
* The CRC is a value of its own, see `ProgramFlash`. The first byte of a CRC may be
  anything, which `SaysBootloader` allows for.

* In `Sdio` a card that moves no data for a failed call is back where it was at once; the
  DMA controller and late blocks are left out. Bits 31 and 30 of ACMD41's response, which
  no checksum protects, are not spoilt. A command ends as answered, as timed out or with a
  wrong checksum; `SDIO_EUNKNOWN` would need a status that the hardware does not leave.
  Sizes that wrap are in `SizeOf`, but not among the cards of the run.

## 8. Plan

1. (done) `ProgramFlash`, `UsbPipe`, `Chip`, `Bootloader`, `Firmware`, `Device`,
   `DeviceAlone` and its proofs; `HostTool`, `FirmwareUpdate`, `SafeUpdate`,
   `UpdateInvariant` and its proofs.
2. (done) `Keyboard` with `UserButton`: the main loop, the USB interrupt and the host's
   polling; `SteadySignal` and the proofs.
3. (done) `Sdio` with `SdCard`.
4. (done) `UsbDescriptors` and `ControlRequests`, with the host's drivers in `Chip` and
   `Keyboard`; `Stroke`, `TxBolt` and `SerialPort`; `HostKnowsSettings` and the types of
   `Keyboard` proved.
5. (done) Proofs about the update path (`SuccessProofs`, `PromiseProofs`), the
   SD card (`SdioProofs`) and the serial port (`SerialProofs`).
6. (done) `NoSpuriousFailure` and `LeavesTheBootloader` (`QuietInvariant`, `QuietProofs`), and what holds with wear
   (`WornInv`).
7. Late data and the DMA controller in `Sdio`, if the outcome can be told from the code.
