# SphereWare: a TLA+ model of the AlphaSphere firmware

SphereWare is the firmware of the AlphaSphere, a musical controller built
around an AT90USB AVR: 48 pressure pads, three buttons, two rotary encoders, an
RGB LED, a USB HID report to the host, and MIDI over USB and UART.  It has no
operating system.  Two threads of control share all of its state:

* **main** (`SphereWare.c` 221-587) visits the pads one after the other for
  ever, and calibrates them anew when the reset button is pressed;
* **the timer interrupt** (`SphereWare.c` 129-180), at about 1 kHz, decides
  about standby, takes a MIDI message in, sends half a HID report and takes a
  HID report in.  On top of it runs LUFA's USB interrupt (bus reset, resume).

Main protects some of what they share with `cli()`/`sei()` and some not, and
some functions it calls with interrupts off turn them on.  Most of what can go
wrong in this program, and cannot be tested on a desk, comes from there.

Paths below are relative to `src/SphereWare/` unless they say otherwise.

## Inventory

| Component | State | Operations | Hard about it | Correct when |
|---|---|---|---|---|
| Pad scanner, `SphereWare.c` 46-126, 221-428 | `init_val`, `init_val_se`, `velocity_sent`, `anti_sticky_applied`, `hysterisis_applied`, `sticky_count`, `being_played`, `pad_order`, `r2r_val`, `filtered_val` | visit of a pad (strike, pressure, release), `Calibrate`, `BubbleSort` | 16-bit read-modify-writes without `cli`, recalibration in the middle of a visit, four adjustments of one threshold on different paths | every threshold is the calibrated one plus the adjustments in force; no phantom strikes; the ladder belongs to the pad |
| Standby, `SphereWare.c` 128-172 | `thresholds_raised`, static `count` | raise all thresholds by 100 after 20000 idle ticks, lower them on the first touch | runs between any two instructions of main | standby ends when something is played and starts when nothing is |
| HID IN report, `GenericHID.c` 26-137, 249-266 | `hid_in_buffer`, `noOfMidiInMessages`, static `flip` | writers of pads, buttons, dials, messages; `GenericHID_Clear`; `GenericHID_Task` | two packets per report copied in different interrupts; clear on collect; re-enumeration | the host sees states the pads had; dials and messages arrive once |
| HID OUT report, `GenericHID.c` 74-94, 150-247 | selected endpoint, its bank, LED settings | `GenericHID_ProcessReport` | nested calls select another endpoint, turn interrupts on; the second packet may come late | reports processed whole, once and in order; the host is never blocked |
| MIDI, `MIDI.c` | `MIDI_Clock_Timing_Count`, UART, endpoints | send to USB and UART, receive from USB, clock and CC messages | busy waits in the interrupt | messages forwarded in order; one clock in charge |
| LED clock, mode, colour, `SphereWare.c` 430-584, `LED.c` 169-305 | `LED_Mode`, `LED_Status`, `LED_Clock_Running`, `LED_Fade_Step`, colour tables | set by HID/MIDI in the interrupt, read by main | 8-bit fade step past its range, two clock sources | sum of channels at most 1023; between beats the LED only gets darker; it ends up as the settings say |
| LED driver, `LED.c` 50-167 | command globals, shift register | packet, latch | used from main and from the interrupt | what is latched is a colour somebody asked for |
| Buttons and encoders, `ButtonsAndDials.c` | static `buttons`, `dial_state`, `being_played[48..52]` | one read per multiplexer channel | debounce delays with interrupts off, history of pin states | one click per step; a press is read once; a held button is seen, a resting encoder is not being played |
| ADC, MUX, R2R | hardware registers | one reading, one selection | `R2R_Write` rewrites all of `PORTF` with interrupts on | - |
| USB set-up, `SphereWare.c` 590-652, `Descriptors.c` | endpoint configuration | SetupHardware, USB events | - | - |
| Bootloader, `src/Bootloader/BootloaderHID.c` | flash, `RunBootloader`, `MagicBootKey`, page buffer | SetReport (page or start), jump check | power loss, host that goes away, waits without a timeout | only pages that are asked for change; the start command is obeyed |
| Host loader, `src/Bootloader/HostLoaderApp/` | image, block loop | Intel-hex reader, open, wait, reboot, programming | file read twice, two ways to address, transfers that fail | the image is what the file says; success is reported only of what is in flash |
| LUFA, `src/LUFA` | USB device state | vendored | - | - |
| `BootJump.c`, `HidInReports.c` | - | dead code | - | - |

How they interact: main calls the HID IN writers, the buttons and the LED
driver directly; the interrupt calls MIDI, GenericHID and LUFA; MIDI queues into
the HID IN report and changes LED state; a HID OUT report calls MIDI and LED
functions.  `being_played[]` (written by scanner and buttons, read by the
interrupt) and `init_val[]` (written by both) couple scanner and standby.  The
bootloader shares nothing with the firmware but the flash and the reset.

The hazards are listed with their lines in `PROJECT.json`.

## Modules

| Module | What it is |
|---|---|
| `PadScan` | scanner, calibration and standby interrupt |
| `PadScan_proofs` | its theorems |
| `MCPadScan` | values of its constants for TLC |
| `HidReport` | abstract report: what writers and host are promised |
| `HidIn` | the report as the code keeps it, with transfers, re-enumeration and host |
| `HidIn_proofs` | its theorems |
| `MCHidIn` | values of its constants for TLC |
| `LedClock` | LED mode and status, the two clocks and main's fade |
| `LedClock_proofs` | its theorems |
| `MCLedClock` | values of its constants for TLC |
| `LedColour` | the colour tables and the colour of main's round |
| `LedColour_proofs` | its theorems |
| `MCLedColour` | values of its constants for TLC |
| `LedDriver` | the words to the LED bit by bit, from main and from nested interrupts |
| `LedDriver_proofs` | its theorems |
| `MCLedDriver` | values of its constants for TLC |
| `HidOut` | the OUT report, the MIDI messages in it, the endpoint they share, nested interrupts |
| `HidOut_proofs` | its theorems |
| `MCHidOut` | values of its constants for TLC |
| `Controls` | buttons and encoders, with contacts that bounce, and their bytes in the report |
| `Controls_proofs` | its theorems |
| `MCControls` | values of its constants for TLC |
| `IntelHex` | the host loader's reader of hex files |
| `Bootloader` | the bootloader and its control endpoint, with power and resets |
| `Programming` | both, and the loader's main program, the transfers and the user |
| `FlashUpdate` | abstract update of a memory, which `Programming` implements |
| `Programming_proofs` | the theorems about all four |
| `MCProgramming` | values of its constants for TLC |

Operators named `Mut_...` are mutated forms of the definition that follows them;
no specification uses them.  They serve to show that each property can fail.

### PadScan

The variables have the names of the C globals.  `pc` is where main is;
`slot` is the loop variable `i`, `pad` the local of that name, `cal` the loop
variable of `Calibrate`.  A step of main is a stretch of code that the interrupt
either cannot enter (`cli` .. `sei`) or cannot be told apart from running before
or after.  The accesses to `init_val[pad]` with interrupts on are what cannot be
merged: the comparison at 288 is `SampleLo` (first byte) and `SampleHi` (second
byte, and the decision), and the hysteresis at 317-320 and 366-369 is
`AdjLoadLo`, `AdjLoadHi`, `AdjStoreHi`, `AdjStoreLo` - the byte accesses that an
8-bit CPU makes.  `Hit`, `Press` and `Release` are the three branches;
`SampleSe` is the whole visit of a single-ended pad, whose threshold the
interrupt's shift does not reach.  `Top`, `EnterReCal`, `CalibratePad`,
`CalibrateSePad`, `CalibrateEnd`, `ReleaseReset` and `Controls` are the rest of
the visit.  `Tick` is one interrupt: `Idle`, `Raise`, `Lower` or `Played`.

Abstracted: the ADC gives any value of a set; the 64-step ladder search of
`Calibrate` ends with any value that stops it, or with none; the sort is any
permutation that orders `r2r_val` stably, which is exactly one; the pressure
filter is whether it saturates (only possible for a `val` of 511 or more);
the 200 readings of the peak search are not separate steps.  `RaiseMayHappen`
says that the twenty idle seconds do not end within the microsecond of an
adjustment or the second of a calibration: the idle count restarts at every
touch, so a raise in these windows needs an idle period that ends in exactly the
microsecond of a strike.  Lowering, which happens at the touch itself, is not
restricted.

The history variables say what calibration found (`base`, `base_se`,
`r2r_found`) and what has disturbed it: `drifts[p]` counts the interrupted
adjustments and the failed calibrations of a pad, `torn` that the interrupt
shifted the thresholds between the two loads of the comparison, `resumed` that
the visit was interrupted by a recalibration.

### HidReport and HidIn

`HidReport` has no bytes: pads have a pressure and a velocity, dials add up
modulo 256, messages queue, and `Collect` takes dials, buttons and queue at once.
`HidIn` keeps the buffer at its real byte positions (cells that no modelled pad
or dial uses are left out), sends it in two halves chosen by `flip`, clears
what the code clears, and models `GenericHID_Clear`'s `memset` byte by byte,
because the interrupt may send in the middle of it.  History variables say what the
writers last made of each pad (`real`), which states it has had since the host's
report was begun (`shown`), of which pads the first packet was copied between the
clearing of their two bytes (`cut`), and which pad holds a byte that the clearing
left (`kept`).  The host puts two packets
together as `Utilities/hid-monitor/hid-monitor.py` decodes them.  A bus reset
drops the half report that the host holds and leaves `flip` alone.
`HidIn!Abs` is the refinement mapping: pads and messages are decoded from the
bytes, and every step of `HidIn` is a step of `HidReport` or leaves its variables
alone.  A clear of one byte shows up as half of a pad's state going
(`ClearVelocity`, `ClearPressure`), and not at all for the high byte of the last
pad, which the code's length of 95 leaves out.

### LedClock and LedColour

The LED part of main's round (`SphereWare.c` 430-584) is split along what it
shares with the interrupt.  `LedClock` has the control: the tests of mode and
status, the fade in its `cli` region (`Fade` and `FadeStep`), the setting of the
LED, and every handler that changes mode, status, clock or fade.  Values are
those of the C types: `LED_Fade_Step` wraps as an `int8_t`, the quotients are
truncated as the conversions do.  What the LED shows is abstracted to a source
(off, normal, static, or the garbage of uninitialized locals) and a brightness
(nothing, part, full, over full).  The pads' pressure is a range (none, up to the
mid colour, above it), this round's and the one before: in the upper range nothing is
assigned to `red_new`, `green_new` and `blue_new` when the round before had no
pressure (486-503), and `Uncomputed` is that round.  The locals end at `Show`.
`beat` is history: a beat of the clock in charge that no fade has used yet.

`LedColour` has the data: the scaling of a requested colour and of the static
colour, and the colour of a round, whose three channels main reads one after the
other with interrupts on (`ReadChannel`).  A channel is read in one step; a
tearing inside it, which an 8-bit CPU allows as well, is counted with the others
by `exposed`.  Arithmetic is exact where the code uses single precision: the
steps that round are the ones that truncate in the code.  The two agree on all
but about 0.03 % of the requests, and differ there by one in a channel.  The
uninitialized locals of `SphereWare.c` 438 are any word of `GARBAGE`.  `asked`
and `exposed` are history: the request behind each colour, and whether the round
read a colour that changed or did not compute one.

In `LedColour`, what a round sends is `colour` at `RoundShow`; the static mode
and the host's switches send a colour of the tables as it is.  In `LedClock`,
`LED_Set_Colour` is one step; its bits are `LedDriver`'s, and what the `sei()` it
ends with lets in is `HidOut`'s.

### LedDriver

`LED_WriteArray` assigns the command globals, `LED_SendPacket` shifts the packet
out bit by bit, and `LED_Latch` latches the LED's shift register into the register
that the mode bit names.  Each assignment and each bit is a step; main's run in its
`cli` region until the first packet's `sei()`, an interrupt's likewise.  From
there on the next timer interrupt may come in (`Interrupt`) and, through a status
message, send a colour of its own from the same globals.  `chain` is the LED's
shift register.  `clean` is history: no interrupt sent anything in the middle of
the last send.  A channel has `BITS` / 3 bits; the two mode bits, of which the
first is always 0, are one.

### HidOut

`Tick` is one timer interrupt up to the OUT half of `GenericHID_Task`; `frame`
is the stack of interrupts in progress, with the place in the handler, the
messages of the report still to be done and whether interrupts are on (`open`).
`ReadSecond` and `SecondLate` are the end of `Endpoint_Read_Stream_LE`: the second
packet, or its timeout, after which the report is processed with what the stack
held.  `MidiSelect` and `MidiWrite` are `MIDI_Send_Usb_Midi`: from the first on,
`selected` is the MIDI endpoint, and `Clear` (`Endpoint_ClearOUT`) acts on
whichever is selected.  The next tick acknowledges the packet then (`TickAck`).
Packets are known by their number, so that a report is right when the two it was
put together from are; a byte that only assigns a variable is no step.
`MidiEmpty` is a MIDI message whose status byte is 0, for which the endpoint is
selected and nothing written (MIDI.c 57); that the device is not configured (51)
does not happen in the model.  A message is
known by its packet and its place there (`Id`): `delivered` is a sequence of these.
`nested` and `late` are history.

### Controls

`Read` is `ButtonsAndDials_Read` for one multiplexer position; main calls it for
the positions 0 to 4 with interrupts off and then visits a pad (`Visit`).  A
contact in `bounces` reads as anything; the 25 ms after a button goes down
are longer than any bouncing, so that this read leaves no contact bouncing.
An encoder has four quarters between two detents, and the code compares the
last three pin states that differ.  `sure` is history: every quarter since the last
detent has been read, and all in one direction; `gained` is what the code has
counted since.  `Recalibrate` is `Calibrate`'s clearing of `being_played`,
`Collect` is the report's second half.  The unit's fifth position, which says
whether it is an elite unit, is constant.  The reset switch's wait in main is
`PadScan`'s.

### IntelHex, Bootloader, Programming and FlashUpdate

`IntelHex` reads one line of the file per step: `RefuseLine`, `DataLine`,
`OtherLine`, `EndOfFile`.  A line is what `parse_hex_line`'s scans find in it.
Cells stand for bytes; `LIMIT` is `MAX_MEMORY_SIZE`, 64 KiB, so that a linear
extension moves by `LIMIT`.  The wrap of an extended address at 32 bits (extension
0xFFFF with a segment past it) is left out by the range of `field`.
`ImageIsFile` compares the reader's tables with a reading without state: the byte
of a cell is that of the last record that covers it, at the address that the last
extension before this record gives.

`Bootloader` has the control endpoint as the handler sees it (`rxstpi`, `rxouti`
and the words in the bank, `zlp`), the handler's steps over it - `ReadCommand`,
`EraseDone`, `NextPacket`, `FillWord`, `WritePage`, `WriteDone`, `Finish` - and
everything around it: `PowerOn`, `PowerOff` at any point, `Restart` (the jump check
and the set-up it leads to, one step, as nothing can come in between), `LoopExit`,
`Leave`, `WatchdogReset`, and an application that does not stop the watchdog because
it is not complete.  A cell is a byte, of which the code fills two at a time and the
model one; a page that is being erased or written is `TORN`.  The start command is
0xFFFF, `SIXTEEN` - 1, and is compared with the word that was sent, before an address
is made of it (180-184): on a part above 64 KiB it lies in the range of addresses,
and is still no page's number.  An address beyond the flash is decoded as the SPM
unit does, which ignores the bits that the part does not have (`AddressOn`).
`SetupHardware` sets PE2's bit in `DDRE` (136), which makes the button's pin an output
that is driven high: `Held` lets a button that is held be read either way.  Variables that are dead after a reset, or at the end
of a handler or process, are set to a fixed value there.

`Programming` composes the two with the loader's main program.  `Transfer` is the
host's SETUP packet, `SendPacket` one data packet, `Answered` the status stage;
`TransferFails` is the timeout or the end of a device that has gone, at any point.
The choices `-w` and `-r` are made when they are first looked at (`ReadDone`), and
`-n` at `Boot`.  `Settled` says that a user does not start the loader within the
milliseconds that a device needs for a command; a device that waits for the rest
of a command for ever is settled.  The parts are those below, at and above 64 KiB; at
exactly 64 KiB the two sides disagree about what the word in a command means, which
`HostAddress` and `DeviceAddress` show, and only types, reading and the liveness
properties are stated of such a part.  The loader learns the size from its `-mmcu`
option (981-998) and the bootloader from its own build: the model has one `code_size`,
that is, a user who names the part he has.

`FlashUpdate` is what an update promises: only addresses that are wanted (or
are scratch) change, and success is reported only when all of them hold what was
wanted.  `Programming!Update` is the refinement mapping.  The scratch is the page
that the command of the "rebootor" board happens to name when the bootloader itself
takes it, which has the identity the loader looks for.  With the source's "re" (0x6572) it is
beyond the flash of the small parts and of those above 64 KiB, and the page is the one
that `AddressOn` makes of it.

## Runs

Passing runs:

| Run | Shows | Instance |
|---|---|---|
| `scan_account` | `TypeOK`, `ThresholdAccount`, `SeAccount`, `NoPhantomStrike`, `StandbyEnds`, `StandbyStarts` | one pad of each kind, readings at rest / soft / saturating, standby after 2 ticks, anti-sticky after 1 release, with fairness |
| `scan_order` | `LadderMatchesPad` | two differential pads that sort either way, one single-ended |
| `hid_pads` | `ReportRefinement`, `ReportedStatesWereReal` | the last pad before the packet border, the pad across it (31) and the pad at the end, the highest pressure, both velocities |
| `hid_usb` | `TypeOK`, `DialsConserved`, `ReportRefinement`, `QueueDrains` | one dial, one button, messages up to and past the limit of seven, one re-enumeration |
| `led_clock` | `TypeOK`, `MidiFadeInRange`, `BeatNotLost`, `FadeOnlyDarkens`, `LedSettles` | both clocks, three modes, pads at rest or pressed hard, tempo 800, which runs the fade step out in eight rounds, four timing messages to a beat, with fairness |
| `led_round` | `TypeOK`, `TablesWithinLimit`, `ColoursScaled`, `RoundWithinLimit` | three colours in one slot, static controllers at 43 (three of them pass the limit by 15), sums in and at the ends of both ranges |
| `led_driver` | `TypeOK`, `ShownAsAsked` | two colours of two bits, main and two interrupts inside each other |
| `out_reports` | `TypeOK`, `ReportsInOrder`, `MidiInOrder`, `BankIsFreed`, `ReportsArrive` | two reports, halves with an empty MIDI message and a LED message or with two MIDI messages, two interrupts inside each other, late packets and MIDI reads, with fairness |
| `controls_use` | `TypeOK`, `ClickPerStep`, `PressReadOnce`, `UseIsSeen` | one button and one encoder in use, the others read and at rest, dials modulo 3, with fairness |
| `program_update` | `TypeOK`, `ImageIsFile`, `ProgrammedAsFile`, `UpdateRefinement`, `StartCommandRuns`, `LoaderEnds` | parts of two, three and four pages of two bytes around a limit of six cells, the middle one exactly at it, a reboot command that names a page beyond the smallest, any of four files at any start, with fairness |

Runs that find the code at odds with its comments:

| Run | Violates | What happens |
|---|---|---|
| `scan_lost` | `RaisedOnlyInStandby` | the end of standby is lost between load and store of a threshold |
| `out_lost` | `EveryReportProcessed` | a LED message lets the interrupt in again, which acknowledges the report; the outer acknowledgement throws the next packet away, and from then on reports are halves of different reports |

### Behaviours without a run

Reading and modelling the code has met these too.  Some contradict a
comment or what one would expect; they have no run of their own.

* `Delay()`'s `sei()` (`SphereWare.c` 187) ends the `cli()` around `Calibrate()`
  (264): standby may be decided in the middle of a calibration.  `PadScan`
  models it, and `ThresholdAccount` holds all the same.
* The reset button's entry in `being_played` is cleared by `Calibrate` (120) while
  it is held, so that standby may start under the finger.
* Pad 31 lies across the border of the two HID IN packets (`GenericHID.c` 44) and
  can be reported in a state it never had, a byte of each of two real ones:
  `ReportedStatesWereReal` allows this to pad 31 and to no other at rest, and a
  half-cleared state only to a pad copied in the middle of its clearing.
* `flip` (28) survives a re-enumeration: after one in the middle of a report, the
  host takes every second half for a first.
* `GenericHID_Write_MidiData` admits seven messages, up to byte 121, where its
  comment (251) says 101-115.
* The fade step (`SphereWare.c` 546) wraps past -128 to more than 100 when
  AlphaLive's next beat is late: the LED lights up brighter than full.
* The first pressure in the upper range sends an uninitialized colour (438, 493).
  `LedSettles` says that one such round is all, once the pads come to rest.
* `DDRE |= (1 << PE2)` (`Bootloader/BootloaderHID.c` 136) makes the button's pin an
  output, and the comment above it says input.
* An LED switched off in the middle of main's round is lit by that round and stays
  so; a colour that changes while main reads it is shown as a mixture.
* The button byte is 0xFF from the start, and cleared by every report: a held
  button is reported released until main comes round again, and the first report
  after power-on may show all buttons held.
* An encoder turned half-way to a detent and back is counted as the
  code's two patterns have it, so that dial count and shaft can drift apart;
  `ClickPerStep` is about turns from detent to detent.
* `ButtonsAndDials_Read(5, NULL)` (`SphereWare.c` 236) stores through the null
  pointer on a unit that is not elite, into the registers that AVR maps at address 5.
* The bootloader's descriptor says 1d50:6041 (`Bootloader/Descriptors.c` 76-77), the
  loader looks for 16C0:0478 and 03EB:2067 (`hid_bootloader_cli.c` 252, 255), and
  `BootloaderHID.txt` 52 says 03EB:2067: as they are, loader and bootloader do not
  find each other.  The runs give the device the documented identity.
* On a part of exactly 64 KiB the loader sends page numbers (`code_size` 0x10000 is
  not below 0x10000) and the bootloader reads byte addresses (`FLASHEND` 0xFFFF is
  not above 0xFFFF).
* The last block below `MAX_MEMORY_SIZE` is sent as 0xFF; data at and above
  `code_size` is dropped; a file without an end record, or whose end record has
  a wrong checksum, is read as complete; an extension with a wrong checksum
  is passed over without an error.  `ProgrammedAsFile` excepts what it has to.
* The loader's `-r` takes the bootloader for a "rebootor" board when there is none:
  the bootloader erases a page and waits for the rest of it.
* The bootloader's waits for data have no timeout, nor has the loader's uhid write.
* A bootloader comment says that the first command erases the chip; every command
  erases its page.
* `R2R_Write` (`R2R.c` 13-14) rewrites all of `PORTF` with interrupts on and can set
  the LED's data pin (PF7) back to what it was; the driver sets the pin again for
  every bit, and its clock is on another port.

### Bounds

Pads interact only through the order of visits and
through the interrupt, which treats all alike: two differential pads can be in
either order, visited or not while the other is disturbed, and one has the
under-16 hysteresis and the other not.  The readings span the three sides of
the two thresholds that matter (normal, raised) and the saturation.  Two ticks
are enough to restart the idle count on the way.  `MAX_DRIFTS` (1) counts only
disturbances, after which a pad is exempt from the invariants; `scan_order` has 0,
so every state there is undisturbed.  In `HidIn` the pads
are the ones at the borders of the two packets and of the clearing, the queue
runs its real limit, and a dial's turns go past the sign of one click in either
direction (`MAX_TURNS` 2, `MAX_CONFIGS` 1).  In `LedClock` a beat has
four timing messages instead of 24 (`TIMINGS`), which keeps the beat's boundary and
the fade between; the theorems are for every number up to 24.  The other counters
are those of the C types, and the fade step runs through its whole range.
In `led_round` the three colours change one slot, since slots do not depend on
each other; 43 is the smallest value at which three controllers must be scaled,
and 245 static colours follow from it.

`MAX_NESTED` (2) lets an interrupt come into one that came into main or
another: deeper ones do the same again, and the C stack ends it at some depth.
`REPORTS` (2) is enough for a packet of the second report to be taken for a half of
the first, and for a shift to go on; every packet carries a LED message after an
empty MIDI message, or two MIDI messages, so that messages can be lost or exchanged within a half and across
halves.  Two bits (`BITS`) suffice for a word to be half of one colour and
half of another.  `BYTE` (3) in `Controls` keeps +1, -1 and 0 apart.  In
`program_update` a page has two cells, so that a transfer has a first packet with
the command and another one; one part is below the limit of 16-bit addresses, one at
it and one above; the files have overlapping records, both extensions, right and wrong
checksums, a part of a page, the block at the limit, data above it and a
missing end.  What the bounds leave out, the theorems below prove, where there is
one.

### Fairness

`WF(MainStep)`: main never waits for anything but the release of the
reset button, which is not assumed (`ReleaseReset` has no fairness).  `SF(Tick)`:
the timer's compare flag is latched in hardware, so a tick that falls into a
`cli` region comes as soon as interrupts are on, however often main turns them
off; in the model a tick is disabled only in such moments.  `WF(SendHalf)`: the
timer fires and the host polls as long as the device is configured.
`WF(Configure)`: a host that resets the bus configures the device again.
`WF(Main)` in `LedClock`: nothing in the LED's round waits.  In `HidOut`, `WF(Tick)`
is the timer and `WF(HandlerStep)` the handler, whose waits have timeouts; nothing is
assumed of the host.  In `Controls`, `WF(Read \/ Visit)` is main, `WF(Settle(s))` a
contact that comes to rest, and `SF(Collect)` the interrupt, which stays pending
while main reads with interrupts off.  In `Programming`, `WF(Device)` is the
bootloader's program, `SF(LoopExit)` its look at `RunBootloader` once a second,
however many commands come in between, `WF(HostStep)` the loader and
`WF(TransferFails)` its timeouts.  Neither the user, nor the supply, nor an
application is fair.

## Proofs

`PadScan_proofs` proves, for every number of pads of either kind, every set of
readings and ladder values and every timeout:

* `TypeCorrect`: `Spec => []TypeOK`;
* `AccountCorrect`: `Spec => []ThresholdAccount`;
* `NoPhantomStrikeCorrect`: `Spec => NoPhantomStrike`;
* `LadderCorrect`: `Spec => []LadderMatchesPad`;
* `SeCorrect`: `Spec => []SeAccount`.

They use the constants' assumptions that `PadScan` names, and nothing else; TLC
evaluates them in every run.  `ThresholdAccount` is not inductive: while main is
between load and store of a threshold the account of that pad does not hold, and
during a calibration that of the pads not yet done does not.  `AccountInv` adds
what holds instead: `CalibratedPart` (a pad that the calibration in progress has
passed is at its base plus standby), `BranchPart` (at `Hit`, `Press` and
`Release` the flag has the value the branch was chosen for) and `AdjustPart`
(after the flag has changed, the threshold is still the old one and the loaded
bytes are its bytes, as long as nothing disturbed the pad).  `NoPhantomStrike`
adds `LoadedPart`: the byte loaded at `SampleLo` is the low byte of the
threshold unless `torn`.  `LadderInv` carries, through the calibration, that
`r2r_val` at a pad's place in `pad_order` is what was found for that pad.
`SeInv` does the same as `AccountInv` for the single-ended pads.

`HidIn_proofs` proves, for every set of pads, dials, messages, pressures and
velocities within the ranges of the C types:

* `TypeCorrect`: `Spec => []TypeOK`;
* `DialsCorrect`: `Spec => []DialsConserved`;
* `ReportCorrect`: `Spec => ReportRefinement`, that is, `HidIn` implements
  `HidReport`;
* `RealStatesCorrect`: `Spec => ReportedStatesWereReal`, with pad 31 and pad 47 among
  the pads or not.

`DialsConserved` becomes inductive with `PhasePart`: as long as no report was
lost, the host holds a half exactly when `flip` says that the second comes next,
so that a dial's byte is cleared exactly when the host adds it.  The refinement
has one lemma per action; the arithmetic is in `LowByte` and `HighByte`, which
give back the pressure and the velocity that were written, and in a batch whose
length is the counter in byte 100 (part of `TypeOK`).  `RealInv` says that the
buffer's bytes are those of the pads' last states, but for a pad half cleared and
the byte a clearing leaves (`BufPart`), that these states are among those since the
report was begun (`ShownPart`), and what the bytes of the host's first packet are of
(`FirstPart`): one state, if both bytes of a pad lie in it and no clearing was
between them, and a state each otherwise.  `Halves` is where the pads' bytes lie;
only pad 31's lie in two packets, between which main may write it.

`LedClock_proofs` proves, for every tempo, mode, status and MIDI byte:

* `TypeCorrect`: `Spec => []TypeOK`;
* `MidiFadeCorrect`: `Spec => []MidiFadeInRange`;
* `BeatCorrect`: `Spec => BeatNotLost`;
* `FadeDarkensCorrect`: `Spec => FadeOnlyDarkens`.

`MidiFadeInRange` is inductive with the types: the MIDI clock takes over by a
start, which sets the fade step to 100, and from then on only the count sets it.
`BeatNotLost` needs `BeatInv`: while a beat is unseen, a clock is in charge and
the fade step is 100, because the only step that lowers it is in the `cli` region
and shows the beat first.  `FadeOnlyDarkens` needs `CountAhead`: while the MIDI clock
is in charge, the step that its count gives is not above the one there is, because a
start sets the step to 100 and the count to 0, the count only grows until it sets
the step to 100 again, and nothing of AlphaLive's gets in between.  AlphaLive's own
step falls, unless it leaves its eight bits (`FadeRunsOut`, which excepts that).

`LedColour_proofs` proves, for all colours, controllers and pressures:

* `TypeCorrect`: `Spec => []TypeOK`;
* `TablesCorrect`: `Spec => []TablesWithinLimit`;
* `ScaledCorrect`: `Spec => []ColoursScaled`;
* `RoundCorrect`: `Spec => RoundWithinLimit`.

`FitWithinLimit` is the arithmetic of the first: channels in the proportion of
the weights, of a total that truncation has brought to 1023 and a fraction,
sum up to at most 1023 once each is truncated.  `BetweenWithinLimit` is that of
the second: a mixture of two colours within the limit is within it.  `DonePart`
carries through the steps of a round that the channels read so far are what the
tables, unchanged since, give.  `FitTruncates` is the arithmetic of `ScaledCorrect`:
with one pair of numbers K and D for all three channels, each is the truncation of
its weight times K/D.  Two truncated channels are then in the proportion of their
weights to within one (`Proportion`), and a total at the limit or cut to it loses less than
three to truncation (`FitScaled`).  `AskedInv` ties the table to what was last asked
for.  `TypeCorrect` rests on both: the table's channels fit a word because their total
fits the limit.

`LedDriver_proofs` proves, for every width, set of colours and depth of nesting:

* `TypeCorrect`: `Spec => []TypeOK`;
* `ShownCorrect`: `Spec => []ShownAsAsked`.

`ShownInv` says, of the innermost sender that nothing has disturbed, how far its two
words have come: what of the packet is in the shift register after so many bits,
and what is latched.  It needs that a context below the top has always been
marked as disturbed, which is part of `TypeOK`.

`HidOut_proofs` proves, for every number of reports, content and depth:

* `TypeCorrect`: `Spec => []TypeOK`;
* `OrderCorrect`: `Spec => []ReportsInOrder`;
* `MidiCorrect`: `Spec => []MidiInOrder`;
* `NoLedCorrect`: if no report sets the LED, `Spec => []EveryReportProcessed`.

`TypeInv` adds that a handler in the middle of a MIDI message has one; `OrderInv`
adds that without nesting there is one handler at most, so that the packet in its
hands and the one in the bank account for everything the host has sent.  `MidiInv`
makes `MidiInOrder` inductive: what is delivered and what the handler still has to do
are a queue (`Queue`) - both in order, everything delivered before everything waiting,
and together exactly the MIDI messages of the reports processed.  Each step has
its lemma: a message that sends nothing leaves the queue as it is (`QueueSkips`), one
that goes out moves from its head to the end of what is delivered
(`QueueDelivers`), and a new report, whose packets are later than all before, fills
the queue when it is empty (`QueueFills`).  That it is empty then needs
`OrderInv`: with one handler at most, the one that takes a report has none in hand.
`NoLedCorrect` is the other side of the run `out_lost`: `NeverOpen` says that messages
for the LED are all that ever turns interrupts on in a handler, so that without them
GenericHID.c 152 is right for every report whose second packet and whose MIDI
messages' bank came in time.

`Controls_proofs` proves, for every set of buttons and encoders in use:

* `TypeCorrect`: `Spec => []TypeOK`;
* `ClickCorrect`: `Spec => []ClickPerStep`;
* `PressCorrect`: `Spec => PressReadOnce`.

`CountInv` relates, for an encoder on a sure stretch, the three pin states that the
code keeps, the shaft's quarter and what has been counted (`InStep`, `UpToDate`);
`QuietInv` says that a button pressed and seen down no longer bounces.

`Programming_proofs` proves, for all files, parts, page sizes and contents:

* `TypeCorrect`: `Spec => []TypeOK`;
* `ImageCorrect`: `Spec => []ImageIsFile`;
* `UpdateInvariant`: `Spec => []UpdateInv`, the inductive invariant;
* `ProgrammedCorrect`: `Spec => []ProgrammedAsFile`;
* `UpdateCorrect`: `Spec => UpdateRefinement`, that is, loader, pipe and bootloader
  implement `FlashUpdate`.

`ReaderInv` says, of the lines read so far, that the extension in force is the last
one before the next line and that every cell is explained by a line.  `UpdateInv`
has a part for each agreement.  `LinkInv` is about a transfer in progress: the
packets still to be sent are the rest of the report, and the device is where the
packets that have left bring it (`Fresh`, `AtCommand`, `AtErase`, `AtFill`,
`AtWrite`, `Done`), with the words read so far in the page buffer; when no transfer
is in progress, or its device went away, there is nothing that the device could go
on with (`Rest`).  `PageInv` is about what outlives a transfer that the loader has
given up: an erasure or a filling at work is of a page that the update may touch.
`QuietInv` says that after success not even such a rest is at work, and `FlashInv`
that every block below `addr` holds what the file wants.  Losses of packets, power
and device need no case of their own: they leave the loader with a stale handle and
the device at `Rest`, and `Settled` keeps a new loader from meeting the old
command.  The assumptions are those of the real parts: pages of 128 bytes with flash
of 8, 16 or 32 KiB, pages of 256 with 64 or 128 KiB, the start command one less than
0x10000 and no part with as many pages as that, a `REBOOT_WORD` that is any other
16-bit number.  `SameAddress` says what the two sides' arithmetic comes to: on a
part below 64 KiB both use the address, on one above both the page's number, and the
remainder of the flash's size that the SPM unit takes changes neither.  The types
and `UpdateInvariant` are of every size; `ProgrammedCorrect` and `UpdateCorrect`
promise nothing of exactly 64 KiB (`Agreed`).  In `UpdateCorrect` the scratch is
the page that the reboot command names on each of `CODE_SIZES`: with a single size
this is one page.

Only model-checked: the liveness properties (`StandbyEnds`, `StandbyStarts`,
`QueueDrains`, `LedSettles`, `BankIsFreed`, `ReportsArrive`, `UseIsSeen`,
`StartCommandRuns`, `LoaderEnds`), which the prover does not
reach.  Every invariant and every action property of a passing run, and both
refinements, are theorems, under the assumptions named above.

## Not modelled

The ADC, multiplexer and ladder drivers, hardware set-up and descriptor tables
have no state that a property could be about.  `BootJump.c` and `HidInReports.c` are
dead code.  The UART's bytes, with their busy waits and running status, leave the
device and are never read back.  Of LUFA, which is vendored and is nine tenths of the
repository's lines - host mode, the UC3 and XMEGA ports, class drivers that this
firmware does not compile - the models have what the firmware's correctness depends
on: bus reset and configuration, the stream read, the wait for a bank, the control
request's stages.  Of the host loader's five transports, `Programming` has libusb's;
the others make the same calls with other system libraries.  The steps of
`BubbleSort`, the arithmetic of the pressure filter and of the peak search are
abstracted in `PadScan`; that the sort sorts is taken from its code, two nested loops
with an exchange.  The hex digits of a line and the loader's messages are left out.
A loader that is told another part than it programs (`-mmcu`) is left out: it sends
blocks of the wrong length or to the wrong places, and no property is stated of it.

## What could come next

* `BubbleSort` as a step machine, shown to implement `PadScan`'s one-step sort.
* The timing of main's round against the transfers: how long a held button can
  be reported released.
* LUFA's control endpoint state machine, of which `Bootloader` has the part that its
  handler sees.
