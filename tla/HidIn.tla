------------------------------- MODULE HidIn -------------------------------
(***************************************************************************)
(* The HID IN report (GenericHID.c) from its writers to the host.          *)
(*                                                                         *)
(* hid_in_buffer is written by main (pads, buttons, dials, with interrupts *)
(* off; GenericHID_Clear, with interrupts on, byte by byte) and by the     *)
(* timer interrupt (MIDI messages).  GenericHID_Task, in the interrupt,    *)
(* sends it in two packets of 64 bytes, one half at a time, and clears the *)
(* buttons, the dials and the MIDI messages after the second.  The host    *)
(* (Utilities/hid-monitor/hid-monitor.py) puts the packets together two by *)
(* two, counting from the moment the device was configured.                *)
(*                                                                         *)
(* The buffer keeps its real byte positions, but only the cells of PADS    *)
(* and DIALS are modelled; a three-byte MIDI message is one value, at the  *)
(* position of its first byte.  A packet reaches the host when it is       *)
(* written: one that the bus loses is one the endpoint still holds.        *)
(***************************************************************************)
EXTENDS Integers, Sequences

CONSTANTS
  PADS,        \* pads modelled, of 0 .. LAST_PAD
  LAST_PAD,    \* 47
  DIALS,       \* dials modelled, of 0 .. 1
  PRESSURES,   \* pad_value arguments
  VELOCITIES,  \* pad_velocity arguments
  BUTTONS,     \* button bitmaps
  MESSAGES,    \* MIDI messages
  MAX_TURNS,   \* bound: net clicks of a dial, either way
  MAX_CONFIGS  \* bound: re-enumerations

ASSUME PadAssumption  == LAST_PAD = 47 /\ PADS \subseteq 0 .. LAST_PAD
ASSUME DialAssumption == DIALS \subseteq 0 .. 1
ASSUME ByteAssumption ==
  /\ PRESSURES \subseteq 0 .. 511 /\ VELOCITIES \subseteq 0 .. 127
  /\ BUTTONS \subseteq 0 .. 255 /\ MESSAGES \subseteq Nat
ASSUME BoundAssumption == MAX_TURNS \in Nat /\ MAX_CONFIGS \in Nat

VARIABLES
  buf,                  \* hid_in_buffer
  flip,                 \* static bool of GenericHID_Task
  noOfMidiInMessages,
  configured,           \* USB_DeviceState = DEVICE_STATE_Configured
  clear_at,             \* memset of GenericHID_Clear: next byte, 0 when idle
  first,                \* the host's half-read report, <<>> when none
  host_dial,            \* dial_state_1, dial_state_2 of the host
  collected,            \* MIDI messages of the last second half
  \* history
  turned,               \* net clicks of each dial
  real,                 \* what its writers last made of each pad
  shown,                \* what each pad was since the host's report began
  cut,                  \* pads that the first half found half cleared
  kept,                 \* pads whose high byte a clear has left
  lost,                 \* the host dropped or cut a report
  configs

bufVars  == <<buf, noOfMidiInMessages>>
hostVars == <<first, host_dial, collected, lost>>
usbVars  == <<flip, configured, configs>>
padVars  == <<real, shown, cut, kept>>
vars == <<bufVars, hostVars, usbVars, clear_at, turned, padVars>>

LowCell(p)   == 1 + 2 * p
HighCell(p)  == 2 + 2 * p
DialCell(d)  == 98 + d
SlotCell(k)  == 101 + 3 * k
MidiCells    == {SlotCell(k) : k \in 0 .. 6}
PadCells     == {LowCell(p) : p \in PADS} \cup {HighCell(p) : p \in PADS}
Cells == {0, 97, 100} \cup {DialCell(d) : d \in DIALS} \cup MidiCells \cup PadCells

Mut_HalfOf62(i) == i \div 62

Half(i) == i \div 64

Nothing == << >>
Rest    == <<0, 0>>

Init ==
  /\ buf = [i \in Cells |-> IF i = 0 THEN 1 ELSE 0]
  /\ flip = 0 /\ noOfMidiInMessages = 0
  /\ configured = TRUE /\ clear_at = 0
  /\ first = Nothing
  /\ host_dial = [d \in DIALS |-> 0]
  /\ collected = << >>
  /\ turned = [d \in DIALS |-> 0]
  /\ real = [p \in PADS |-> Rest]
  /\ shown = [p \in PADS |-> {Rest}]
  /\ cut = {} /\ kept = {}
  /\ lost = FALSE /\ configs = 0

-----------------------------------------------------------------------------
(* The pads' bytes: seven bits of velocity and the last bit of the         *)
(* pressure, then the pressure's other eight bits.                         *)

Mut_LowByteKeepsNoBit(pressure, velocity) == velocity % 128

LowByte(pressure, velocity) == (velocity % 128) + 128 * (pressure % 2)
HighByte(pressure)          == (pressure \div 2) % 256
Pressure(b, p) == (b[LowCell(p)] \div 128) + 2 * b[HighCell(p)]
Velocity(b, p) == b[LowCell(p)] % 128

\* A pad whose low byte is cleared and whose high byte is not is between its
\* old state and rest: of the two bytes, each is one of a real state.
HalfCleared(p) == clear_at = HighCell(p)
States(p)      == {real[p]} \cup (IF HalfCleared(p) THEN {Rest} ELSE {})
Remember       == shown' = [p \in PADS |-> shown[p] \cup States(p)']

MainWrites(b) ==
  /\ clear_at = 0
  /\ buf' = b
  /\ UNCHANGED <<noOfMidiInMessages, hostVars, usbVars, clear_at>>

PadBecomes(p, state) ==
  /\ real' = [real EXCEPT ![p] = state]
  /\ kept' = kept \ {p}
  /\ Remember
  /\ UNCHANGED <<turned, cut>>

Write_PadData(p, value, velocity) ==
  /\ MainWrites([buf EXCEPT ![LowCell(p)]  = LowByte(value, velocity),
                            ![HighCell(p)] = HighByte(value)])
  /\ PadBecomes(p, <<value, velocity>>)

Write_PressureOnly(p, value) ==
  /\ MainWrites([buf EXCEPT ![LowCell(p)]  = LowByte(value, @),
                            ![HighCell(p)] = HighByte(value)])
  /\ PadBecomes(p, <<value, real[p][2]>>)

Write_ButtonData(b) ==
  /\ MainWrites([buf EXCEPT ![97] = b])
  /\ UNCHANGED <<turned, padVars>>

Adjust_Dial(d, amount) ==
  /\ turned[d] + amount \in (- MAX_TURNS) .. MAX_TURNS
  /\ MainWrites([buf EXCEPT ![DialCell(d)] = (@ + amount) % 256])
  /\ turned' = [turned EXCEPT ![d] = @ + amount]
  /\ UNCHANGED padVars

\* memset(&hid_in_buffer[1], 0, 95): bytes 1 .. 95, so the last pad's second
\* byte, 96, stays.
ClearEnd == 95

Clear ==
  /\ clear_at = 0
  /\ clear_at' = 1
  /\ UNCHANGED <<bufVars, hostVars, usbVars, turned, padVars>>

ToClear == {i \in PadCells : clear_at <= i /\ i <= ClearEnd}

\* A pad is at rest once its last byte is cleared.
ClearByte ==
  /\ clear_at # 0
  /\ \E i \in ToClear :
       /\ \A j \in ToClear : i <= j
       /\ buf' = [buf EXCEPT ![i] = 0]
       /\ clear_at' = i + 1
       /\ real' = [p \in PADS |-> IF i = HighCell(p) THEN Rest ELSE real[p]]
  /\ Remember
  /\ UNCHANGED <<noOfMidiInMessages, hostVars, usbVars, turned, cut, kept>>

ClearDone ==
  /\ clear_at # 0 /\ ToClear = {}
  /\ clear_at' = 0
  /\ kept' = {p \in PADS : HighCell(p) > ClearEnd}
  /\ real' = [p \in PADS |-> IF p \in kept' THEN Rest ELSE real[p]]
  /\ Remember
  /\ UNCHANGED <<bufVars, hostVars, usbVars, turned, cut>>

-----------------------------------------------------------------------------
(* In the timer interrupt.                                                 *)

MIDI_LIMIT == 6

Write_MidiData(m) ==
  /\ IF noOfMidiInMessages <= MIDI_LIMIT
     THEN /\ noOfMidiInMessages' = noOfMidiInMessages + 1
          /\ buf' = [buf EXCEPT ![SlotCell(noOfMidiInMessages)] = m,
                                ![100] = noOfMidiInMessages + 1]
     ELSE UNCHANGED bufVars
  /\ UNCHANGED <<hostVars, usbVars, clear_at, turned, padVars>>

Mut_CollectedButDials(b) ==
  [i \in Cells |-> IF i \in 97 .. 118 \ {98, 99} THEN 0 ELSE b[i]]

Mut_CollectedButCount(b) ==
  [i \in Cells |-> IF i \in 97 .. 118 \ {100} THEN 0 ELSE b[i]]

\* What the second half takes out of the buffer: bytes 97, 98, 99, 100 .. 118.
Collected(b) ==
  [i \in Cells |-> IF i \in 97 .. 118 THEN 0 ELSE b[i]]

Batch(b) == [k \in 1 .. b[100] |-> b[SlotCell(k - 1)]]

\* hid-monitor.py: a report whose first byte is not 0x01 (or 0x02, the debug
\* report, which the firmware does not send) is ignored; the dials' bytes are
\* taken as signed.
Signed(byte) == IF byte > 127 THEN byte - 256 ELSE byte
ReportId(half, b) == IF half = 0 THEN b[0] ELSE IF 64 \in Cells THEN b[64] ELSE 0

HostReceives(half, b) ==
  IF first = Nothing
  THEN /\ first' = <<ReportId(half, b), [i \in {j \in Cells : Half(j) = half} |-> b[i]]>>
       /\ UNCHANGED <<host_dial, lost>>
       /\ shown' = [p \in PADS |-> States(p)]
       /\ cut' = {p \in PADS : HalfCleared(p)}
  ELSE /\ first' = Nothing
       /\ IF first[1] = 1 /\ half = 1
          THEN /\ host_dial' = [d \in DIALS |->
                                  host_dial[d] + Signed(b[DialCell(d)])]
               /\ UNCHANGED lost
          ELSE lost' = TRUE /\ UNCHANGED host_dial
       /\ UNCHANGED <<shown, cut>>

Mut_FlipNotStatic == 0

NextFlip == 1 - flip

SendHalf ==
  /\ configured
  /\ HostReceives(flip, buf)
  /\ IF flip = 1
     THEN /\ buf' = Collected(buf)
          /\ noOfMidiInMessages' = 0
          /\ collected' = Batch(buf)
     ELSE UNCHANGED <<bufVars, collected>>
  /\ flip' = NextFlip
  /\ UNCHANGED <<configured, configs, clear_at, turned, real, kept>>

\* The bus is reset; main and interrupt run on, and nothing resets flip.
Reset ==
  /\ configured /\ configs < MAX_CONFIGS
  /\ configured' = FALSE
  /\ configs' = configs + 1
  /\ lost' = (lost \/ first # Nothing)
  /\ first' = Nothing
  /\ UNCHANGED <<bufVars, flip, host_dial, collected, clear_at, turned, padVars>>

Configure ==
  /\ ~configured
  /\ configured' = TRUE
  /\ UNCHANGED <<bufVars, hostVars, flip, configs, clear_at, turned, padVars>>

Main ==
  \/ \E p \in PADS, n \in PRESSURES :
       \/ \E v \in VELOCITIES : Write_PadData(p, n, v)
       \/ Write_PressureOnly(p, n)
  \/ \E b \in BUTTONS : Write_ButtonData(b)
  \/ \E d \in DIALS, amount \in {-1, 1} : Adjust_Dial(d, amount)
  \/ Clear \/ ClearByte \/ ClearDone

Next == Main \/ (\E m \in MESSAGES : Write_MidiData(m))
             \/ SendHalf \/ Reset \/ Configure

\* The timer keeps firing and the host keeps polling.
Spec == Init /\ [][Next]_vars /\ WF_vars(SendHalf) /\ WF_vars(Configure)

-----------------------------------------------------------------------------
Bytes == 0 .. 255

TypeOK ==
  /\ buf \in [Cells -> Nat]
  /\ \A i \in Cells \ MidiCells : buf[i] \in Bytes
  /\ flip \in {0, 1} /\ configured \in BOOLEAN
  /\ noOfMidiInMessages \in 0 .. 7 /\ buf[100] = noOfMidiInMessages
  /\ clear_at \in 0 .. ClearEnd + 1
  /\ host_dial \in [DIALS -> Int] /\ turned \in [DIALS -> Int]
  /\ lost \in BOOLEAN /\ configs \in 0 .. MAX_CONFIGS

\* The device keeps the promises of the abstract report, whatever bytes,
\* halves and counters it keeps them with: a pressure-only write keeps the
\* velocity, MIDI messages come out in order and only whole batches leave.
Abs == INSTANCE HidReport WITH
         CAPACITY <- 7,
         pads     <- [p \in PADS |-> [pressure |-> Pressure(buf, p),
                                     velocity |-> Velocity(buf, p)]],
         buttons  <- buf[97],
         dials    <- [d \in DIALS |-> buf[DialCell(d)]],
         queue    <- Batch(buf)
ReportRefinement == Abs!Spec

\* No click of a dial is lost or counted twice on its way to the host, as
\* long as the host drops no report: what the host has added up and what the
\* buffer still holds make up all clicks, in bytes.
DialsConserved ==
  ~lost => \A d \in DIALS :
             (turned[d] - host_dial[d] - buf[DialCell(d)]) % 256 = 0

\* Pads of which a packet's copy in the interrupt was made in the middle of
\* their clearing.
CutByClear == cut \cup {p \in PADS : Half(LowCell(p)) = 1 /\ HalfCleared(p)}

\* What the host puts together of a pad is what its writers made of it since the
\* report was begun: each of the two bytes is one of a state that the pad had,
\* and both are of the same state where the code can promise it - for every pad
\* but 31, whose bytes lie in two packets (GenericHID.c:42), and unless
\* GenericHID_Clear was just between the two bytes (136).  The one byte that the
\* clearing leaves, 96, is of the pad's next state when that is written.
ReportedStatesWereReal ==
  [][(first # Nothing /\ flip = 1 /\ flip' = 0) =>
       LET report == [i \in PadCells |-> IF Half(i) = 0 THEN first[2][i] ELSE buf[i]]
       IN \A p \in PADS : \E low, high \in shown[p] :
            /\ report[LowCell(p)] = LowByte(low[1], low[2])
            /\ p \notin kept => report[HighCell(p)] = HighByte(high[1])
            /\ (p # 31 /\ p \notin CutByClear \cup kept) => low = high]_vars

\* Queued MIDI messages leave while the device stays configured.
QueueDrains ==
  noOfMidiInMessages > 0 ~> (noOfMidiInMessages = 0 \/ ~configured)
=============================================================================
