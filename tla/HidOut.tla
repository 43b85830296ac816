------------------------------- MODULE HidOut -------------------------------
(***************************************************************************)
(* The HID OUT report and the MIDI messages in it: the OUT half of         *)
(* GenericHID_Task and GenericHID_ProcessReport (GenericHID.c), the USB    *)
(* side of MIDI.c, and the endpoint they share, in a timer interrupt that  *)
(* can be entered again: a message that sets the LED ends with sei()       *)
(* (LED.c 58), and from then on interrupts are on until the handler ends.  *)
(*                                                                         *)
(* A report comes in two packets: packets 0 and 1 are the halves of the    *)
(* first report, 2 and 3 of the second.  Packets are known by number and   *)
(* by what they make the handler do: "midi" (send a message on), "empty"   *)
(* (a MIDI message whose status byte is 0: only the endpoint is selected)  *)
(* and "led" (set the LED); messages that only assign variables are left   *)
(* out, and the device is configured: MIDI.c 51 never returns.             *)
(***************************************************************************)
EXTENDS Integers, Sequences

CONSTANTS
  REPORTS,     \* reports the host sends (a bound)
  HALVES,      \* what a packet may carry: sequences of Kinds
  MAX_NESTED   \* interrupts inside each other (a bound: the stack's size)

Kinds == {"midi", "empty", "led"}

ASSUME HidOutAssumption ==
  /\ REPORTS \in Nat \ {0} /\ MAX_NESTED \in Nat \ {0}
  /\ HALVES \subseteq Seq(Kinds)

VARIABLES
  content,          \* what the host's packets carry, in the order sent
  full, bank,       \* the HID OUT bank holds packet bank,
  unread,           \* of which no byte has been read
  midi_full,        \* the MIDI IN bank waits for the host
  selected,         \* UENUM: "out" (HID OUT) or "midi" (MIDI IN)
  depth, frame,     \* the handlers in progress, innermost last
  processed,        \* packets of each call of GenericHID_ProcessReport
  delivered,        \* MIDI messages that went out, in order: see Id
  nested, late      \* an interrupt came inside another; a wait timed out

usbVars == <<full, bank, unread, midi_full>>
vars == <<content, usbVars, selected, depth, frame, processed, delivered, nested, late>>

Packets == 0 .. 2 * REPORTS - 1
NONE    == -1
Frames  == 1 .. MAX_NESTED

Sent == Len(content)

\* A message to be done: its kind, the packet it came in and its place there.
Message == [kind : Kinds, packet : Packets \cup {NONE}, place : Nat]
MessageIds == (Packets \cup {NONE}) \X Nat

Frame == [at : {"second", "process", "midi"}, first : Packets,
          messages : Seq(Message), open : BOOLEAN]

NoFrame == [at |-> "second", first |-> 0, messages |-> << >>, open |-> FALSE]

Init ==
  /\ content = << >>
  /\ full = FALSE /\ bank = 0 /\ unread = FALSE /\ midi_full = FALSE
  /\ selected = "out"
  /\ depth = 0 /\ frame = [d \in Frames |-> NoFrame]
  /\ processed = << >> /\ delivered = << >>
  /\ nested = FALSE /\ late = FALSE

-----------------------------------------------------------------------------
(* The host                                                                *)

\* The hardware takes the next packet when the bank is free.
HostSend ==
  /\ ~ full /\ Sent < 2 * REPORTS
  /\ \E half \in HALVES : content' = Append(content, half)
  /\ full' = TRUE /\ bank' = Sent /\ unread' = TRUE
  /\ UNCHANGED <<midi_full, selected, depth, frame, processed, delivered, nested, late>>

HostFetch ==
  /\ midi_full
  /\ midi_full' = FALSE
  /\ UNCHANGED <<content, full, bank, unread, selected, depth, frame, processed,
                 delivered, nested, late>>

-----------------------------------------------------------------------------
(* The interrupt                                                           *)

Mut_InterruptsAlwaysOn == depth <= MAX_NESTED

InterruptsOn == depth > 0 => frame[depth].open

\* On entry MIDI_Recieve_Usb_Midi and the IN half have selected their own
\* endpoints; GenericHID_Task then selects HID OUT.
Enter ==
  /\ InterruptsOn /\ depth < MAX_NESTED
  /\ selected' = "out"
  /\ nested' = (nested \/ depth > 0)
  /\ UNCHANGED <<content, midi_full, processed, delivered, late>>

TickIdle ==
  /\ Enter /\ ~ full
  /\ UNCHANGED <<full, bank, unread, depth, frame>>

Mut_TickAckAnyway ==
  /\ Enter /\ full
  /\ full' = FALSE /\ unread' = FALSE
  /\ UNCHANGED <<bank, depth, frame>>

Mut_TickAckSkipped ==
  /\ Enter /\ full /\ ~ unread
  /\ UNCHANGED <<full, bank, unread, depth, frame>>

\* All bytes read, but not acknowledged: only that is left to do.
TickAck ==
  /\ Enter /\ full /\ ~ unread
  /\ full' = FALSE
  /\ UNCHANGED <<bank, unread, depth, frame>>

\* Endpoint_Read_Stream_LE wants 127 bytes: it reads a packet, acknowledges it
\* and waits for the next.
TickRead ==
  /\ Enter /\ full /\ unread
  /\ full' = FALSE /\ unread' = FALSE /\ UNCHANGED bank
  /\ depth' = depth + 1
  /\ frame' = [frame EXCEPT ![depth + 1] = [NoFrame EXCEPT !.first = bank]]

Tick == TickIdle \/ TickAck \/ TickRead

Top == frame[depth]

SetTop(f) == frame' = [frame EXCEPT ![depth] = f]

From(packet, kinds) ==
  [i \in 1 .. Len(kinds) |-> [kind |-> kinds[i], packet |-> packet, place |-> i]]

\* What the handler finds to do in a buffer of these packets.  A buffer that
\* starts with a second half is a report if its first byte happens to be 1,
\* and then anything may be found in it.
Parse(first, rest) ==
  IF first % 2 = 0 THEN {From(first, content[first + 1]) \o rest}
  ELSE {From(NONE, half) : half \in HALVES}

ReadSecond ==
  /\ depth > 0 /\ Top.at = "second" /\ full
  /\ unread' = FALSE
  /\ \E ms \in Parse(Top.first, From(bank, content[bank + 1])) :
       SetTop([Top EXCEPT !.at = "process", !.messages = ms])
  /\ processed' = Append(processed, <<Top.first, bank>>)
  /\ UNCHANGED <<content, full, bank, midi_full, selected, depth, delivered, nested, late>>

\* After 100 ms without a packet the report is processed with what the stack
\* held; the error code is not looked at.
SecondLate ==
  /\ depth > 0 /\ Top.at = "second" /\ ~ full
  /\ \E half \in HALVES : \E ms \in Parse(Top.first, From(NONE, half)) :
       SetTop([Top EXCEPT !.at = "process", !.messages = ms])
  /\ processed' = Append(processed, <<Top.first, NONE>>)
  /\ late' = TRUE
  /\ UNCHANGED <<content, usbVars, selected, depth, delivered, nested>>

Doing(kind) ==
  /\ depth > 0 /\ Top.at = "process" /\ Top.messages # << >>
  /\ Head(Top.messages).kind = kind

\* LED_Set_Status and LED_Set_Pressure_Status in the normal mode send two
\* packets to the LED, each with its sei().
LedMessage ==
  /\ Doing("led")
  /\ SetTop([Top EXCEPT !.open = TRUE, !.messages = Tail(@)])
  /\ UNCHANGED <<content, usbVars, selected, depth, processed, delivered, nested, late>>

\* MIDI_Send_Usb_Midi: select, write the event packet, send the bank.
MidiSelect ==
  /\ Doing("midi")
  /\ selected' = "midi"
  /\ SetTop([Top EXCEPT !.at = "midi"])
  /\ UNCHANGED <<content, usbVars, depth, processed, delivered, nested, late>>

\* Without a status byte nothing is written, and the endpoint stays selected.
MidiEmpty ==
  /\ Doing("empty")
  /\ selected' = "midi"
  /\ SetTop([Top EXCEPT !.messages = Tail(@)])
  /\ UNCHANGED <<content, usbVars, depth, processed, delivered, nested, late>>

Id(m) == <<m.packet, m.place>>

MidiDone == SetTop([Top EXCEPT !.at = "process", !.messages = Tail(@)])

Mut_MidiWriteUnready ==
  /\ depth > 0 /\ Top.at = "midi" /\ selected = "midi"
  /\ midi_full' = TRUE
  /\ delivered' = IF midi_full THEN delivered ELSE Append(delivered, Id(Head(Top.messages)))
  /\ MidiDone
  /\ UNCHANGED <<content, full, bank, unread, selected, depth, processed, nested, late>>

MidiWrite ==
  /\ depth > 0 /\ Top.at = "midi"
  /\ selected = "midi" /\ ~ midi_full
  /\ midi_full' = TRUE
  /\ delivered' = Append(delivered, Id(Head(Top.messages)))
  /\ MidiDone
  /\ UNCHANGED <<content, full, bank, unread, selected, depth, processed, nested, late>>

\* A host that does not read MIDI for 100 ms misses the message.
MidiLate ==
  /\ depth > 0 /\ Top.at = "midi"
  /\ selected = "midi" /\ midi_full
  /\ late' = TRUE
  /\ MidiDone
  /\ UNCHANGED <<content, usbVars, selected, depth, processed, delivered, nested>>

\* An interrupt in between has selected HID OUT: the message is written to the
\* wrong side of an OUT endpoint, whose bank it may release.
MidiAstray ==
  /\ depth > 0 /\ Top.at = "midi" /\ selected = "out"
  /\ full' \in {full, FALSE} /\ unread' = (unread /\ full')
  /\ MidiDone
  /\ UNCHANGED <<content, bank, midi_full, selected, depth, processed, delivered, nested, late>>

\* Endpoint_ClearOUT releases the bank of whichever endpoint is selected: on
\* MIDI IN it sends an empty packet.
Clear ==
  /\ depth > 0 /\ Top.at = "process" /\ Top.messages = << >>
  /\ IF selected = "out"
     THEN full' = FALSE /\ unread' = FALSE /\ UNCHANGED midi_full
     ELSE midi_full' = TRUE /\ UNCHANGED <<full, unread>>
  /\ depth' = depth - 1 /\ SetTop(NoFrame)
  /\ UNCHANGED <<content, bank, selected, processed, delivered, nested, late>>

HandlerStep ==
  \/ ReadSecond \/ SecondLate \/ LedMessage \/ MidiEmpty \/ MidiSelect
  \/ MidiWrite \/ MidiLate \/ MidiAstray \/ Clear

Next == HostSend \/ HostFetch \/ Tick \/ HandlerStep

Spec == Init /\ [][Next]_vars

\* The timer goes on and the handler never waits without a timeout.
FairSpec == Spec /\ WF_vars(Tick) /\ WF_vars(HandlerStep)

-----------------------------------------------------------------------------
\* Every variable stays in its range, and only the innermost handler waits.
TypeOK ==
  /\ content \in Seq(HALVES) /\ Len(content) <= 2 * REPORTS
  /\ full \in BOOLEAN /\ unread \in BOOLEAN /\ midi_full \in BOOLEAN
  /\ bank \in Packets
  /\ unread => full
  /\ full => bank < Sent
  /\ selected \in {"out", "midi"}
  /\ depth \in 0 .. MAX_NESTED
  /\ frame \in [Frames -> Frame]
  /\ \A d \in 1 .. depth : frame[d].first < Sent
  /\ \A d \in 1 .. depth - 1 : frame[d].open
  /\ processed \in Seq(Packets \X (Packets \cup {NONE}))
  /\ delivered \in Seq(MessageIds)
  /\ nested \in BOOLEAN /\ late \in BOOLEAN

\* Every report is processed whole, once and in order, although a MIDI message
\* in it makes the handler acknowledge the wrong endpoint: calls are made for
\* the halves of the reports in turn, and a packet that was taken from the
\* host is in one of them, in the handler's hands or still in the bank.  This
\* holds unless an interrupt came inside another or a wait timed out.
Regular == ~ nested /\ ~ late

InHand == IF depth > 0 /\ Top.at = "second" THEN 1 ELSE 0
InBank == IF unread THEN 1 ELSE 0

InOrder ==
  /\ \A i \in 1 .. Len(processed) : processed[i] = <<2 * i - 2, 2 * i - 1>>
  /\ Sent = 2 * Len(processed) + InHand + InBank

ReportsInOrder == Regular => InOrder

\* The MIDI messages of a report go to the host once each, in their order:
\* what has been delivered are the messages of the reports processed, but for
\* those the handler has not come to.
Before(a, b) == a[1] < b[1] \/ (a[1] = b[1] /\ a[2] < b[2])

Ascending(s) == \A i, j \in 1 .. Len(s) : i < j => Before(s[i], s[j])

MidiIds(messages) ==
  {Id(messages[i]) : i \in {n \in 1 .. Len(messages) : messages[n].kind = "midi"}}

MidiOf(p) == MidiIds(From(p, content[p + 1]))

Waiting == IF depth = 0 THEN {} ELSE MidiIds(Top.messages)

MidiInOrder ==
  Regular =>
    /\ Ascending(delivered)
    /\ {delivered[i] : i \in 1 .. Len(delivered)} =
         (UNION {MidiOf(p) : p \in 0 .. 2 * Len(processed) - 1}) \ Waiting

\* Whatever happens, a packet does not stay in the bank: the host can always
\* go on.
BankIsFreed == full ~> ~ full

\* A report that was sent is processed in the end.
ReportsArrive == Sent = 2 * REPORTS ~> Len(processed) = REPORTS \/ ~ Regular

-----------------------------------------------------------------------------
\* GenericHID.c 152: GenericHID_ProcessReport is called each time the host has
\* sent a new report.  (Not if a message in one sets the LED.)
EveryReportProcessed == ~ late => InOrder
=============================================================================
