---------------------------- MODULE HidOut_proofs ----------------------------
(***************************************************************************)
(* Theorems about HidOut: the types, and that reports are processed and    *)
(* MIDI messages sent on whole, once and in order, for every number and    *)
(* content of reports and any depth of nested interrupts.                  *)
(***************************************************************************)
EXTENDS HidOut, TLAPS

-----------------------------------------------------------------------------
(* Sequences of messages.                                                  *)

LEMMA PacketsFacts ==
  /\ Packets \subseteq Nat /\ 0 \in Packets /\ Frames \subseteq Nat
  /\ NONE \notin Packets
BY HidOutAssumption DEF Packets, Frames, NONE

LEMMA FromType ==
  ASSUME NEW p \in Packets \cup {NONE}, NEW kinds \in Seq(Kinds)
  PROVE  From(p, kinds) \in Seq(Message)
<1>1. \A i \in 1 .. Len(kinds) :
        [kind |-> kinds[i], packet |-> p, place |-> i] \in Message
  BY DEF Message, Kinds
<1> QED
  BY <1>1 DEF From

LEMMA ParseType ==
  ASSUME TypeOK, NEW first \in Packets, first < Sent, NEW rest \in Seq(Message),
         NEW ms \in Parse(first, rest)
  PROVE  ms \in Seq(Message)
<1>1. CASE first % 2 = 0
  <2>1. content[first + 1] \in HALVES
    BY PacketsFacts DEF TypeOK, Sent
  <2>2. From(first, content[first + 1]) \in Seq(Message)
    BY <2>1, FromType, HidOutAssumption DEF Kinds
  <2>3. ms = From(first, content[first + 1]) \o rest
    BY <1>1 DEF Parse
  <2> QED
    BY <2>2, <2>3
<1>2. CASE first % 2 # 0
  <2>1. PICK half \in HALVES : ms = From(NONE, half)
    BY <1>2 DEF Parse
  <2> QED
    BY <2>1, FromType, HidOutAssumption DEF Kinds
<1> QED
  BY <1>1, <1>2

-----------------------------------------------------------------------------
(* Types.                                                                  *)

UsbOK ==
  /\ content \in Seq(HALVES) /\ Len(content) <= 2 * REPORTS
  /\ full \in BOOLEAN /\ unread \in BOOLEAN /\ midi_full \in BOOLEAN
  /\ bank \in Packets
  /\ unread => full
  /\ full => bank < Sent

FramesOK ==
  /\ selected \in {"out", "midi"}
  /\ depth \in 0 .. MAX_NESTED
  /\ frame \in [Frames -> Frame]
  /\ \A d \in 1 .. depth : frame[d].first < Sent
  /\ \A d \in 1 .. depth - 1 : frame[d].open

LogOK ==
  /\ processed \in Seq(Packets \X (Packets \cup {NONE}))
  /\ delivered \in Seq(MessageIds)
  /\ nested \in BOOLEAN /\ late \in BOOLEAN

\* A handler that sends a message on has one to send.
HasMessage ==
  \A d \in 1 .. depth : frame[d].at = "midi" => frame[d].messages # << >>

TypeInv == TypeOK /\ HasMessage

LEMMA TypeParts == TypeOK = (UsbOK /\ FramesOK /\ LogOK)
BY DEF TypeOK, UsbOK, FramesOK, LogOK

LEMMA IdType == \A m \in Message : Id(m) \in MessageIds
BY DEF Id, Message, MessageIds

LEMMA TopType ==
  ASSUME TypeInv, depth > 0
  PROVE  /\ depth \in Frames /\ Top \in Frame /\ Top.first \in Packets
         /\ Top.first < Sent /\ Top.messages \in Seq(Message)
         /\ Top.at = "midi" => Top.messages # << >>
         /\ Top.messages # << >> => /\ Head(Top.messages) \in Message
                                    /\ Tail(Top.messages) \in Seq(Message)
<1>1. depth \in Frames /\ depth \in 1 .. depth
  BY DEF TypeInv, TypeOK, Frames
<1>2. Top \in Frame /\ Top.first < Sent
  BY <1>1 DEF TypeInv, TypeOK, Top
<1>3. Top.at = "midi" => Top.messages # << >>
  BY <1>1 DEF TypeInv, HasMessage, Top
<1>4. Top.messages \in Seq(Message) /\ Top.first \in Packets
  BY <1>2 DEF Frame
<1>5. ASSUME Top.messages # << >>
      PROVE  Head(Top.messages) \in Message /\ Tail(Top.messages) \in Seq(Message)
  BY <1>4, <1>5
<1> QED
  BY <1>1, <1>2, <1>3, <1>4, <1>5

LEMMA NoFrameType == NoFrame \in Frame
<1>1. << >> \in Seq(Message) /\ 0 \in Packets
  BY PacketsFacts
<1> QED
  BY <1>1 DEF NoFrame, Frame

LEMMA InitType == Init => TypeInv
<1> SUFFICES ASSUME Init PROVE TypeInv
  OBVIOUS
<1>1. UsbOK
  <2>1. << >> \in Seq(HALVES) /\ Len(<< >>) = 0 /\ 0 <= 2 * REPORTS
    BY HidOutAssumption
  <2> QED
    BY <2>1, PacketsFacts DEF Init, UsbOK
<1>2. FramesOK
  BY NoFrameType, HidOutAssumption DEF Init, FramesOK
<1>3. LogOK
  <2>1. /\ << >> \in Seq(Packets \X (Packets \cup {NONE}))
        /\ << >> \in Seq(MessageIds)
    OBVIOUS
  <2> QED
    BY <2>1 DEF Init, LogOK
<1>4. HasMessage
  BY DEF Init, HasMessage
<1> QED
  BY <1>1, <1>2, <1>3, <1>4, TypeParts DEF TypeInv

\* Replacing the innermost frame by one of the same packet.
LEMMA SetTopType ==
  ASSUME TypeInv, depth > 0, NEW f \in Frame, SetTop(f), f.first = Top.first,
         f.at = "midi" => f.messages # << >>, depth' = depth, content' = content,
         selected' \in {"out", "midi"}
  PROVE  FramesOK' /\ HasMessage'
<1>1. depth \in Frames /\ depth \in 1 .. depth /\ 1 .. depth \subseteq Frames
  <2>1. depth \in 0 .. MAX_NESTED /\ MAX_NESTED \in Nat
    BY HidOutAssumption DEF TypeInv, TypeOK
  <2> QED
    BY <2>1 DEF Frames
<1>2. frame' = [frame EXCEPT ![depth] = f] /\ frame \in [Frames -> Frame]
  BY DEF SetTop, TypeInv, TypeOK
<1>3. \A d \in 1 .. depth : frame'[d] = IF d = depth THEN f ELSE frame[d]
  BY <1>1, <1>2
<1>4. \A d \in 1 .. depth - 1 : d \in 1 .. depth /\ d # depth
  BY <1>1 DEF Frames
<1>5. frame' \in [Frames -> Frame]
  BY <1>1, <1>2
<1>6. \A d \in 1 .. depth : frame'[d].first < Sent'
  BY <1>1, <1>3, TopType DEF TypeInv, TypeOK, Sent
<1>7. \A d \in 1 .. depth - 1 : frame'[d].open
  BY <1>3, <1>4 DEF TypeInv, TypeOK
<1>8. HasMessage'
  BY <1>3 DEF TypeInv, HasMessage
<1> QED
  BY <1>5, <1>6, <1>7, <1>8 DEF FramesOK, TypeInv, TypeOK

LEMMA HostType ==
  ASSUME TypeInv, HostSend \/ HostFetch \/ UNCHANGED vars
  PROVE  TypeInv'
<1>1. CASE HostSend
  <2>1. PICK half \in HALVES : content' = Append(content, half)
    BY <1>1 DEF HostSend
  <2>2. /\ content' \in Seq(HALVES) /\ Sent' = Sent + 1 /\ Sent \in Nat
        /\ Sent < 2 * REPORTS
    BY <1>1, <2>1 DEF HostSend, TypeInv, TypeOK, Sent
  <2>3. Sent \in Packets
    BY <2>2, HidOutAssumption DEF Packets
  <2>4. UsbOK'
    BY <1>1, <2>2, <2>3, HidOutAssumption DEF UsbOK, HostSend, TypeInv, TypeOK, Sent
  <2>5. \A d \in 1 .. depth : frame[d].first \in Int
    <3>1. \A d \in 1 .. depth : d \in Frames
      BY HidOutAssumption DEF TypeInv, TypeOK, Frames
    <3>2. \A d \in 1 .. depth : frame[d] \in Frame
      BY <3>1 DEF TypeInv, TypeOK
    <3>3. ASSUME NEW f \in Frame PROVE f.first \in Int
      <4>1. f.first \in Packets
        BY DEF Frame
      <4> QED
        BY <4>1, HidOutAssumption DEF Packets
    <3> QED
      BY <3>2, <3>3
  <2>6. FramesOK'
    BY <1>1, <2>2, <2>5 DEF FramesOK, HostSend, TypeInv, TypeOK
  <2>7. LogOK' /\ HasMessage'
    BY <1>1 DEF LogOK, HasMessage, HostSend, TypeInv, TypeOK
  <2> QED
    BY <2>4, <2>6, <2>7 DEF TypeInv, TypeOK, UsbOK, FramesOK, LogOK
<1>2. CASE HostFetch
  BY <1>2 DEF TypeInv, TypeOK, HasMessage, HostFetch, Sent
<1>3. CASE UNCHANGED vars
  BY <1>3 DEF TypeInv, TypeOK, HasMessage, vars, usbVars, Sent
<1> QED
  BY <1>1, <1>2, <1>3

LEMMA TickType ==
  ASSUME TypeInv, Tick
  PROVE  TypeInv'
<1>1. Enter
  BY DEF Tick, TickIdle, TickAck, TickRead
<1>2. LogOK'
  BY <1>1 DEF Enter, LogOK, TypeInv, TypeOK
<1>3. UsbOK'
  <2>1. CASE TickIdle
    BY <2>1 DEF TickIdle, Enter, UsbOK, TypeInv, TypeOK, Sent
  <2>2. CASE TickAck
    BY <2>2 DEF TickAck, Enter, UsbOK, TypeInv, TypeOK, Sent
  <2>3. CASE TickRead
    BY <2>3 DEF TickRead, Enter, UsbOK, TypeInv, TypeOK, Sent
  <2> QED
    BY <2>1, <2>2, <2>3 DEF Tick
<1>4. FramesOK' /\ HasMessage'
  <2>1. CASE TickIdle \/ TickAck
    BY <1>1, <2>1 DEF TickIdle, TickAck, Enter, FramesOK, HasMessage, TypeInv, TypeOK, Sent
  <2>2. CASE TickRead
    <3> DEFINE f == [NoFrame EXCEPT !.first = bank]
    <3>1. f \in Frame /\ f.first = bank /\ f.at = "second" /\ bank < Sent
      BY <2>2, NoFrameType DEF NoFrame, Frame, TypeInv, TypeOK, TickRead
    <3> HIDE DEF f
    <3>2. /\ depth' = depth + 1 /\ depth \in Nat /\ depth < MAX_NESTED
          /\ frame' = [frame EXCEPT ![depth + 1] = f] /\ content' = content
          /\ selected' = "out" /\ (depth > 0 => frame[depth].open)
      BY <1>1, <2>2 DEF TickRead, Enter, InterruptsOn, TypeInv, TypeOK, f
    <3>3. depth + 1 \in Frames /\ depth' \in 0 .. MAX_NESTED
      BY <3>2, HidOutAssumption DEF Frames
    <3>4. frame' \in [Frames -> Frame]
      BY <3>1, <3>2, <3>3 DEF TypeInv, TypeOK
    <3>5. \A d \in 1 .. depth + 1 :
            /\ d \in Frames
            /\ frame'[d] = IF d = depth + 1 THEN f ELSE frame[d]
            /\ d # depth + 1 => d \in 1 .. depth
      <4>1. \A d \in 1 .. depth + 1 : d \in Frames /\ (d # depth + 1 => d \in 1 .. depth)
        BY <3>2, HidOutAssumption DEF Frames
      <4> QED
        BY <3>2, <3>3, <4>1 DEF TypeInv, TypeOK
    <3>6. \A d \in 1 .. depth + 1 : frame'[d].first < Sent'
      BY <3>1, <3>2, <3>5 DEF TypeInv, TypeOK, Sent
    <3>7. \A d \in 1 .. depth : frame'[d].open
      <4>1. \A d \in 1 .. depth : d \in 1 .. depth + 1 /\ d # depth + 1
        BY <3>2
      <4>2. \A d \in 1 .. depth : d = depth \/ d \in 1 .. depth - 1
        BY <3>2
      <4> QED
        BY <3>2, <3>5, <4>1, <4>2 DEF TypeInv, TypeOK
    <3>8. HasMessage'
      BY <3>1, <3>2, <3>5 DEF HasMessage, TypeInv
    <3>9. depth' - 1 = depth
      BY <3>2
    <3> QED
      BY <3>2, <3>3, <3>4, <3>6, <3>7, <3>8, <3>9 DEF FramesOK
  <2> QED
    BY <2>1, <2>2 DEF Tick
<1> QED
  BY <1>2, <1>3, <1>4 DEF TypeInv, TypeOK, UsbOK, FramesOK, LogOK

LEMMA UsbUnchanged ==
  ASSUME TypeInv, UNCHANGED <<content, full, bank, midi_full>>,
         unread' = unread \/ unread' = FALSE
  PROVE  UsbOK'
<1>1. CASE unread' = unread
  BY <1>1 DEF TypeInv, TypeOK, UsbOK, Sent
<1>2. CASE unread' = FALSE
  BY <1>2 DEF TypeInv, TypeOK, UsbOK, Sent
<1> QED
  BY <1>1, <1>2

LEMMA LogUnchanged ==
  ASSUME TypeInv, UNCHANGED <<processed, delivered, nested>>, late' \in {late, TRUE}
  PROVE  LogOK'
BY DEF TypeInv, TypeOK, LogOK

\* A frame that goes on to another place, with other messages to do.
LEMMA FrameMoves ==
  ASSUME NEW f \in Frame, NEW a \in {"second", "process", "midi"},
         NEW ms \in Seq(Message)
  PROVE  /\ [f EXCEPT !.at = a] \in Frame
         /\ [f EXCEPT !.at = a, !.messages = ms] \in Frame
         /\ [f EXCEPT !.open = TRUE, !.messages = ms] \in Frame
BY DEF Frame

LEMMA ReadType ==
  ASSUME TypeInv, ReadSecond \/ SecondLate
  PROVE  TypeInv'
<1>1. /\ depth > 0 /\ depth' = depth /\ content' = content /\ selected' = selected
      /\ UNCHANGED <<delivered, nested, full, bank, midi_full>>
  BY DEF ReadSecond, SecondLate, usbVars
<1>2. Top \in Frame /\ Top.first \in Packets /\ Top.first < Sent
  BY <1>1, TopType
<1>3. PICK ms : /\ ms \in Seq(Message)
                /\ SetTop([Top EXCEPT !.at = "process", !.messages = ms])
  <2>1. CASE ReadSecond
    <3>1. bank < Sent /\ bank \in Packets
      BY <2>1 DEF ReadSecond, TypeInv, TypeOK
    <3>2. content[bank + 1] \in HALVES
      BY <3>1, PacketsFacts DEF TypeInv, TypeOK, Sent
    <3>3. From(bank, content[bank + 1]) \in Seq(Message)
      BY <3>1, <3>2, FromType, HidOutAssumption DEF Kinds
    <3>4. PICK ms \in Parse(Top.first, From(bank, content[bank + 1])) :
            SetTop([Top EXCEPT !.at = "process", !.messages = ms])
      BY <2>1 DEF ReadSecond
    <3>5. ms \in Seq(Message)
      BY <1>2, <3>3, ParseType DEF TypeInv
    <3> QED
      BY <3>4, <3>5
  <2>2. CASE SecondLate
    <3>1. PICK half \in HALVES : \E ms \in Parse(Top.first, From(NONE, half)) :
            SetTop([Top EXCEPT !.at = "process", !.messages = ms])
      BY <2>2 DEF SecondLate
    <3>2. From(NONE, half) \in Seq(Message)
      BY FromType, HidOutAssumption DEF Kinds
    <3>3. PICK ms \in Parse(Top.first, From(NONE, half)) :
            SetTop([Top EXCEPT !.at = "process", !.messages = ms])
      BY <3>1
    <3>4. ms \in Seq(Message)
      BY <1>2, <3>2, ParseType DEF TypeInv
    <3> QED
      BY <3>3, <3>4
  <2> QED
    BY <2>1, <2>2
<1> DEFINE f == [Top EXCEPT !.at = "process", !.messages = ms]
<1>4. f \in Frame /\ f.first = Top.first /\ f.at = "process"
  BY <1>2, <1>3, FrameMoves DEF Frame
<1> HIDE DEF f
<1>5. FramesOK' /\ HasMessage'
  BY <1>1, <1>3, <1>4, SetTopType DEF f, TypeInv, TypeOK
<1>6. UsbOK'
  BY <1>1, UsbUnchanged DEF ReadSecond, SecondLate, usbVars
<1>7. LogOK'
  <2>1. PICK p \in Packets \cup {NONE} : processed' = Append(processed, <<Top.first, p>>)
    BY DEF ReadSecond, SecondLate, TypeInv, TypeOK
  <2>2. <<Top.first, p>> \in Packets \X (Packets \cup {NONE})
    BY <1>2
  <2> HIDE DEF Top
  <2>3. processed' \in Seq(Packets \X (Packets \cup {NONE}))
    BY <2>1, <2>2 DEF TypeInv, TypeOK
  <2>4. late' \in BOOLEAN
    BY DEF ReadSecond, SecondLate, TypeInv, TypeOK
  <2> QED
    BY <1>1, <2>3, <2>4 DEF LogOK, TypeInv, TypeOK
<1> QED
  BY <1>5, <1>6, <1>7 DEF TypeInv, TypeOK, UsbOK, FramesOK, LogOK

LEMMA MessageType ==
  ASSUME TypeInv, LedMessage \/ MidiEmpty \/ MidiSelect \/ MidiWrite \/ MidiLate \/ MidiAstray
  PROVE  TypeInv'
<1>1. depth > 0 /\ depth' = depth /\ content' = content /\ bank' = bank
  BY DEF LedMessage, Doing, MidiEmpty, MidiSelect, MidiWrite, MidiLate, MidiAstray, usbVars
<1>2. /\ Top \in Frame /\ Top.messages \in Seq(Message)
      /\ Top.messages # << >> /\ Tail(Top.messages) \in Seq(Message)
      /\ Head(Top.messages) \in Message
  BY <1>1, TopType DEF LedMessage, Doing, MidiEmpty, MidiSelect, MidiWrite, MidiLate, MidiAstray
<1>3. PICK f \in Frame : /\ SetTop(f) /\ f.first = Top.first
                         /\ f.at = "midi" => f.messages # << >>
  <2>1. CASE LedMessage
    <3> DEFINE g == [Top EXCEPT !.open = TRUE, !.messages = Tail(@)]
    <3>1. g \in Frame /\ g.first = Top.first /\ g.at = Top.at
      BY <1>2 DEF Frame
    <3>2. SetTop(g) /\ Top.at = "process"
      BY <2>1 DEF LedMessage, Doing
    <3> QED
      BY <3>1, <3>2
  <2>2. CASE MidiSelect
    <3> DEFINE g == [Top EXCEPT !.at = "midi"]
    <3>1. g \in Frame /\ g.first = Top.first /\ g.messages # << >>
      BY <1>2 DEF Frame
    <3>2. SetTop(g)
      BY <2>2 DEF MidiSelect
    <3> QED
      BY <3>1, <3>2
  <2>3. CASE MidiWrite \/ MidiLate \/ MidiAstray
    <3> DEFINE g == [Top EXCEPT !.at = "process", !.messages = Tail(@)]
    <3>1. g \in Frame /\ g.first = Top.first /\ g.at = "process"
      BY <1>2 DEF Frame
    <3>2. SetTop(g)
      BY <2>3 DEF MidiWrite, MidiLate, MidiAstray, MidiDone
    <3> QED
      BY <3>1, <3>2
  <2>4. CASE MidiEmpty
    <3> DEFINE g == [Top EXCEPT !.messages = Tail(@)]
    <3>1. g \in Frame /\ g.first = Top.first /\ g.at = Top.at
      BY <1>2 DEF Frame
    <3>2. SetTop(g) /\ Top.at = "process"
      BY <2>4 DEF MidiEmpty, Doing
    <3> QED
      BY <3>1, <3>2
  <2> QED
    BY <2>1, <2>2, <2>3, <2>4
<1>4. selected' \in {"out", "midi"}
  BY DEF LedMessage, MidiEmpty, MidiSelect, MidiWrite, MidiLate, MidiAstray, TypeInv, TypeOK
<1>5. FramesOK' /\ HasMessage'
  BY <1>1, <1>3, <1>4, SetTopType
<1>6. UsbOK'
  <2>1. CASE LedMessage \/ MidiEmpty \/ MidiSelect \/ MidiLate
    BY <2>1 DEF LedMessage, MidiEmpty, MidiSelect, MidiLate, usbVars, UsbOK, TypeInv, TypeOK, Sent
  <2>2. CASE MidiWrite
    BY <2>2 DEF MidiWrite, UsbOK, TypeInv, TypeOK, Sent
  <2>3. CASE MidiAstray
    <3>1. UNCHANGED <<content, bank, midi_full>>
      BY <2>3 DEF MidiAstray
    <3>2. CASE full' = full
      <4>1. unread' = unread
        BY <2>3, <3>2 DEF MidiAstray, TypeInv, TypeOK
      <4> QED
        BY <3>1, <3>2, <4>1, UsbUnchanged
    <3>3. CASE full' = FALSE
      <4>1. unread' = FALSE
        BY <2>3, <3>3 DEF MidiAstray
      <4> QED
        BY <3>1, <3>3, <4>1 DEF UsbOK, TypeInv, TypeOK
    <3> QED
      BY <2>3, <3>2, <3>3 DEF MidiAstray
  <2> QED
    BY <2>1, <2>2, <2>3
<1>7. LogOK'
  <2>1. CASE MidiWrite
    <3>1. delivered \in Seq(MessageIds) /\ Id(Head(Top.messages)) \in MessageIds
      BY <1>2, IdType, TypeParts DEF TypeInv, LogOK
    <3>2. delivered' \in Seq(MessageIds)
      BY <2>1, <3>1 DEF MidiWrite
    <3> QED
      BY <2>1, <3>2 DEF MidiWrite, LogOK, TypeInv, TypeOK
  <2>2. CASE ~ MidiWrite
    BY <2>2, LogUnchanged DEF LedMessage, MidiEmpty, MidiSelect, MidiLate, MidiAstray
  <2> QED
    BY <2>1, <2>2
<1> QED
  BY <1>5, <1>6, <1>7 DEF TypeInv, TypeOK, UsbOK, FramesOK, LogOK

LEMMA ClearType ==
  ASSUME TypeInv, Clear
  PROVE  TypeInv'
<1>1. /\ depth > 0 /\ depth \in Frames /\ depth \in 0 .. MAX_NESTED /\ MAX_NESTED \in Nat
      /\ depth' = depth - 1 /\ frame' = [frame EXCEPT ![depth] = NoFrame]
      /\ content' = content /\ selected' = selected
  BY TopType, HidOutAssumption DEF Clear, SetTop, TypeInv, TypeOK
<1>2. \A d \in 1 .. depth - 1 : d \in Frames /\ d # depth /\ d \in 1 .. depth
  BY <1>1 DEF Frames
<1>3. \A d \in 1 .. depth - 1 : frame'[d] = frame[d]
  BY <1>1, <1>2 DEF TypeInv, TypeOK
<1>4. frame' \in [Frames -> Frame]
  BY <1>1, NoFrameType DEF TypeInv, TypeOK
<1>5. \A d \in 1 .. (depth - 1) - 1 : d \in 1 .. depth - 1
  BY <1>1
<1>6. depth - 1 \in 0 .. MAX_NESTED
  BY <1>1
<1>7. FramesOK'
  BY <1>1, <1>2, <1>3, <1>4, <1>5, <1>6 DEF FramesOK, TypeInv, TypeOK, Sent
<1>8. HasMessage'
  BY <1>1, <1>2, <1>3 DEF TypeInv, HasMessage
<1>9. UsbOK' /\ LogOK'
  BY DEF Clear, UsbOK, LogOK, TypeInv, TypeOK, Sent
<1> QED
  BY <1>7, <1>8, <1>9 DEF TypeInv, TypeOK, UsbOK, FramesOK, LogOK

LEMMA TypeStep == TypeInv /\ [Next]_vars => TypeInv'
BY HostType, TickType, ReadType, MessageType, ClearType DEF Next, HandlerStep

THEOREM TypeInvariant == Spec => []TypeInv
<1>1. Init => TypeInv
  BY InitType
<1>2. TypeInv /\ [Next]_vars => TypeInv'
  BY TypeStep
<1> QED
  BY <1>1, <1>2, PTL DEF Spec

\* The banks, the handlers and the record of what they did keep to their
\* ranges, however deep interrupts go.
THEOREM TypeCorrect == Spec => []TypeOK
<1>1. TypeInv => TypeOK
  BY DEF TypeInv
<1> QED
  BY <1>1, TypeInvariant, PTL

-----------------------------------------------------------------------------
(* Reports in order.                                                       *)

\* What holds while no interrupt came inside another and no wait timed out.
\* There is one handler at most; it got the first half of the next report, then
\* keeps the second in the bank, read, until it is done; and a message it sends
\* on has the endpoint selected for it.
OneHandler ==
  /\ depth \in {0, 1}
  /\ InOrder
  /\ unread => bank = Sent - 1
  /\ depth = 1 /\ Top.at = "second" =>
       Top.first = 2 * Len(processed) /\ (full => unread)
  /\ depth = 1 /\ Top.at # "second" => full /\ ~ unread
  /\ depth = 1 /\ Top.at = "midi" => selected = "midi"

OrderInv == Regular => OneHandler

LEMMA Halves ==
  ASSUME NEW S, NEW s \in Seq(S), NEW p \in S, NEW n, n = Len(s),
         p = <<2 * n, 2 * n + 1>>,
         \A i \in 1 .. n : s[i] = <<2 * i - 2, 2 * i - 1>>
  PROVE  \A i \in 1 .. Len(Append(s, p)) :
            Append(s, p)[i] = <<2 * i - 2, 2 * i - 1>>
<1> SUFFICES ASSUME NEW i \in 1 .. Len(Append(s, p))
             PROVE  Append(s, p)[i] = <<2 * i - 2, 2 * i - 1>>
  OBVIOUS
<1>1. Len(Append(s, p)) = n + 1
  OBVIOUS
<1>2. CASE i = n + 1
  <2>1. Append(s, p)[i] = p /\ 2 * n = 2 * i - 2 /\ 2 * n + 1 = 2 * i - 1
    BY <1>2
  <2> QED
    BY <2>1
<1>3. CASE i # n + 1
  <2>1. i \in 1 .. n
    BY <1>1, <1>3
  <2>2. Append(s, p)[i] = s[i]
    BY <1>1, <2>1
  <2> QED
    BY <2>1, <2>2
<1> QED
  BY <1>2, <1>3

LEMMA OrderInit == Init => OrderInv
<1> SUFFICES ASSUME Init PROVE OneHandler
  BY DEF OrderInv
<1>1. /\ Len(<< >>) = 0 /\ processed = << >> /\ Sent = 0 /\ depth = 0 /\ ~ unread
  BY DEF Init, Sent
<1>2. InHand = 0 /\ InBank = 0
  BY <1>1 DEF InHand, InBank
<1>3. InOrder
  BY <1>1, <1>2 DEF InOrder
<1> QED
  BY <1>1, <1>3 DEF OneHandler

LEMMA OrderStep == TypeInv /\ OrderInv /\ [Next]_vars => OrderInv'
<1> SUFFICES ASSUME TypeInv, OrderInv, [Next]_vars, Regular' PROVE OneHandler'
  BY DEF OrderInv
<1>1. /\ depth \in Nat /\ MAX_NESTED \in Nat /\ Sent \in Nat /\ Len(processed) \in Nat
      /\ bank \in Int
  BY HidOutAssumption, PacketsFacts DEF TypeInv, TypeOK, Sent
<1>2. Regular /\ OneHandler
  <2>1. ~ nested /\ ~ late
    BY DEF Regular, Next, HostSend, HostFetch, Tick, TickIdle, TickAck, TickRead, Enter,
           HandlerStep, ReadSecond, SecondLate, LedMessage, MidiEmpty, MidiSelect, MidiWrite,
           MidiLate, MidiAstray, Clear, vars, usbVars, TypeInv, TypeOK
  <2> QED
    BY <2>1 DEF Regular, OrderInv
<1>3. /\ depth \in {0, 1} /\ InOrder
      /\ Sent = 2 * Len(processed) + InHand + InBank
  BY <1>2 DEF OneHandler, InOrder
<1>4. CASE HostSend
  <2>1. /\ Sent' = Sent + 1 /\ ~ full /\ ~ unread /\ bank' = Sent /\ full' /\ unread'
        /\ UNCHANGED <<selected, depth, frame, processed>>
    BY <1>4 DEF HostSend, Sent, TypeInv, TypeOK
  <2>2. /\ Top' = Top /\ InHand' = InHand /\ InBank = 0 /\ InBank' = 1
    BY <2>1 DEF Top, InHand, InBank
  <2>3. InOrder'
    BY <1>1, <1>3, <2>1, <2>2 DEF InOrder, InHand
  <2>4. ~ (depth = 1 /\ Top.at # "second")
    BY <1>2, <2>1 DEF OneHandler
  <2> QED
    BY <1>1, <1>2, <2>1, <2>2, <2>3, <2>4 DEF OneHandler
<1>5. CASE HostFetch \/ UNCHANGED vars
  <2>1. UNCHANGED <<content, full, bank, unread, selected, depth, frame, processed>>
    BY <1>5 DEF HostFetch, vars, usbVars
  <2>2. Top' = Top /\ InHand' = InHand /\ InBank' = InBank /\ Sent' = Sent
    BY <2>1 DEF Top, InHand, InBank, Sent
  <2> QED
    BY <1>2, <2>1, <2>2 DEF OneHandler, InOrder
<1>6. CASE Tick
  <2>1. depth = 0 /\ content' = content /\ processed' = processed
    <3>1. Enter
      BY <1>6 DEF Tick, TickIdle, TickAck, TickRead
    <3>2. nested' = (nested \/ depth > 0) /\ ~ nested'
      BY <3>1 DEF Enter, Regular
    <3>3. ~ depth > 0
      BY <3>2
    <3>4. depth = 0
      BY <1>1, <3>3
    <3> QED
      BY <3>1, <3>4 DEF Enter
  <2>2. InHand = 0 /\ Sent' = Sent
    BY <2>1 DEF InHand, Sent
  <2>3. CASE TickIdle \/ TickAck
    <3>1. /\ depth' = 0 /\ unread' = unread /\ bank' = bank
      BY <2>1, <2>3 DEF TickIdle, TickAck
    <3>2. InHand' = 0 /\ InBank' = InBank
      BY <3>1 DEF InHand, InBank
    <3> QED
      BY <1>2, <2>1, <2>2, <3>1, <3>2 DEF OneHandler, InOrder
  <2>4. CASE TickRead
    <3>1. /\ depth' = 1 /\ ~ full' /\ ~ unread' /\ unread /\ bank' = bank
          /\ frame' = [frame EXCEPT ![1] = [NoFrame EXCEPT !.first = bank]]
      BY <2>1, <2>4 DEF TickRead
    <3>2. 1 \in Frames /\ frame \in [Frames -> Frame]
      BY HidOutAssumption DEF Frames, TypeInv, TypeOK
    <3>3. Top' = [NoFrame EXCEPT !.first = bank]
      BY <3>1, <3>2 DEF Top
    <3>4. Top'.at = "second" /\ Top'.first = bank
      BY <3>3 DEF NoFrame
    <3>5. InHand' = 1 /\ InBank' = 0 /\ InBank = 1
      BY <3>1, <3>4 DEF InHand, InBank
    <3>6. bank = Sent - 1 /\ Sent = 2 * Len(processed) + 1
      BY <1>1, <1>2, <1>3, <2>2, <3>1, <3>5 DEF OneHandler
    <3>7. Top'.first = 2 * Len(processed)'
      BY <1>1, <2>1, <3>4, <3>6
    <3>8. InOrder'
      BY <1>1, <1>3, <2>1, <2>2, <3>5, <3>6 DEF InOrder
    <3> QED
      BY <3>1, <3>4, <3>7, <3>8 DEF OneHandler
  <2> QED
    BY <1>6, <2>3, <2>4 DEF Tick
<1>7. CASE HandlerStep
  <2>1. /\ depth = 1 /\ 1 \in Frames /\ content' = content /\ bank' = bank
        /\ Sent' = Sent
    <3>1. depth > 0 /\ content' = content /\ bank' = bank
      BY <1>7 DEF HandlerStep, ReadSecond, SecondLate, LedMessage, Doing, MidiEmpty, MidiSelect,
                  MidiWrite, MidiLate, MidiAstray, Clear, usbVars
    <3>2. depth = 1 /\ 1 \in Frames
      BY <1>3, <3>1, HidOutAssumption DEF Frames
    <3> QED
      BY <3>1, <3>2 DEF Sent
  <2>2. Top \in Frame
    BY <2>1, TopType
  <2>3. ASSUME NEW f, SetTop(f), depth' = depth PROVE Top' = f
    BY <2>1, <2>3 DEF SetTop, Top, TypeInv, TypeOK
  <2>4. CASE ReadSecond
    <3>1. /\ Top.at = "second" /\ full /\ unread' = FALSE /\ full' = full /\ depth' = 1
          /\ processed' = Append(processed, <<Top.first, bank>>)
      BY <2>1, <2>4 DEF ReadSecond
    <3>2. PICK ms : SetTop([Top EXCEPT !.at = "process", !.messages = ms])
      BY <2>4 DEF ReadSecond
    <3>3. Top'.at = "process"
      BY <2>1, <2>2, <2>3, <3>1, <3>2 DEF Frame
    <3>4. InHand = 1 /\ InHand' = 0 /\ InBank = 1 /\ InBank' = 0
      BY <1>2, <2>1, <3>1, <3>3 DEF InHand, InBank, OneHandler
    <3>5. /\ Sent = 2 * Len(processed) + 2 /\ bank = 2 * Len(processed) + 1
          /\ Top.first = 2 * Len(processed)
      BY <1>1, <1>2, <1>3, <2>1, <3>1, <3>4 DEF OneHandler
    <3> DEFINE p == <<Top.first, bank>>
               S == Packets \X (Packets \cup {NONE})
    <3>6. p \in S /\ processed \in Seq(S) /\ p = <<2 * Len(processed), 2 * Len(processed) + 1>>
      BY <2>1, <3>5, TopType DEF TypeInv, TypeOK
    <3>7. \A i \in 1 .. Len(processed) : processed[i] = <<2 * i - 2, 2 * i - 1>>
      BY <1>3 DEF InOrder
    <3>8. processed' = Append(processed, p)
      BY <3>1
    <3> HIDE DEF p, S
    <3>9. \A i \in 1 .. Len(processed)' : processed'[i] = <<2 * i - 2, 2 * i - 1>>
      <4>1. \A i \in 1 .. Len(Append(processed, p)) :
               Append(processed, p)[i] = <<2 * i - 2, 2 * i - 1>>
        BY <3>6, <3>7, Halves, ZenonT(30)
      <4> QED
        BY <3>8, <4>1
    <3>10. Len(processed)' = Len(processed) + 1
      BY <3>6, <3>8
    <3>11. InOrder'
      BY <1>1, <2>1, <3>4, <3>5, <3>9, <3>10 DEF InOrder
    <3> QED
      BY <3>1, <3>3, <3>11 DEF OneHandler
  <2>5. CASE SecondLate \/ MidiLate
    BY <2>5 DEF SecondLate, MidiLate, Regular
  <2>6. CASE MidiAstray
    BY <1>2, <2>1, <2>6 DEF MidiAstray, OneHandler
  <2>7. CASE LedMessage \/ MidiEmpty \/ MidiSelect \/ MidiWrite
    <3>1. PICK f : /\ SetTop(f) /\ f.at \in {"process", "midi"}
                   /\ f.at = "midi" => selected' = "midi"
      <4>1. CASE LedMessage
        <5> DEFINE g == [Top EXCEPT !.open = TRUE, !.messages = Tail(@)]
        <5>1. g.at = "process" /\ SetTop(g)
          BY <2>2, <4>1 DEF LedMessage, Doing, Frame
        <5> QED
          BY <5>1
      <4>2. CASE MidiSelect
        <5> DEFINE g == [Top EXCEPT !.at = "midi"]
        <5>1. g.at = "midi" /\ SetTop(g) /\ selected' = "midi"
          BY <2>2, <4>2 DEF MidiSelect, Frame
        <5> QED
          BY <5>1
      <4>3. CASE MidiWrite
        <5> DEFINE g == [Top EXCEPT !.at = "process", !.messages = Tail(@)]
        <5>1. g.at = "process" /\ SetTop(g)
          BY <2>2, <4>3 DEF MidiWrite, MidiDone, Frame
        <5> QED
          BY <5>1
      <4>4. CASE MidiEmpty
        <5> DEFINE g == [Top EXCEPT !.messages = Tail(@)]
        <5>1. g.at = "process" /\ SetTop(g)
          BY <2>2, <4>4 DEF MidiEmpty, Doing, Frame
        <5> QED
          BY <5>1
      <4> QED
        BY <2>7, <4>1, <4>2, <4>3, <4>4
    <3>2. /\ Top.at # "second" /\ depth' = depth /\ processed' = processed
          /\ full' = full /\ unread' = unread
      BY <2>7 DEF LedMessage, Doing, MidiEmpty, MidiSelect, MidiWrite, usbVars
    <3>3. Top' = f
      BY <2>3, <3>1, <3>2
    <3>4. InHand = 0 /\ InHand' = 0 /\ InBank' = InBank
      BY <3>1, <3>2, <3>3 DEF InHand, InBank
    <3>5. InOrder'
      BY <1>3, <2>1, <3>2, <3>4 DEF InOrder
    <3>6. full /\ ~ unread
      BY <1>2, <2>1, <3>2 DEF OneHandler
    <3> QED
      BY <2>1, <3>1, <3>2, <3>3, <3>5, <3>6 DEF OneHandler
  <2>8. CASE Clear
    <3>1. Top.at = "process" /\ depth' = 0 /\ processed' = processed
      BY <2>1, <2>8 DEF Clear
    <3>2. ~ unread /\ ~ unread'
      BY <1>2, <2>1, <2>8, <3>1 DEF Clear, OneHandler
    <3>3. InHand = 0 /\ InHand' = 0 /\ InBank = 0 /\ InBank' = 0
      BY <3>1, <3>2 DEF InHand, InBank
    <3>4. InOrder'
      BY <1>3, <2>1, <3>1, <3>3 DEF InOrder
    <3> QED
      BY <3>1, <3>2, <3>4 DEF OneHandler
  <2> QED
    BY <1>7, <2>4, <2>5, <2>6, <2>7, <2>8 DEF HandlerStep
<1> QED
  BY <1>4, <1>5, <1>6, <1>7 DEF Next

\* Reports are processed whole, once and in order, although a message in one
\* makes the handler acknowledge another endpoint's bank.
THEOREM OrderCorrect == Spec => []ReportsInOrder
<1>1. Init => OrderInv
  BY OrderInit
<1>2. TypeInv /\ OrderInv /\ [Next]_vars => OrderInv'
  BY OrderStep
<1>3. OrderInv => ReportsInOrder
  BY DEF OrderInv, OneHandler, ReportsInOrder
<1> QED
  BY <1>1, <1>2, <1>3, TypeInvariant, PTL DEF Spec

-----------------------------------------------------------------------------
(* MIDI messages in order: queues of messages.                             *)

RangeOf(s) == {s[i] : i \in 1 .. Len(s)}

InPlace(ms) == \A i, j \in 1 .. Len(ms) : i < j => Before(Id(ms[i]), Id(ms[j]))

\* The messages ms are still to be done of those due, the others are in d, and
\* all of them are in the order of their ids.
Queue(d, due, ms) ==
  /\ Ascending(d) /\ InPlace(ms)
  /\ \A i \in 1 .. Len(d), j \in 1 .. Len(ms) : Before(d[i], Id(ms[j]))
  /\ MidiIds(ms) \subseteq due
  /\ RangeOf(d) = due \ MidiIds(ms)

LEMMA IdFacts ==
  /\ \A m \in Message : /\ Id(m) \in MessageIds
                        /\ Id(m)[1] = m.packet /\ Id(m)[2] = m.place
  /\ \A id \in MessageIds : ~ Before(id, id)
<1>1. \A m \in Message : Id(m)[1] = m.packet /\ Id(m)[2] = m.place
  BY DEF Id
<1>2. \A id \in MessageIds : id[1] \in Int /\ id[2] \in Int
  <2>1. \A p \in Packets \cup {NONE} : p \in Int
    BY PacketsFacts DEF NONE
  <2>2. \A id \in MessageIds : id[1] \in Packets \cup {NONE} /\ id[2] \in Nat
    BY DEF MessageIds
  <2> QED
    BY <2>1, <2>2
<1>3. \A id \in MessageIds : ~ Before(id, id)
  BY <1>2 DEF Before
<1> QED
  BY <1>1, <1>3, IdType

LEMMA TailFacts ==
  ASSUME NEW S, NEW s \in Seq(S), s # << >>
  PROVE  /\ Head(s) \in S /\ Tail(s) \in Seq(S) /\ Head(s) = s[1]
         /\ Len(s) \in Nat \ {0} /\ Len(Tail(s)) = Len(s) - 1
         /\ \A i \in 1 .. Len(s) - 1 : Tail(s)[i] = s[i + 1]
OBVIOUS

LEMMA MidiIdsElement ==
  ASSUME NEW ms, NEW id
  PROVE  id \in MidiIds(ms) <=>
           \E n \in 1 .. Len(ms) : ms[n].kind = "midi" /\ id = Id(ms[n])
BY DEF MidiIds

\* The head's id is the only one that is not in the tail.
LEMMA MidiIdsTail ==
  ASSUME NEW ms \in Seq(Message), ms # << >>
  PROVE  MidiIds(ms) = MidiIds(Tail(ms)) \cup
                       (IF Head(ms).kind = "midi" THEN {Id(Head(ms))} ELSE {})
<1> DEFINE t == Tail(ms)
<1>1. /\ Head(ms) = ms[1] /\ Len(ms) \in Nat \ {0} /\ Len(t) = Len(ms) - 1
      /\ \A i \in 1 .. Len(ms) - 1 : t[i] = ms[i + 1]
  BY TailFacts
<1> HIDE DEF t
<1>2. ASSUME NEW id
      PROVE  id \in MidiIds(ms) <=>
               id \in MidiIds(t) \/ (Head(ms).kind = "midi" /\ id = Id(Head(ms)))
  <2>1. ASSUME NEW n \in 1 .. Len(ms), ms[n].kind = "midi", id = Id(ms[n])
        PROVE  id \in MidiIds(t) \/ (Head(ms).kind = "midi" /\ id = Id(Head(ms)))
    <3>1. CASE n = 1
      BY <1>1, <2>1, <3>1
    <3>2. CASE n # 1
      <4>1. n - 1 \in 1 .. Len(t) /\ n - 1 \in 1 .. Len(ms) - 1 /\ (n - 1) + 1 = n
        BY <1>1, <3>2
      <4>2. t[n - 1] = ms[n]
        BY <1>1, <4>1
      <4> QED
        BY <2>1, <4>1, <4>2, MidiIdsElement
    <3> QED
      BY <3>1, <3>2
  <2>2. ASSUME NEW n \in 1 .. Len(t), t[n].kind = "midi", id = Id(t[n])
        PROVE  id \in MidiIds(ms)
    <3>1. n + 1 \in 1 .. Len(ms) /\ t[n] = ms[n + 1]
      BY <1>1
    <3> QED
      BY <2>2, <3>1, MidiIdsElement
  <2>3. ASSUME Head(ms).kind = "midi", id = Id(Head(ms))
        PROVE  id \in MidiIds(ms)
    <3>1. 1 \in 1 .. Len(ms)
      BY <1>1
    <3> QED
      BY <1>1, <2>3, <3>1, MidiIdsElement
  <2> QED
    BY <2>1, <2>2, <2>3, MidiIdsElement
<1>3. MidiIds(ms) = MidiIds(t) \cup
                    (IF Head(ms).kind = "midi" THEN {Id(Head(ms))} ELSE {})
  BY <1>2
<1> QED
  BY <1>3 DEF t

LEMMA TailInPlace ==
  ASSUME NEW ms \in Seq(Message), ms # << >>, InPlace(ms)
  PROVE  /\ InPlace(Tail(ms))
         /\ \A i \in 1 .. Len(Tail(ms)) : Before(Id(Head(ms)), Id(Tail(ms)[i]))
         /\ Id(Head(ms)) \notin MidiIds(Tail(ms))
<1> DEFINE t == Tail(ms)
<1>1. /\ Head(ms) = ms[1] /\ Len(ms) \in Nat \ {0} /\ Len(t) = Len(ms) - 1
      /\ \A i \in 1 .. Len(ms) - 1 : t[i] = ms[i + 1]
      /\ Head(ms) \in Message /\ t \in Seq(Message)
  BY TailFacts
<1> HIDE DEF t
<1>2. \A i \in 1 .. Len(t) : t[i] = ms[i + 1] /\ i + 1 \in 1 .. Len(ms) /\ 1 < i + 1
  BY <1>1
<1>3. InPlace(t)
  <2> SUFFICES ASSUME NEW i \in 1 .. Len(t), NEW j \in 1 .. Len(t), i < j
               PROVE  Before(Id(t[i]), Id(t[j]))
    BY DEF InPlace
  <2>1. i + 1 < j + 1
    BY <1>1
  <2> QED
    BY <1>2, <2>1 DEF InPlace
<1>4. \A i \in 1 .. Len(t) : Before(Id(Head(ms)), Id(t[i]))
  <2>1. 1 \in 1 .. Len(ms)
    BY <1>1
  <2> QED
    BY <1>1, <1>2, <2>1 DEF InPlace
<1>5. Id(Head(ms)) \notin MidiIds(t)
  <2>1. Id(Head(ms)) \in MessageIds
    BY <1>1, IdFacts
  <2> QED
    BY <1>4, <2>1, IdFacts, MidiIdsElement
<1> QED
  BY <1>3, <1>4, <1>5 DEF t

\* A message that is not MIDI is done.
LEMMA QueueSkips ==
  ASSUME NEW d \in Seq(MessageIds), NEW due, NEW ms \in Seq(Message),
         Queue(d, due, ms), ms # << >>, Head(ms).kind # "midi"
  PROVE  Queue(d, due, Tail(ms))
<1> DEFINE t == Tail(ms)
<1>1. InPlace(ms) /\ MidiIds(t) = MidiIds(ms)
  BY MidiIdsTail DEF Queue
<1>2. InPlace(t)
  BY <1>1, TailInPlace
<1>3. \A i \in 1 .. Len(d), j \in 1 .. Len(t) : Before(d[i], Id(t[j]))
  <2>1. \A j \in 1 .. Len(t) : j + 1 \in 1 .. Len(ms) /\ t[j] = ms[j + 1]
    BY TailFacts
  <2> HIDE DEF t
  <2> QED
    BY <2>1 DEF Queue
<1> HIDE DEF t
<1>4. Queue(d, due, t)
  BY <1>1, <1>2, <1>3 DEF Queue
<1> QED
  BY <1>4 DEF t

\* A MIDI message goes out.
LEMMA QueueDelivers ==
  ASSUME NEW d \in Seq(MessageIds), NEW due, NEW ms \in Seq(Message),
         Queue(d, due, ms), ms # << >>, Head(ms).kind = "midi"
  PROVE  Queue(Append(d, Id(Head(ms))), due, Tail(ms))
<1> DEFINE t == Tail(ms)
           h == Id(Head(ms))
           e == Append(d, h)
<1>1. /\ InPlace(t) /\ \A i \in 1 .. Len(t) : Before(h, Id(t[i]))
      /\ h \notin MidiIds(t) /\ MidiIds(ms) = MidiIds(t) \cup {h}
  BY MidiIdsTail, TailInPlace DEF Queue
<1>2. /\ \A j \in 1 .. Len(t) : j + 1 \in 1 .. Len(ms) /\ t[j] = ms[j + 1]
      /\ 1 \in 1 .. Len(ms) /\ h = Id(ms[1])
  BY TailFacts
<1>3. /\ Len(e) = Len(d) + 1 /\ Len(d) \in Nat /\ e[Len(d) + 1] = h
      /\ \A i \in 1 .. Len(d) : e[i] = d[i]
  <2>1. h \in MessageIds
    BY TailFacts, IdFacts
  <2> HIDE DEF h
  <2> QED
    BY <2>1
<1> HIDE DEF t, h, e
<1>4. \A i \in 1 .. Len(e) : i \in 1 .. Len(d) \/ i = Len(d) + 1
  BY <1>3
<1>5. \A i \in 1 .. Len(d) : Before(d[i], h)
  BY <1>2 DEF Queue
<1>6. Ascending(e)
  <2> SUFFICES ASSUME NEW i \in 1 .. Len(e), NEW j \in 1 .. Len(e), i < j
               PROVE  Before(e[i], e[j])
    BY DEF Ascending
  <2>1. i \in 1 .. Len(d)
    BY <1>3
  <2>2. CASE j \in 1 .. Len(d)
    BY <1>3, <2>1, <2>2 DEF Queue, Ascending
  <2>3. CASE j = Len(d) + 1
    BY <1>3, <1>5, <2>1, <2>3
  <2> QED
    BY <1>4, <2>2, <2>3
<1>7. \A i \in 1 .. Len(e), j \in 1 .. Len(t) : Before(e[i], Id(t[j]))
  <2>1. \A i \in 1 .. Len(d), j \in 1 .. Len(t) : Before(d[i], Id(t[j]))
    BY <1>2 DEF Queue
  <2> QED
    BY <1>1, <1>3, <1>4, <2>1
<1>8. RangeOf(e) = RangeOf(d) \cup {h}
  <2>1. \A i \in 1 .. Len(d) : i \in 1 .. Len(e)
    BY <1>3
  <2>2. Len(d) + 1 \in 1 .. Len(e)
    BY <1>3
  <2> QED
    BY <1>3, <1>4, <2>1, <2>2 DEF RangeOf
<1>9. MidiIds(t) \subseteq due /\ RangeOf(e) = due \ MidiIds(t)
  BY <1>1, <1>8 DEF Queue
<1>10. Queue(e, due, t)
  BY <1>1, <1>6, <1>7, <1>9 DEF Queue
<1> QED
  BY <1>10 DEF e, t, h

\* Messages that come after all that were due are now due, too.
LEMMA QueueFills ==
  ASSUME NEW d \in Seq(MessageIds), NEW due \in SUBSET MessageIds,
         NEW ms \in Seq(Message), Queue(d, due, << >>), InPlace(ms),
         \A id \in due : \A i \in 1 .. Len(ms) : Before(id, Id(ms[i]))
  PROVE  Queue(d, due \cup MidiIds(ms), ms)
<1>1. MidiIds(<< >>) = {}
  BY DEF MidiIds
<1>2. RangeOf(d) = due
  BY <1>1 DEF Queue
<1>3. due \cap MidiIds(ms) = {}
  BY IdFacts, MidiIdsElement
<1>4. \A i \in 1 .. Len(d) : d[i] \in due
  BY <1>2 DEF RangeOf
<1> QED
  BY <1>2, <1>3, <1>4 DEF Queue

-----------------------------------------------------------------------------
(* The messages of a report.                                               *)

OfPacket(ms, p) == \A i \in 1 .. Len(ms) : Id(ms[i])[1] = p

LEMMA FromInPlace ==
  ASSUME NEW p \in Packets, NEW kinds \in Seq(Kinds)
  PROVE  LET s == From(p, kinds) IN
         s \in Seq(Message) /\ InPlace(s) /\ OfPacket(s, p)
<1> DEFINE s == From(p, kinds)
<1>1. s \in Seq(Message) /\ Len(s) = Len(kinds) /\ Len(s) \in Nat
  BY FromType DEF From
<1>2. \A i \in 1 .. Len(s) : Id(s[i])[1] = p /\ Id(s[i])[2] = i
  BY <1>1 DEF From, Id
<1> HIDE DEF s
<1>3. InPlace(s)
  BY <1>1, <1>2 DEF InPlace, Before
<1>4. OfPacket(s, p)
  BY <1>2 DEF OfPacket
<1> QED
  BY <1>1, <1>3, <1>4 DEF s

LEMMA ConcatFacts ==
  ASSUME NEW S, NEW a \in Seq(S), NEW b \in Seq(S)
  PROVE  /\ Len(a \o b) = Len(a) + Len(b) /\ Len(a) \in Nat /\ Len(b) \in Nat
         /\ \A i \in 1 .. Len(a) : (a \o b)[i] = a[i]
         /\ \A i \in 1 .. Len(b) : (a \o b)[Len(a) + i] = b[i]
         /\ \A i \in 1 .. Len(a \o b) : i \in 1 .. Len(a) \/ i - Len(a) \in 1 .. Len(b)
OBVIOUS

\* The two halves of a report, one after the other.
LEMMA ReportInPlace ==
  ASSUME NEW p \in Nat, NEW q \in Nat, p < q,
         NEW a \in Seq(Message), InPlace(a), OfPacket(a, p),
         NEW b \in Seq(Message), InPlace(b), OfPacket(b, q)
  PROVE  /\ a \o b \in Seq(Message) /\ InPlace(a \o b)
         /\ \A i \in 1 .. Len(a \o b) : Id((a \o b)[i])[1] \in {p, q}
         /\ MidiIds(a \o b) = MidiIds(a) \cup MidiIds(b)
<1> DEFINE c == a \o b
           n == Len(a)
<1>1. /\ Len(c) = n + Len(b) /\ n \in Nat /\ Len(b) \in Nat
      /\ \A i \in 1 .. n : c[i] = a[i]
      /\ \A i \in 1 .. Len(b) : c[n + i] = b[i]
      /\ c \in Seq(Message)
  BY ConcatFacts
<1> HIDE DEF c
<1>2. \A i \in 1 .. Len(c) :
        \/ i \in 1 .. n /\ c[i] = a[i]
        \/ i - n \in 1 .. Len(b) /\ c[i] = b[i - n]
  <2> SUFFICES ASSUME NEW i \in 1 .. Len(c), i \notin 1 .. n
               PROVE  i - n \in 1 .. Len(b) /\ c[i] = b[i - n]
    BY <1>1
  <2>1. i - n \in 1 .. Len(b) /\ n + (i - n) = i
    BY <1>1
  <2> QED
    BY <1>1, <2>1
<1>3. InPlace(c)
  <2> SUFFICES ASSUME NEW i \in 1 .. Len(c), NEW j \in 1 .. Len(c), i < j
               PROVE  Before(Id(c[i]), Id(c[j]))
    BY DEF InPlace
  <2>1. CASE i \in 1 .. n /\ j \in 1 .. n
    BY <1>1, <2>1 DEF InPlace
  <2>2. CASE i \in 1 .. n /\ j \notin 1 .. n
    <3>1. c[i] = a[i]
      BY <1>1, <2>2
    <3>2. j - n \in 1 .. Len(b) /\ c[j] = b[j - n]
      BY <1>2, <2>2
    <3>3. Id(c[i])[1] = p /\ Id(c[j])[1] = q
      BY <2>2, <3>1, <3>2 DEF OfPacket
    <3> QED
      BY <3>3 DEF Before
  <2>3. CASE i \notin 1 .. n
    <3>1. j \notin 1 .. n /\ i - n < j - n
      BY <1>1, <2>3
    <3>2. /\ i - n \in 1 .. Len(b) /\ c[i] = b[i - n]
          /\ j - n \in 1 .. Len(b) /\ c[j] = b[j - n]
      BY <1>2, <2>3, <3>1
    <3> QED
      BY <3>1, <3>2 DEF InPlace
  <2> QED
    BY <2>1, <2>2, <2>3
<1>4. \A i \in 1 .. Len(c) : Id(c[i])[1] \in {p, q}
  BY <1>2 DEF OfPacket
<1>5. ASSUME NEW id
      PROVE  id \in MidiIds(c) <=> id \in MidiIds(a) \/ id \in MidiIds(b)
  <2>1. ASSUME NEW i \in 1 .. Len(c), c[i].kind = "midi", id = Id(c[i])
        PROVE  id \in MidiIds(a) \/ id \in MidiIds(b)
    BY <1>2, <2>1, MidiIdsElement
  <2>2. ASSUME NEW i \in 1 .. n, a[i].kind = "midi", id = Id(a[i])
        PROVE  id \in MidiIds(c)
    <3>1. i \in 1 .. Len(c) /\ c[i] = a[i]
      BY <1>1
    <3> QED
      BY <2>2, <3>1, MidiIdsElement
  <2>3. ASSUME NEW i \in 1 .. Len(b), b[i].kind = "midi", id = Id(b[i])
        PROVE  id \in MidiIds(c)
    <3>1. n + i \in 1 .. Len(c) /\ c[n + i] = b[i]
      BY <1>1
    <3> QED
      BY <2>3, <3>1, MidiIdsElement
  <2> QED
    BY <2>1, <2>2, <2>3, MidiIdsElement
<1>6. MidiIds(c) = MidiIds(a) \cup MidiIds(b)
  BY <1>5
<1> QED
  BY <1>1, <1>3, <1>4, <1>6 DEF c

-----------------------------------------------------------------------------
(* MIDI messages in order: the handler.                                    *)

Todo == IF depth = 0 THEN << >> ELSE Top.messages

Due == UNION {MidiOf(p) : p \in 0 .. 2 * Len(processed) - 1}

\* What holds while no interrupt came inside another and no wait timed out: the
\* handler has messages to do once it has both halves, and waits for the MIDI
\* endpoint with a MIDI message at their head.
MidiState ==
  /\ Queue(delivered, Due, Todo)
  /\ depth > 0 /\ Top.at = "second" => Todo = << >>
  /\ depth > 0 /\ Top.at = "midi" => Head(Todo).kind = "midi"

MidiInv == Regular => MidiState

LEMMA MidiInvInOrder == MidiInv => MidiInOrder
<1> SUFFICES ASSUME MidiInv, Regular
             PROVE  Ascending(delivered) /\ RangeOf(delivered) = Due \ Waiting
  BY Zenon DEF MidiInOrder, Due, RangeOf
<1>1. Waiting = MidiIds(Todo)
  <2>1. MidiIds(<< >>) = {}
    BY DEF MidiIds
  <2> QED
    BY <2>1 DEF Waiting, Todo
<1> QED
  BY <1>1 DEF MidiInv, MidiState, Queue

\* The messages due have ids, and none is of a report not processed.
LEMMA DueFacts ==
  ASSUME TypeInv, InOrder
  PROVE  /\ Due \in SUBSET MessageIds
         /\ \A id \in Due : id[1] \in 0 .. 2 * Len(processed) - 1
<1>1. /\ Len(processed) \in Nat /\ Sent \in Nat /\ 2 * Len(processed) <= Sent
      /\ Sent <= 2 * REPORTS /\ REPORTS \in Nat
  BY HidOutAssumption DEF InOrder, InHand, InBank, TypeInv, TypeOK, Sent
<1>2. ASSUME NEW p \in 0 .. 2 * Len(processed) - 1, NEW id \in MidiOf(p)
      PROVE  id \in MessageIds /\ id[1] = p
  <2>1. p \in Packets /\ p + 1 \in 1 .. Sent
    BY <1>1 DEF Packets
  <2>2. content[p + 1] \in Seq(Kinds)
    BY <2>1, HidOutAssumption DEF TypeInv, TypeOK, Sent, Kinds
  <2> DEFINE s == From(p, content[p + 1])
  <2>3. s \in Seq(Message) /\ \A i \in 1 .. Len(s) : Id(s[i])[1] = p
    BY <2>1, <2>2, FromInPlace DEF OfPacket
  <2>4. PICK n \in 1 .. Len(s) : id = Id(s[n])
    BY MidiIdsElement DEF MidiOf
  <2>5. s[n] \in Message
    BY <2>3
  <2> QED
    BY <2>3, <2>4, <2>5, IdFacts
<1> QED
  BY <1>2 DEF Due

LEMMA TodoFacts ==
  ASSUME TypeInv
  PROVE  /\ Todo \in Seq(Message) /\ delivered \in Seq(MessageIds)
         /\ depth > 0 => Todo = Top.messages
<1>1. depth \in Nat
  BY HidOutAssumption DEF TypeInv, TypeOK
<1>2. CASE depth = 0
  <2>1. << >> \in Seq(Message)
    OBVIOUS
  <2> QED
    BY <1>2, <2>1 DEF Todo, TypeInv, TypeOK
<1>3. CASE depth > 0
  BY <1>3, TopType DEF Todo, TypeInv, TypeOK
<1> QED
  BY <1>1, <1>2, <1>3

LEMMA DueUnchanged ==
  ASSUME TypeInv, InOrder, processed' = processed,
         content' = content \/ (\E half : content' = Append(content, half))
  PROVE  Due' = Due
<1>1. /\ Len(processed) \in Nat /\ Sent \in Nat /\ 2 * Len(processed) <= Sent
      /\ content \in Seq(HALVES) /\ Sent = Len(content)
  BY DEF InOrder, InHand, InBank, TypeInv, TypeOK, Sent
<1>2. ASSUME NEW p \in 0 .. 2 * Len(processed) - 1
      PROVE  content'[p + 1] = content[p + 1]
  <2>1. p + 1 \in 1 .. Len(content)
    BY <1>1
  <2>2. ASSUME NEW half, content' = Append(content, half)
        PROVE  content'[p + 1] = content[p + 1]
    BY <1>1, <2>1, <2>2
  <2> QED
    BY <2>2
<1>3. \A p \in 0 .. 2 * Len(processed) - 1 :
        MidiIds(From(p, content'[p + 1])) = MidiIds(From(p, content[p + 1]))
  BY <1>2
<1> HIDE DEF MidiIds, From
<1> QED
  BY <1>3 DEF Due, MidiOf

\* Both halves of the next report are in the handler's hands: its messages are
\* due and to be done.
LEMMA MidiRead ==
  ASSUME TypeInv, OneHandler, MidiState, ReadSecond
  PROVE  MidiState'
<1> DEFINE n == Len(processed)
           a == From(2 * n, content[2 * n + 1])
           b == From(2 * n + 1, content[2 * n + 2])
<1>1. /\ depth = 1 /\ depth' = 1 /\ Top.at = "second" /\ full /\ content' = content
      /\ delivered' = delivered /\ processed' = Append(processed, <<Top.first, bank>>)
      /\ 1 \in Frames /\ frame \in [Frames -> Frame] /\ Top \in Frame
  <2>1. depth > 0 /\ depth' = depth /\ depth \in {0, 1}
    BY DEF ReadSecond, OneHandler
  <2>2. depth = 1 /\ depth' = 1
    BY <2>1
  <2>3. Top \in Frame /\ 1 \in Frames
    BY <2>2, TopType
  <2> QED
    BY <2>2, <2>3 DEF ReadSecond, TypeInv, TypeOK
<1>2. /\ n \in Nat /\ Len(processed)' = n + 1
      /\ bank = 2 * n + 1 /\ Top.first = 2 * n /\ Sent = 2 * n + 2
      /\ 2 * n \in Packets /\ 2 * n + 1 \in Packets
  <2>1. unread /\ InHand = 1 /\ InBank = 1
    BY <1>1 DEF OneHandler, InHand, InBank
  <2>2. Sent = 2 * n + 2 /\ n \in Nat
    BY <2>1 DEF OneHandler, InOrder, TypeInv, TypeOK
  <2>3. bank = 2 * n + 1 /\ Top.first = 2 * n
    BY <1>1, <2>1, <2>2 DEF OneHandler
  <2>4. Sent <= 2 * REPORTS /\ REPORTS \in Nat
    BY HidOutAssumption DEF TypeInv, TypeOK, Sent
  <2>5. 2 * n \in Packets /\ 2 * n + 1 \in Packets
    BY <2>2, <2>4 DEF Packets
  <2>6. Len(processed)' = n + 1
    BY <1>1 DEF TypeInv, TypeOK
  <2> QED
    BY <2>2, <2>3, <2>5, <2>6
<1>3. /\ content[2 * n + 1] \in Seq(Kinds) /\ content[2 * n + 2] \in Seq(Kinds)
  <2>1. /\ content \in Seq(HALVES) /\ Len(content) = 2 * n + 2
    BY <1>2 DEF TypeInv, TypeOK, Sent
  <2>2. content[2 * n + 1] \in HALVES /\ content[2 * n + 2] \in HALVES
    BY <1>2, <2>1
  <2> QED
    BY <2>2, HidOutAssumption DEF Kinds
<1> DEFINE ms == a \o b
<1>4. SetTop([Top EXCEPT !.at = "process", !.messages = ms])
  <2>1. PICK r \in Parse(Top.first, From(bank, content[bank + 1])) :
          SetTop([Top EXCEPT !.at = "process", !.messages = r])
    BY DEF ReadSecond
  <2>2. (2 * n) % 2 = 0 /\ (2 * n + 1) + 1 = 2 * n + 2
    BY <1>2
  <2>3. r = ms
    BY <1>2, <2>1, <2>2 DEF Parse
  <2> QED
    BY <2>1, <2>3
<1>5. /\ a \in Seq(Message) /\ InPlace(a) /\ OfPacket(a, 2 * n)
      /\ b \in Seq(Message) /\ InPlace(b) /\ OfPacket(b, 2 * n + 1)
  BY <1>2, <1>3, FromInPlace
<1>6. MidiOf(2 * n) = MidiIds(a) /\ MidiOf(2 * n + 1) = MidiIds(b)
  <2>1. (2 * n + 1) + 1 = 2 * n + 2
    BY <1>2
  <2> QED
    BY <2>1 DEF MidiOf
<1> HIDE DEF a, b
<1>7. /\ ms \in Seq(Message) /\ InPlace(ms)
      /\ \A i \in 1 .. Len(ms) : Id(ms[i])[1] \in {2 * n, 2 * n + 1}
      /\ MidiIds(ms) = MidiIds(a) \cup MidiIds(b)
  <2>1. 2 * n \in Nat /\ 2 * n + 1 \in Nat /\ 2 * n < 2 * n + 1
    BY <1>2
  <2> QED
    BY <1>5, <2>1, ReportInPlace
<1> HIDE DEF ms
<1>8. Due' = Due \cup MidiIds(ms)
  <2>1. Due' = UNION {MidiOf(p) : p \in 0 .. 2 * (n + 1) - 1}
    BY <1>1, <1>2 DEF Due, MidiOf
  <2>2. 0 .. 2 * (n + 1) - 1 = (0 .. 2 * n - 1) \cup {2 * n, 2 * n + 1}
    BY <1>2
  <2> QED
    BY <1>6, <1>7, <2>1, <2>2 DEF Due
<1>9. Queue(delivered, Due \cup MidiIds(ms), ms)
  <2>1. Queue(delivered, Due, << >>)
    BY <1>1 DEF MidiState
  <2>2. Due \in SUBSET MessageIds /\ \A id \in Due : id[1] \in 0 .. 2 * n - 1
    BY DueFacts DEF OneHandler
  <2>3. \A id \in Due : \A i \in 1 .. Len(ms) : Before(id, Id(ms[i]))
    <3> SUFFICES ASSUME NEW id \in Due, NEW i \in 1 .. Len(ms)
                 PROVE  id[1] < Id(ms[i])[1]
      BY DEF Before
    <3>1. id[1] \in 0 .. 2 * n - 1
      BY <2>2
    <3>2. Id(ms[i])[1] = 2 * n \/ Id(ms[i])[1] = 2 * n + 1
      BY <1>7
    <3> QED
      BY <1>2, <3>1, <3>2
  <2> QED
    BY <1>7, <2>1, <2>2, <2>3, QueueFills, TodoFacts
<1>10. Top'.at = "process" /\ Todo' = ms
  <2>1. Top' = [Top EXCEPT !.at = "process", !.messages = ms]
    BY <1>1, <1>4 DEF SetTop, Top
  <2> QED
    BY <1>1, <2>1 DEF Todo, Frame
<1> QED
  BY <1>1, <1>8, <1>9, <1>10 DEF MidiState

\* A message is done: the handler goes on to the next.
LEMMA MidiNext ==
  ASSUME TypeInv, OneHandler, MidiState, LedMessage \/ MidiEmpty \/ MidiSelect \/ MidiWrite
  PROVE  MidiState'
<1>1. /\ depth = 1 /\ depth' = 1 /\ content' = content /\ processed' = processed
      /\ 1 \in Frames /\ frame \in [Frames -> Frame] /\ Top \in Frame
  BY HidOutAssumption, TopType
     DEF LedMessage, Doing, MidiEmpty, MidiSelect, MidiWrite, usbVars, OneHandler, TypeInv, TypeOK, Frames
<1>2. Due' = Due
  BY <1>1, DueUnchanged DEF OneHandler
<1>3. ASSUME NEW f, SetTop(f)
      PROVE  Top' = f /\ Todo' = f.messages
  BY <1>1, <1>3 DEF SetTop, Top, Todo
<1>4. Todo = Top.messages /\ Todo \in Seq(Message) /\ delivered \in Seq(MessageIds)
  BY <1>1, TodoFacts
<1>5. Todo # << >>
  BY <1>1, <1>4, TopType DEF LedMessage, Doing, MidiEmpty, MidiSelect, MidiWrite
<1>6. Queue(delivered, Due, Todo)
  BY DEF MidiState
<1>7. CASE LedMessage
  <2>1. /\ SetTop([Top EXCEPT !.open = TRUE, !.messages = Tail(@)])
        /\ Top.at = "process" /\ Head(Todo).kind = "led" /\ delivered' = delivered
    BY <1>4, <1>7 DEF LedMessage, Doing
  <2>2. Top'.at = "process" /\ Todo' = Tail(Todo)
    <3> DEFINE g == [Top EXCEPT !.open = TRUE, !.messages = Tail(@)]
    <3>1. g.at = "process" /\ g.messages = Tail(Todo)
      BY <1>1, <1>4, <2>1 DEF Frame
    <3>2. SetTop(g)
      BY <2>1
    <3> HIDE DEF g
    <3> QED
      BY <1>3, <3>1, <3>2
  <2>3. Queue(delivered, Due, Tail(Todo))
    BY <1>4, <1>5, <1>6, <2>1, QueueSkips
  <2> QED
    BY <1>2, <2>1, <2>2, <2>3 DEF MidiState
<1>8. CASE MidiSelect
  <2>1. /\ SetTop([Top EXCEPT !.at = "midi"]) /\ Head(Todo).kind = "midi"
        /\ delivered' = delivered
    BY <1>4, <1>8 DEF MidiSelect, Doing
  <2>2. Top'.at = "midi" /\ Todo' = Todo
    BY <1>1, <1>3, <1>4, <2>1 DEF Frame
  <2> QED
    BY <1>2, <1>6, <2>1, <2>2 DEF MidiState
<1>9. CASE MidiWrite
  <2>1. /\ SetTop([Top EXCEPT !.at = "process", !.messages = Tail(@)])
        /\ Top.at = "midi" /\ delivered' = Append(delivered, Id(Head(Todo)))
    BY <1>4, <1>9 DEF MidiWrite, MidiDone
  <2>2. Top'.at = "process" /\ Todo' = Tail(Todo)
    <3> DEFINE g == [Top EXCEPT !.at = "process", !.messages = Tail(@)]
    <3>1. g.at = "process" /\ g.messages = Tail(Todo)
      BY <1>1, <1>4 DEF Frame
    <3>2. SetTop(g)
      BY <2>1
    <3> HIDE DEF g
    <3> QED
      BY <1>3, <3>1, <3>2
  <2>3. Head(Todo).kind = "midi"
    BY <1>1, <2>1 DEF MidiState
  <2>4. Queue(Append(delivered, Id(Head(Todo))), Due, Tail(Todo))
    BY <1>4, <1>5, <1>6, <2>3, QueueDelivers
  <2> QED
    BY <1>2, <2>1, <2>2, <2>4 DEF MidiState
<1>10. CASE MidiEmpty
  <2>1. /\ SetTop([Top EXCEPT !.messages = Tail(@)])
        /\ Top.at = "process" /\ Head(Todo).kind = "empty" /\ delivered' = delivered
    BY <1>4, <1>10 DEF MidiEmpty, Doing
  <2>2. Top'.at = "process" /\ Todo' = Tail(Todo)
    <3> DEFINE g == [Top EXCEPT !.messages = Tail(@)]
    <3>1. g.at = "process" /\ g.messages = Tail(Todo)
      BY <1>1, <1>4, <2>1 DEF Frame
    <3>2. SetTop(g)
      BY <2>1
    <3> HIDE DEF g
    <3> QED
      BY <1>3, <3>1, <3>2
  <2>3. Queue(delivered, Due, Tail(Todo))
    BY <1>4, <1>5, <1>6, <2>1, QueueSkips
  <2> QED
    BY <1>2, <2>1, <2>2, <2>3 DEF MidiState
<1> QED
  BY <1>7, <1>8, <1>9, <1>10

LEMMA MidiStep == TypeInv /\ OrderInv /\ MidiInv /\ [Next]_vars => MidiInv'
<1> SUFFICES ASSUME TypeInv, OrderInv, MidiInv, [Next]_vars, Regular' PROVE MidiState'
  BY DEF MidiInv
<1>1. Regular
  BY DEF Regular, Next, HostSend, HostFetch, Tick, TickIdle, TickAck, TickRead, Enter,
         HandlerStep, ReadSecond, SecondLate, LedMessage, MidiEmpty, MidiSelect, MidiWrite,
         MidiLate, MidiAstray, Clear, vars, usbVars, TypeInv, TypeOK
<1>2. OneHandler /\ MidiState /\ InOrder /\ depth \in {0, 1}
  BY <1>1 DEF OrderInv, MidiInv, OneHandler
<1>3. ASSUME UNCHANGED <<depth, frame, processed, delivered>>,
             content' = content \/ \E half : content' = Append(content, half)
      PROVE  MidiState'
  <2>1. Due' = Due
    BY <1>2, <1>3, DueUnchanged
  <2>2. Todo' = Todo /\ Top' = Top
    BY <1>3 DEF Todo, Top
  <2> QED
    BY <1>2, <1>3, <2>1, <2>2 DEF MidiState
<1>4. CASE HostSend \/ HostFetch \/ UNCHANGED vars
  BY <1>3, <1>4 DEF HostSend, HostFetch, vars
<1>5. CASE Tick
  <2>1. depth = 0 /\ content' = content /\ UNCHANGED <<processed, delivered>>
    <3>1. Enter
      BY <1>5 DEF Tick, TickIdle, TickAck, TickRead
    <3>2. nested' = (nested \/ depth > 0) /\ ~ nested'
      BY <3>1 DEF Enter, Regular
    <3>3. ~ depth > 0
      BY <3>2
    <3>4. depth = 0
      BY <1>2, <3>3
    <3> QED
      BY <3>1, <3>4 DEF Enter
  <2>2. CASE TickIdle \/ TickAck
    BY <1>3, <2>1, <2>2 DEF TickIdle, TickAck
  <2>3. CASE TickRead
    <3>1. /\ depth' = 1
          /\ frame' = [frame EXCEPT ![1] = [NoFrame EXCEPT !.first = bank]]
      BY <2>1, <2>3 DEF TickRead
    <3>2. 1 \in Frames /\ frame \in [Frames -> Frame]
      BY HidOutAssumption DEF Frames, TypeInv, TypeOK
    <3>3. Top' = [NoFrame EXCEPT !.first = bank]
      BY <3>1, <3>2 DEF Top
    <3>4. Todo = << >> /\ Todo' = << >> /\ Top'.at = "second"
      BY <2>1, <3>1, <3>3 DEF Todo, NoFrame
    <3>5. Due' = Due
      BY <1>2, <2>1, DueUnchanged
    <3> QED
      BY <1>2, <2>1, <3>4, <3>5 DEF MidiState
  <2> QED
    BY <1>5, <2>2, <2>3 DEF Tick
<1>6. CASE ReadSecond
  BY <1>2, <1>6, MidiRead
<1>7. CASE LedMessage \/ MidiEmpty \/ MidiSelect \/ MidiWrite
  BY <1>2, <1>7, MidiNext
<1>8. CASE SecondLate \/ MidiLate
  BY <1>8 DEF SecondLate, MidiLate, Regular
<1>9. CASE MidiAstray
  <2>1. depth = 1 /\ Top.at = "midi" /\ selected = "out"
    BY <1>2, <1>9 DEF MidiAstray
  <2> QED
    BY <1>2, <2>1 DEF OneHandler
<1>10. CASE Clear
  <2>1. /\ depth = 1 /\ Top.messages = << >> /\ depth' = 0
        /\ UNCHANGED <<content, processed, delivered>>
    BY <1>2, <1>10 DEF Clear
  <2>2. Todo = << >> /\ Todo' = << >>
    BY <2>1 DEF Todo
  <2>3. Due' = Due
    BY <1>2, <2>1, DueUnchanged
  <2> QED
    BY <1>2, <2>1, <2>2, <2>3 DEF MidiState
<1> QED
  BY <1>4, <1>5, <1>6, <1>7, <1>8, <1>9, <1>10 DEF Next, HandlerStep

\* Every MIDI message of a report goes to the host once and in its place, as
\* far as the handler has come, whatever else the reports carry.
THEOREM MidiCorrect == Spec => []MidiInOrder
<1>1. Init => OrderInv
  BY OrderInit
<1>2. Init => MidiInv
  <2> SUFFICES ASSUME Init PROVE MidiState
    BY DEF MidiInv
  <2>1. processed = << >> /\ delivered = << >> /\ depth = 0 /\ Len(<< >>) = 0
    BY DEF Init
  <2>2. Todo = << >>
    BY <2>1 DEF Todo
  <2>3. Due = {}
    BY <2>1 DEF Due
  <2>4. RangeOf(<< >>) = {} /\ MidiIds(<< >>) = {}
    BY DEF RangeOf, MidiIds
  <2>5. Queue(<< >>, {}, << >>)
    BY <2>4 DEF Queue, Ascending, InPlace
  <2> QED
    BY <2>1, <2>2, <2>3, <2>5 DEF MidiState
<1> QED
  BY <1>1, <1>2, OrderStep, MidiStep, MidiInvInOrder, TypeInvariant, PTL DEF Spec

-----------------------------------------------------------------------------
(* Reports that do not set the LED.                                        *)

NoLed(ms) == \A i \in 1 .. Len(ms) : ms[i].kind # "led"

\* No handler turns interrupts on, so that none is interrupted.
NeverOpen ==
  /\ ~ nested /\ depth \in {0, 1}
  /\ \A d \in Frames : ~ frame[d].open /\ NoLed(frame[d].messages)

LEMMA ParseNoLed ==
  ASSUME HALVES \subseteq Seq(Kinds \ {"led"}), TypeOK,
         NEW first \in Packets, first < Sent, NEW p, NEW half \in HALVES,
         NEW ms \in Parse(first, From(p, half))
  PROVE  NoLed(ms)
<1>1. ASSUME NEW q, NEW h \in HALVES
      PROVE  /\ Len(From(q, h)) = Len(h) /\ Len(h) \in Nat
             /\ \A i \in 1 .. Len(h) : From(q, h)[i].kind # "led"
             /\ From(q, h) \in Seq([kind : Kinds, packet : {q}, place : Nat])
  <2>1. h \in Seq(Kinds \ {"led"})
    OBVIOUS
  <2>2. \A i \in 1 .. Len(h) : h[i] \in Kinds /\ h[i] # "led"
    BY <2>1
  <2> QED
    BY <2>1, <2>2 DEF From
<1>2. CASE first % 2 = 0
  <2> DEFINE a == From(first, content[first + 1])
             b == From(p, half)
  <2>1. content[first + 1] \in HALVES
    BY PacketsFacts DEF TypeOK, Sent
  <2>2. NoLed(a) /\ NoLed(b)
    BY <1>1, <2>1 DEF NoLed
  <2>3. \E S, T : a \in Seq(S) /\ b \in Seq(T)
    BY <1>1, <2>1
  <2>4. ms = a \o b
    BY <1>2 DEF Parse
  <2> HIDE DEF a, b
  <2>5. PICK S : a \in Seq(S) /\ b \in Seq(S)
    <3>1. PICK S, T : a \in Seq(S) /\ b \in Seq(T)
      BY <2>3
    <3>2. a \in Seq(S \cup T) /\ b \in Seq(S \cup T)
      BY <3>1
    <3> QED
      BY <3>2
  <2> QED
    BY <2>2, <2>4, <2>5 DEF NoLed
<1>3. CASE first % 2 # 0
  <2>1. PICK h \in HALVES : ms = From(NONE, h)
    BY <1>3 DEF Parse
  <2> QED
    BY <1>1, <2>1 DEF NoLed
<1> QED
  BY <1>2, <1>3

\* Nothing but a message for the LED turns interrupts on.
LEMMA NeverOpenStep ==
  ASSUME HALVES \subseteq Seq(Kinds \ {"led"}), TypeInv, NeverOpen, [Next]_vars
  PROVE  NeverOpen'
<1>0. /\ frame \in [Frames -> Frame] /\ depth \in Nat
      /\ ~ NoFrame.open /\ NoLed(NoFrame.messages)
  <2>1. frame \in [Frames -> Frame] /\ depth \in Nat
    BY HidOutAssumption DEF TypeInv, TypeOK
  <2>2. ~ NoFrame.open /\ NoFrame.messages = << >>
    BY DEF NoFrame
  <2> QED
    BY <2>1, <2>2 DEF NoLed
\* The innermost frame is replaced by one that is as quiet.
<1>1. ASSUME NEW f, SetTop(f), ~ f.open, NoLed(f.messages), UNCHANGED nested,
             depth' \in {0, 1}
      PROVE  NeverOpen'
  <2>1. \A d \in Frames : frame'[d] = f \/ frame'[d] = frame[d]
    BY <1>0, <1>1 DEF SetTop
  <2> QED
    BY <1>1, <2>1 DEF NeverOpen
<1>2. CASE HostSend \/ HostFetch \/ UNCHANGED vars
  BY <1>2 DEF HostSend, HostFetch, vars, NeverOpen
<1>3. CASE Tick
  <2>1. depth = 0 /\ Enter
    <3>1. Enter
      BY <1>3 DEF Tick, TickIdle, TickAck, TickRead
    <3>2. depth > 0 => depth \in Frames
      BY <1>0, HidOutAssumption DEF NeverOpen, Frames
    <3> QED
      BY <1>0, <3>1, <3>2 DEF Enter, InterruptsOn, NeverOpen
  <2>2. ~ nested'
    <3>1. ~ (depth > 0)
      BY <2>1
    <3> QED
      BY <2>1, <3>1, Zenon DEF Enter, NeverOpen
  <2>3. CASE UNCHANGED <<depth, frame>>
    BY <2>2, <2>3 DEF NeverOpen
  <2>4. CASE TickRead
    <3> DEFINE f == [NoFrame EXCEPT !.first = bank]
    <3>1. ~ f.open /\ NoLed(f.messages)
      <4>1. f.open = NoFrame.open /\ f.messages = NoFrame.messages
        BY DEF NoFrame
      <4> QED
        BY <1>0, <4>1
    <3>2. depth' = 1 /\ frame' = [frame EXCEPT ![1] = f]
      BY <2>1, <2>4 DEF TickRead
    <3> HIDE DEF f
    <3>3. \A d \in Frames : frame'[d] = f \/ frame'[d] = frame[d]
      BY <1>0, <3>2
    <3> QED
      BY <2>2, <3>1, <3>2, <3>3 DEF NeverOpen
  <2> QED
    BY <1>3, <2>3, <2>4 DEF Tick, TickIdle, TickAck
<1>4. CASE HandlerStep
  <2>1. /\ depth > 0 /\ depth \in {0, 1} /\ nested' = nested
        /\ Top \in Frame /\ Top.first \in Packets /\ Top.first < Sent
        /\ ~ Top.open /\ NoLed(Top.messages) /\ Top.messages \in Seq(Message)
    <3>1. depth > 0 /\ nested' = nested
      BY <1>4 DEF HandlerStep, ReadSecond, SecondLate, LedMessage, MidiEmpty, MidiSelect,
                  MidiWrite, MidiLate, MidiAstray, Clear, Doing
    <3>2. depth \in Frames
      BY <3>1, TopType
    <3> QED
      BY <3>1, <3>2, TopType DEF NeverOpen, Top
  <2>2. ASSUME NEW p, NEW half \in HALVES, NEW ms \in Parse(Top.first, From(p, half)),
               SetTop([Top EXCEPT !.at = "process", !.messages = ms]), depth' = depth
        PROVE  NeverOpen'
    <3> DEFINE f == [Top EXCEPT !.at = "process", !.messages = ms]
    <3>1. NoLed(ms)
      BY <2>1, <2>2, ParseNoLed DEF TypeInv
    <3>2. f.open = Top.open /\ f.messages = ms
      BY <2>1 DEF Frame
    <3> QED
      BY <1>1, <2>1, <2>2, <3>1, <3>2
  <2>3. CASE ReadSecond
    <3>1. content[bank + 1] \in HALVES
      <4>1. bank < Sent /\ bank \in Packets
        BY <2>3 DEF ReadSecond, TypeInv, TypeOK
      <4> QED
        BY <4>1, PacketsFacts DEF TypeInv, TypeOK, Sent
    <3>2. depth' = depth /\ \E ms \in Parse(Top.first, From(bank, content[bank + 1])) :
            SetTop([Top EXCEPT !.at = "process", !.messages = ms])
      BY <2>3 DEF ReadSecond
    <3> QED
      BY <2>2, <3>1, <3>2
  <2>4. CASE SecondLate
    <3>1. depth' = depth /\ \E half \in HALVES : \E ms \in Parse(Top.first, From(NONE, half)) :
            SetTop([Top EXCEPT !.at = "process", !.messages = ms])
      BY <2>4 DEF SecondLate
    <3> QED
      BY <2>2, <3>1
  <2>5. ~ LedMessage
    <3>1. ASSUME Top.messages # << >> PROVE Head(Top.messages).kind # "led"
      BY <2>1, <3>1 DEF NoLed
    <3> QED
      BY <3>1 DEF LedMessage, Doing
  <2>6. CASE MidiSelect
    <3> DEFINE f == [Top EXCEPT !.at = "midi"]
    <3>1. f.open = Top.open /\ f.messages = Top.messages
      BY <2>1 DEF Frame
    <3>2. SetTop(f) /\ depth' = depth
      BY <2>6 DEF MidiSelect
    <3> HIDE DEF f
    <3> QED
      BY <1>1, <2>1, <3>1, <3>2
  <2>7. CASE MidiWrite \/ MidiLate \/ MidiAstray
    <3> DEFINE f == [Top EXCEPT !.at = "process", !.messages = Tail(@)]
    <3>1. f.open = Top.open /\ f.messages = Tail(Top.messages)
      BY <2>1 DEF Frame
    <3>2. SetTop(f) /\ depth' = depth /\ Top.messages # << >>
      BY <2>1, <2>7, TopType DEF MidiWrite, MidiLate, MidiAstray, MidiDone
    <3>3. NoLed(Tail(Top.messages))
      BY <2>1, <3>2 DEF NoLed
    <3> HIDE DEF f
    <3> QED
      BY <1>1, <2>1, <3>1, <3>2, <3>3
  <2>8. CASE Clear
    BY <1>0, <1>1, <2>1, <2>8 DEF Clear
  <2>9. CASE MidiEmpty
    <3> DEFINE f == [Top EXCEPT !.messages = Tail(@)]
    <3>1. f.open = Top.open /\ f.messages = Tail(Top.messages)
      BY <2>1 DEF Frame
    <3>2. SetTop(f) /\ depth' = depth /\ Top.messages # << >>
      BY <2>9 DEF MidiEmpty, Doing
    <3>3. NoLed(Tail(Top.messages))
      BY <2>1, <3>2 DEF NoLed
    <3> HIDE DEF f
    <3> QED
      BY <1>1, <2>1, <3>1, <3>2, <3>3
  <2> QED
    BY <1>4, <2>3, <2>4, <2>5, <2>6, <2>7, <2>8, <2>9 DEF HandlerStep
<1> QED
  BY <1>2, <1>3, <1>4 DEF Next

\* GenericHID.c 152 is right as long as reports do not set the LED: messages
\* for the LED are the only cause of reports that are thrown away or put
\* together of halves of different ones, of whatever else reports consist.
THEOREM NoLedCorrect ==
  ASSUME HALVES \subseteq Seq(Kinds \ {"led"})
  PROVE  Spec => []EveryReportProcessed
<1>1. Init => NeverOpen
  <2> SUFFICES ASSUME Init PROVE NeverOpen
    OBVIOUS
  <2>1. \A d \in Frames : frame[d].open = FALSE /\ frame[d].messages = << >>
    BY DEF Init, NoFrame
  <2> QED
    BY <2>1 DEF Init, NeverOpen, NoLed
<1>2. TypeInv /\ NeverOpen /\ [Next]_vars => NeverOpen'
  BY NeverOpenStep
<1>3. NeverOpen /\ ReportsInOrder => EveryReportProcessed
  BY DEF NeverOpen, ReportsInOrder, Regular, EveryReportProcessed
<1> QED
  BY <1>1, <1>2, <1>3, TypeInvariant, OrderCorrect, PTL DEF Spec
=============================================================================
