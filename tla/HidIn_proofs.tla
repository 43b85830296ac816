---------------------------- MODULE HidIn_proofs ----------------------------
(* Proofs about HidIn for every set of modelled pads and dials, of values   *)
(* and messages, and for every number of clicks and re-enumerations.        *)
EXTENDS HidIn, SequenceTheorems, TLAPS

-----------------------------------------------------------------------------
(* Where things are in the buffer.                                         *)

LEMMA PadCellFacts ==
  ASSUME NEW p \in PADS
  PROVE  /\ p \in 0 .. 47
         /\ LowCell(p) \in PadCells /\ HighCell(p) \in PadCells
         /\ LowCell(p) \in Cells /\ HighCell(p) \in Cells
         /\ LowCell(p) \in 1 .. 95 /\ HighCell(p) \in 2 .. 96
BY PadAssumption DEF PadCells, Cells, LowCell, HighCell

LEMMA PadCellCase ==
  ASSUME NEW i \in PadCells
  PROVE  \E p \in PADS : i = LowCell(p) \/ i = HighCell(p)
BY DEF PadCells

LEMMA CellFacts ==
  /\ 0 \in Cells /\ 97 \in Cells /\ 100 \in Cells
  /\ \A d \in DIALS : DialCell(d) \in Cells /\ DialCell(d) \in {98, 99}
  /\ \A k \in 0 .. 6 : SlotCell(k) \in MidiCells /\ SlotCell(k) \in Cells
  /\ \A i \in MidiCells : i \in 101 .. 119
  /\ Cells \subseteq 0 .. 119
<1>1. \A d \in DIALS : DialCell(d) \in Cells /\ DialCell(d) \in {98, 99}
  BY DialAssumption DEF Cells, DialCell
<1>2. \A k \in 0 .. 6 : SlotCell(k) \in MidiCells /\ SlotCell(k) \in Cells
  BY DEF Cells, MidiCells
<1>3. \A i \in MidiCells : i \in 101 .. 119
  BY DEF MidiCells, SlotCell
<1>4. \A i \in PadCells : i \in 1 .. 96
  BY PadCellCase, PadCellFacts
<1>5. Cells \subseteq 0 .. 119
  BY <1>1, <1>3, <1>4 DEF Cells
<1> QED
  BY <1>1, <1>2, <1>3, <1>5 DEF Cells

\* No cell of a pad is a cell of another pad or of the other byte.
LEMMA PadCellsApart ==
  ASSUME NEW p \in PADS, NEW q \in PADS
  PROVE  /\ LowCell(p) # HighCell(q)
         /\ LowCell(p) = LowCell(q) => p = q
         /\ HighCell(p) = HighCell(q) => p = q
BY PadAssumption DEF LowCell, HighCell

LEMMA SlotsApart ==
  ASSUME NEW j \in 0 .. 6, NEW k \in 0 .. 6
  PROVE  SlotCell(j) = SlotCell(k) => j = k
BY DEF SlotCell

-----------------------------------------------------------------------------
(* The bytes of a pad.                                                     *)

LEMMA BytesOfPad ==
  ASSUME NEW n \in PRESSURES, NEW v \in VELOCITIES
  PROVE  /\ LowByte(n, v) \in Bytes /\ HighByte(n) \in Bytes
         /\ LowByte(n, v) \div 128 + 2 * HighByte(n) = n
         /\ LowByte(n, v) % 128 = v
<1>1. n \in 0 .. 511 /\ v \in 0 .. 127
  BY ByteAssumption
<1> QED
  BY <1>1 DEF LowByte, HighByte, Bytes

\* A pressure-only write puts the pressure's last bit above the velocity.
LEMMA BytesOfPressure ==
  ASSUME NEW n \in PRESSURES, NEW b \in Bytes
  PROVE  /\ LowByte(n, b) \in Bytes /\ HighByte(n) \in Bytes
         /\ LowByte(n, b) \div 128 + 2 * HighByte(n) = n
         /\ LowByte(n, b) % 128 = b % 128
<1>1. n \in 0 .. 511
  BY ByteAssumption
<1> QED
  BY <1>1 DEF LowByte, HighByte, Bytes

-----------------------------------------------------------------------------
(* Type correctness.                                                       *)

TypeBuf ==
  /\ buf \in [Cells -> Nat]
  /\ \A i \in Cells \ MidiCells : buf[i] \in Bytes

TypeQueue == noOfMidiInMessages \in 0 .. 7 /\ buf[100] = noOfMidiInMessages

TypeUsb ==
  /\ flip \in {0, 1} /\ clear_at \in 0 .. ClearEnd + 1
  /\ configs \in 0 .. MAX_CONFIGS

TypeFlags == configured \in BOOLEAN /\ lost \in BOOLEAN

TypeDials == host_dial \in [DIALS -> Int] /\ turned \in [DIALS -> Int]

LEMMA TypeParts == TypeOK <=> TypeBuf /\ TypeQueue /\ TypeUsb /\ TypeFlags /\ TypeDials
BY DEF TypeOK, TypeBuf, TypeQueue, TypeUsb, TypeFlags, TypeDials

LEMMA TypePartsNext ==
  TypeOK' <=> TypeBuf' /\ TypeQueue' /\ TypeUsb' /\ TypeFlags' /\ TypeDials'
BY DEF TypeOK, TypeBuf, TypeQueue, TypeUsb, TypeFlags, TypeDials

LEMMA TypeInit == Init => TypeOK
<1> SUFFICES ASSUME Init PROVE TypeOK
  OBVIOUS
<1>1. TypeBuf
  BY DEF Init, TypeBuf, Bytes
<1>2. TypeQueue
  BY CellFacts DEF Init, TypeQueue
<1>3. TypeUsb
  BY BoundAssumption DEF Init, TypeUsb, ClearEnd
<1>4. TypeFlags
  BY DEF Init, TypeFlags
<1>5. TypeDials
  BY DEF Init, TypeDials
<1> QED
  BY <1>1, <1>2, <1>3, <1>4, <1>5, TypeParts

\* Bytes written to cells that are not the queue's keep the buffer's type.
LEMMA ByteWrite ==
  ASSUME TypeBuf, NEW i \in Cells, i \notin MidiCells, i # 100, NEW x \in Bytes,
         buf' = [buf EXCEPT ![i] = x]
  PROVE  TypeBuf' /\ buf'[100] = buf[100]
BY DEF TypeBuf, Bytes

LEMMA TwoByteWrite ==
  ASSUME TypeBuf,
         NEW i \in Cells, i \notin MidiCells, i # 100, NEW x \in Bytes,
         NEW j \in Cells, j \notin MidiCells, j # 100, NEW y \in Bytes,
         buf' = [buf EXCEPT ![i] = x, ![j] = y]
  PROVE  TypeBuf' /\ buf'[100] = buf[100]
<1>1. buf' = [k \in Cells |-> IF k = j THEN y ELSE IF k = i THEN x ELSE buf[k]]
  BY DEF TypeBuf
<1>2. 100 \in Cells /\ x \in Nat /\ y \in Nat
  BY CellFacts DEF Bytes
<1>3. buf'[100] = buf[100]
  BY <1>1, <1>2
<1>4. TypeBuf'
  BY <1>1, <1>2 DEF TypeBuf
<1> QED
  BY <1>3, <1>4

LEMMA Outside ==
  /\ \A p \in PADS : /\ LowCell(p) \notin MidiCells /\ LowCell(p) # 100
                      /\ HighCell(p) \notin MidiCells /\ HighCell(p) # 100
  /\ \A d \in DIALS : DialCell(d) \notin MidiCells /\ DialCell(d) # 100
  /\ 97 \notin MidiCells /\ 100 \notin MidiCells /\ 0 \notin MidiCells
<1>1. \A i \in MidiCells : i \in 101 .. 119
  BY CellFacts
<1>2. ASSUME NEW p \in PADS
      PROVE  /\ LowCell(p) \notin MidiCells /\ LowCell(p) # 100
             /\ HighCell(p) \notin MidiCells /\ HighCell(p) # 100
  BY <1>1, PadAssumption DEF LowCell, HighCell
<1>3. ASSUME NEW d \in DIALS
      PROVE  DialCell(d) \notin MidiCells /\ DialCell(d) # 100
  BY <1>1, DialAssumption DEF DialCell
<1>4. 97 \notin MidiCells /\ 100 \notin MidiCells /\ 0 \notin MidiCells
  BY <1>1
<1> QED
  BY <1>2, <1>3, <1>4

\* The bytes that each write of main puts into the buffer.
LEMMA MainBufType ==
  ASSUME TypeBuf, Main
  PROVE  TypeBuf' /\ buf'[100] = buf[100]
<1>1. ASSUME NEW p \in PADS, NEW n \in PRESSURES, NEW v \in VELOCITIES,
             Write_PadData(p, n, v)
      PROVE  TypeBuf' /\ buf'[100] = buf[100]
  <2>1. LowByte(n, v) \in Bytes /\ HighByte(n) \in Bytes
    BY BytesOfPad
  <2> QED
    BY <1>1, <2>1, PadCellFacts, Outside, TwoByteWrite
       DEF Write_PadData, MainWrites, PadBecomes
<1>2. ASSUME NEW p \in PADS, NEW n \in PRESSURES, Write_PressureOnly(p, n)
      PROVE  TypeBuf' /\ buf'[100] = buf[100]
  <2>1. buf[LowCell(p)] \in Bytes
    BY PadCellFacts, Outside DEF TypeBuf
  <2>2. LowByte(n, buf[LowCell(p)]) \in Bytes /\ HighByte(n) \in Bytes
    BY <2>1, BytesOfPressure
  <2> QED
    BY <1>2, <2>2, PadCellFacts, Outside, TwoByteWrite
       DEF Write_PressureOnly, MainWrites, PadBecomes
<1>3. ASSUME NEW b \in BUTTONS, Write_ButtonData(b)
      PROVE  TypeBuf' /\ buf'[100] = buf[100]
  <2>1. b \in Bytes
    BY ByteAssumption DEF Bytes
  <2>2. PICK i \in Cells : i = 97 /\ i \notin MidiCells /\ i # 100
    BY CellFacts, Outside
  <2>3. buf' = [buf EXCEPT ![i] = b]
    BY <1>3, <2>2 DEF Write_ButtonData, MainWrites, PadBecomes
  <2> QED
    BY <2>1, <2>2, <2>3, ByteWrite
<1>4. ASSUME NEW d \in DIALS, NEW amount \in {-1, 1}, Adjust_Dial(d, amount)
      PROVE  TypeBuf' /\ buf'[100] = buf[100]
  <2>1. buf[DialCell(d)] \in 0 .. 255
    BY CellFacts, Outside DEF TypeBuf, Bytes
  <2>2. PICK x \in Bytes : x = (buf[DialCell(d)] + amount) % 256
    BY <2>1 DEF Bytes
  <2>3. buf' = [buf EXCEPT ![DialCell(d)] = x]
    BY <1>4, <2>2 DEF Adjust_Dial, MainWrites, PadBecomes
  <2>4. /\ DialCell(d) \in Cells /\ DialCell(d) \notin MidiCells
        /\ DialCell(d) # 100
    BY CellFacts, Outside
  <2> QED
    BY <2>2, <2>3, <2>4, ByteWrite
<1>5. CASE Clear \/ ClearDone
  BY <1>5 DEF Clear, ClearDone, TypeBuf, bufVars
<1>6. CASE ClearByte
  <2>1. PICK i \in PadCells : i \in ToClear /\ buf' = [buf EXCEPT ![i] = 0]
    BY <1>6 DEF ClearByte, ToClear
  <2>2. i \in Cells /\ i \notin MidiCells /\ i # 100
    BY PadCellCase, PadCellFacts, Outside
  <2>3. 0 \in Bytes
    BY DEF Bytes
  <2> QED
    BY <2>1, <2>2, <2>3, ByteWrite
<1> QED
  BY <1>1, <1>2, <1>3, <1>4, <1>5, <1>6 DEF Main

LEMMA TypeStep == TypeOK /\ [Next]_vars => TypeOK'
<1> SUFFICES ASSUME TypeOK, [Next]_vars PROVE TypeOK'
  OBVIOUS
<1> USE TypeParts, TypePartsNext
<1>1. CASE Main
  <2>1. TypeBuf' /\ buf'[100] = buf[100]
    BY <1>1, MainBufType
  <2>2. UNCHANGED <<noOfMidiInMessages, hostVars, usbVars>>
    BY <1>1 DEF Main, Write_PadData, Write_PressureOnly, Write_ButtonData,
         Adjust_Dial, MainWrites, PadBecomes, Clear, ClearByte, ClearDone, bufVars
  <2>3. clear_at' \in 0 .. ClearEnd + 1
    <3>1. CASE ClearByte
      <4>1. PICK i \in ToClear : clear_at' = i + 1
        BY <3>1 DEF ClearByte
      <4>2. i \in 1 .. 96 /\ i <= 95
        BY PadCellCase, PadCellFacts DEF ToClear, ClearEnd
      <4> QED
        BY <4>1, <4>2 DEF ClearEnd
    <3>2. CASE ~ClearByte
      <4>1. clear_at' \in {clear_at, 0, 1}
        BY <1>1, <3>2
           DEF Main, Write_PadData, Write_PressureOnly, Write_ButtonData,
               Adjust_Dial, MainWrites, PadBecomes, Clear, ClearDone
      <4> QED
        BY <4>1 DEF ClearEnd, TypeUsb
    <3> QED
      BY <3>1, <3>2
  <2>4. turned' \in [DIALS -> Int]
    <3>1. CASE \E d \in DIALS, amount \in {-1, 1} : Adjust_Dial(d, amount)
      BY <3>1 DEF Adjust_Dial, TypeDials
    <3>2. CASE ~\E d \in DIALS, amount \in {-1, 1} : Adjust_Dial(d, amount)
      BY <1>1, <3>2 DEF Main, Write_PadData, Write_PressureOnly, PadBecomes,
           Write_ButtonData, Clear, ClearByte, ClearDone, TypeDials
    <3> QED
      BY <3>1, <3>2
  <2>5. TypeQueue'
    BY <2>1, <2>2 DEF TypeQueue
  <2>6. TypeUsb'
    BY <2>2, <2>3 DEF TypeUsb, usbVars
  <2>7. TypeFlags'
    BY <2>2 DEF TypeFlags, usbVars, hostVars
  <2>8. TypeDials'
    BY <2>2, <2>4 DEF TypeDials, hostVars
  <2> QED
    BY <2>1, <2>5, <2>6, <2>7, <2>8
<1>2. ASSUME NEW x \in MESSAGES, Write_MidiData(x)
      PROVE  TypeOK'
  <2>1. x \in Nat /\ noOfMidiInMessages \in 0 .. 7
    BY ByteAssumption DEF TypeQueue
  <2>2. TypeBuf' /\ TypeQueue'
    <3>1. CASE noOfMidiInMessages <= MIDI_LIMIT
      <4>1. noOfMidiInMessages \in 0 .. 6
        BY <2>1, <3>1 DEF MIDI_LIMIT
      <4>2. SlotCell(noOfMidiInMessages) \in MidiCells
        BY <4>1, CellFacts
      <4> QED
        BY <1>2, <2>1, <3>1, <4>1, <4>2, CellFacts
           DEF Write_MidiData, TypeBuf, TypeQueue, Bytes
    <3>2. CASE ~(noOfMidiInMessages <= MIDI_LIMIT)
      BY <1>2, <3>2 DEF Write_MidiData, TypeBuf, TypeQueue, bufVars
    <3> QED
      BY <3>1, <3>2
  <2>3. TypeUsb'
    BY <1>2 DEF Write_MidiData, TypeUsb, usbVars
  <2>4. TypeFlags'
    BY <1>2 DEF Write_MidiData, TypeFlags, usbVars, hostVars
  <2>5. TypeDials'
    BY <1>2 DEF Write_MidiData, TypeDials, hostVars
  <2> QED
    BY <2>2, <2>3, <2>4, <2>5
<1>3. CASE SendHalf
  <2>1. TypeBuf' /\ TypeQueue'
    <3>1. CASE flip = 1
      BY <1>3, <3>1, CellFacts
         DEF SendHalf, Collected, TypeBuf, TypeQueue, Bytes
    <3>2. CASE flip # 1
      BY <1>3, <3>2 DEF SendHalf, TypeBuf, TypeQueue, bufVars
    <3> QED
      BY <3>1, <3>2
  <2>2. TypeUsb'
    BY <1>3 DEF SendHalf, NextFlip, TypeUsb
  <2>3. TypeFlags'
    BY <1>3 DEF SendHalf, HostReceives, TypeFlags
  <2>4. TypeDials'
    <3>1. \A d \in DIALS : buf[DialCell(d)] \in 0 .. 255
      BY CellFacts DEF TypeBuf, Bytes
    <3>2. \A d \in DIALS : host_dial[d] + Signed(buf[DialCell(d)]) \in Int
      BY <3>1 DEF Signed, TypeDials
    <3> QED
      BY <1>3, <3>2 DEF SendHalf, HostReceives, TypeDials
  <2> QED
    BY <2>1, <2>2, <2>3, <2>4
<1>4. CASE Reset
  <2>1. TypeBuf' /\ TypeQueue'
    BY <1>4 DEF Reset, bufVars, TypeBuf, TypeQueue
  <2>2. TypeUsb'
    BY <1>4, BoundAssumption DEF Reset, TypeUsb
  <2>3. TypeFlags'
    BY <1>4 DEF Reset, TypeFlags
  <2>4. TypeDials'
    BY <1>4 DEF Reset, TypeDials
  <2> QED
    BY <2>1, <2>2, <2>3, <2>4
<1>5. CASE Configure
  <2>1. TypeBuf' /\ TypeQueue' /\ TypeUsb' /\ TypeDials'
    BY <1>5 DEF Configure, bufVars, hostVars,
         TypeBuf, TypeQueue, TypeUsb, TypeDials
  <2>2. TypeFlags'
    BY <1>5 DEF Configure, hostVars, TypeFlags
  <2> QED
    BY <2>1, <2>2
<1>6. CASE UNCHANGED vars
  <2>1. /\ UNCHANGED <<buf, noOfMidiInMessages, flip, clear_at, configs>>
        /\ UNCHANGED <<configured, lost, host_dial, turned>>
    BY <1>6 DEF vars, bufVars, hostVars, usbVars
  <2>2. TypeBuf' /\ TypeQueue' /\ TypeUsb'
    BY <2>1 DEF TypeBuf, TypeQueue, TypeUsb
  <2>3. TypeFlags' /\ TypeDials'
    BY <2>1 DEF TypeFlags, TypeDials
  <2> QED
    BY <2>2, <2>3
<1> QED
  BY <1>1, <1>2, <1>3, <1>4, <1>5, <1>6 DEF Next

\* The buffer's bytes stay bytes, its message count is the queue's, and the
\* cells of GenericHID.c that no writer names stay as they are.
THEOREM TypeCorrect == Spec => []TypeOK
<1>1. Init => TypeOK
  BY TypeInit
<1>2. TypeOK /\ [Next]_vars => TypeOK'
  BY TypeStep
<1> QED
  BY <1>1, <1>2, PTL DEF Spec

-----------------------------------------------------------------------------
(* The dials.  A half is sent into the host's half it belongs to as long as *)
(* the host has dropped nothing.                                           *)

PhasePart == ~lost => (first = Nothing <=> flip = 0)

DialInv == TypeOK /\ PhasePart /\ DialsConserved

\* Taking a byte as signed changes it by a multiple of 256.
LEMMA SignedByte ==
  ASSUME NEW t \in Int, NEW h \in Int, NEW b \in 0 .. 255, (t - h - b) % 256 = 0
  PROVE  (t - (h + Signed(b)) - 0) % 256 = 0
BY DEF Signed

DialPart(d) == (turned[d] - host_dial[d] - buf[DialCell(d)]) % 256 = 0

LEMMA DialByte ==
  ASSUME TypeBuf, NEW d \in DIALS
  PROVE  buf[DialCell(d)] \in 0 .. 255
BY CellFacts, Outside DEF TypeBuf, Bytes

\* Writes to other cells leave the sums alone.
LEMMA DialsUndisturbed ==
  ASSUME DialsConserved, UNCHANGED <<turned, host_dial, lost>>,
         \A d \in DIALS : buf'[DialCell(d)] = buf[DialCell(d)]
  PROVE  DialsConserved'
BY DEF DialsConserved

LEMMA DialsMain ==
  ASSUME TypeOK, DialsConserved, Main
  PROVE  DialsConserved'
<1> USE TypeParts
<1>1. UNCHANGED <<host_dial, lost>>
  BY DEF Main, Write_PadData, Write_PressureOnly, Write_ButtonData, Adjust_Dial,
     MainWrites, PadBecomes, Clear, ClearByte, ClearDone, hostVars
<1>2. ASSUME NEW p \in PADS, NEW n \in PRESSURES,
             \/ \E v \in VELOCITIES : Write_PadData(p, n, v)
             \/ Write_PressureOnly(p, n)
      PROVE  DialsConserved'
  <2>1. \A d \in DIALS : DialCell(d) # LowCell(p) /\ DialCell(d) # HighCell(p)
    BY PadAssumption, DialAssumption DEF DialCell, LowCell, HighCell
  <2>2. UNCHANGED turned
    BY <1>2 DEF Write_PadData, Write_PressureOnly, PadBecomes
  <2>3. PICK x, y : buf' = [buf EXCEPT ![LowCell(p)] = x, ![HighCell(p)] = y]
    BY <1>2 DEF Write_PadData, Write_PressureOnly, MainWrites, PadBecomes
  <2>4. \A d \in DIALS : buf'[DialCell(d)] = buf[DialCell(d)]
    BY <2>1, <2>3, CellFacts DEF TypeBuf
  <2> QED
    BY <1>1, <2>2, <2>4, DialsUndisturbed
<1>3. ASSUME NEW b \in BUTTONS, Write_ButtonData(b)
      PROVE  DialsConserved'
  <2>1. \A d \in DIALS : DialCell(d) # 97
    BY DialAssumption DEF DialCell
  <2>2. \A d \in DIALS : buf'[DialCell(d)] = buf[DialCell(d)]
    BY <1>3, <2>1, CellFacts DEF Write_ButtonData, MainWrites, PadBecomes, TypeBuf
  <2>3. UNCHANGED turned
    BY <1>3 DEF Write_ButtonData
  <2> QED
    BY <1>1, <2>2, <2>3, DialsUndisturbed
<1>4. ASSUME NEW d \in DIALS, NEW amount \in {-1, 1}, Adjust_Dial(d, amount)
      PROVE  DialsConserved'
  <2>1. SUFFICES ASSUME ~lost, NEW e \in DIALS
                 PROVE  DialPart(e)'
    BY <1>1 DEF DialsConserved, DialPart
  <2>2. DialPart(e) /\ buf[DialCell(e)] \in 0 .. 255
    BY <2>1, DialByte DEF DialsConserved, DialPart
  <2>3. /\ buf' = [buf EXCEPT ![DialCell(d)] = (@ + amount) % 256]
        /\ turned' = [turned EXCEPT ![d] = @ + amount]
    BY <1>4 DEF Adjust_Dial, MainWrites, PadBecomes
  <2>4. turned[e] \in Int /\ host_dial[e] \in Int
    BY DEF TypeDials
  <2>5. CASE e = d
    <3>1. /\ buf'[DialCell(e)] = (buf[DialCell(e)] + amount) % 256
          /\ turned'[e] = turned[e] + amount
      BY <2>3, <2>5, CellFacts DEF TypeBuf, TypeDials
    <3>2. ((turned[e] + amount) - host_dial[e]
              - ((buf[DialCell(e)] + amount) % 256)) % 256 = 0
      <4>1. (turned[e] - host_dial[e] - buf[DialCell(e)]) % 256 = 0
        BY <2>2 DEF DialPart
      <4>2. amount = 1 \/ amount = -1
        OBVIOUS
      <4> QED
        BY <2>2, <2>4, <4>1, <4>2
    <3> QED
      BY <1>1, <3>1, <3>2 DEF DialPart
  <2>6. CASE e # d
    <3>1. DialCell(e) # DialCell(d)
      BY <2>6, DialAssumption DEF DialCell
    <3>2. buf'[DialCell(e)] = buf[DialCell(e)] /\ turned'[e] = turned[e]
      BY <2>3, <2>6, <3>1, CellFacts DEF TypeBuf, TypeDials
    <3> QED
      BY <1>1, <2>2, <3>2 DEF DialPart
  <2> QED
    BY <2>5, <2>6
<1>5. CASE Clear \/ ClearDone
  BY <1>1, <1>5, DialsUndisturbed DEF Clear, ClearDone, bufVars
<1>6. CASE ClearByte
  <2>1. PICK i \in PadCells : buf' = [buf EXCEPT ![i] = 0]
    BY <1>6 DEF ClearByte, ToClear
  <2>2. \A d \in DIALS : DialCell(d) # i
    BY PadCellCase, PadAssumption, DialAssumption DEF DialCell, LowCell, HighCell
  <2>3. \A d \in DIALS : buf'[DialCell(d)] = buf[DialCell(d)]
    BY <2>1, <2>2, CellFacts DEF TypeBuf
  <2>4. UNCHANGED turned
    BY <1>6 DEF ClearByte
  <2> QED
    BY <1>1, <2>3, <2>4, DialsUndisturbed
<1> QED
  BY <1>2, <1>3, <1>4, <1>5, <1>6 DEF Main

LEMMA DialsMidi ==
  ASSUME TypeOK, DialsConserved, NEW x \in MESSAGES, Write_MidiData(x)
  PROVE  DialsConserved'
<1> USE TypeParts
<1>1. UNCHANGED <<turned, host_dial, lost>>
  BY DEF Write_MidiData, hostVars
<1>2. CASE noOfMidiInMessages <= MIDI_LIMIT
  <2>1. noOfMidiInMessages \in 0 .. 6
    BY <1>2 DEF TypeQueue, MIDI_LIMIT
  <2>2. \A d \in DIALS : /\ DialCell(d) # SlotCell(noOfMidiInMessages)
                         /\ DialCell(d) # 100
    BY <2>1, DialAssumption DEF DialCell, SlotCell
  <2>3. PICK y : buf' = [buf EXCEPT ![SlotCell(noOfMidiInMessages)] = x,
                                    ![100] = y]
    BY <1>2 DEF Write_MidiData
  <2>4. \A d \in DIALS : buf'[DialCell(d)] = buf[DialCell(d)]
    BY <2>2, <2>3, CellFacts DEF TypeBuf
  <2> QED
    BY <1>1, <2>4, DialsUndisturbed
<1>3. CASE ~(noOfMidiInMessages <= MIDI_LIMIT)
  BY <1>1, <1>3, DialsUndisturbed DEF Write_MidiData, bufVars
<1> QED
  BY <1>2, <1>3

LEMMA DialsSend ==
  ASSUME DialInv, SendHalf
  PROVE  DialsConserved' /\ PhasePart'
<1> USE TypeParts DEF DialInv
<1>1. SUFFICES ASSUME ~lost'
               PROVE  /\ first' = Nothing <=> flip' = 0
                      /\ \A d \in DIALS : DialPart(d)'
  BY DEF DialsConserved, PhasePart, DialPart
<1>2. ~lost /\ UNCHANGED turned
  BY <1>1 DEF SendHalf, HostReceives, TypeFlags
<1>3. flip \in {0, 1} /\ flip' = 1 - flip
  BY DEF SendHalf, NextFlip, TypeUsb
<1>4. CASE flip = 0
  <2>1. first = Nothing
    BY <1>2, <1>4 DEF PhasePart
  <2>2. /\ UNCHANGED <<buf, host_dial>>
        /\ first' = <<ReportId(flip, buf),
                      [i \in {j \in Cells : Half(j) = flip} |-> buf[i]]>>
    BY <1>4, <2>1 DEF SendHalf, HostReceives, bufVars
  <2>3. first' # Nothing
    BY <2>2 DEF Nothing
  <2> QED
    BY <1>2, <1>3, <1>4, <2>2, <2>3 DEF DialsConserved, DialPart
<1>5. CASE flip = 1
  <2>1. first # Nothing
    BY <1>2, <1>5 DEF PhasePart
  <2>2. /\ first' = Nothing /\ buf' = Collected(buf)
        /\ host_dial' = [d \in DIALS |-> host_dial[d] + Signed(buf[DialCell(d)])]
    BY <1>1, <1>5, <2>1 DEF SendHalf, HostReceives
  <2>3. ASSUME NEW d \in DIALS PROVE DialPart(d)'
    <3>1. DialPart(d) /\ buf[DialCell(d)] \in 0 .. 255
      BY <1>2, DialByte DEF DialsConserved, DialPart
    <3>2. turned[d] \in Int /\ host_dial[d] \in Int
      BY DEF TypeDials
    <3>3. buf'[DialCell(d)] = 0
      BY <2>2, CellFacts DEF Collected
    <3>4. host_dial'[d] = host_dial[d] + Signed(buf[DialCell(d)])
      BY <2>2
    <3>5. (turned[d] - (host_dial[d] + Signed(buf[DialCell(d)])) - 0) % 256 = 0
      BY <3>1, <3>2, SignedByte DEF DialPart
    <3> QED
      BY <1>2, <3>3, <3>4, <3>5 DEF DialPart
  <2> QED
    BY <1>3, <1>5, <2>2, <2>3
<1> QED
  BY <1>3, <1>4, <1>5

LEMMA DialStep == DialInv /\ [Next]_vars => DialInv'
<1> SUFFICES ASSUME DialInv, [Next]_vars PROVE DialInv'
  OBVIOUS
<1>0. TypeOK'
  BY TypeStep DEF DialInv
<1>1. CASE Main
  <2>1. PhasePart'
    BY <1>1 DEF Main, Write_PadData, Write_PressureOnly, Write_ButtonData,
       Adjust_Dial, MainWrites, PadBecomes, Clear, ClearByte, ClearDone, hostVars, usbVars,
       DialInv, PhasePart
  <2> QED
    BY <1>0, <1>1, <2>1, DialsMain DEF DialInv
<1>2. ASSUME NEW x \in MESSAGES, Write_MidiData(x)
      PROVE  DialInv'
  <2>1. PhasePart'
    BY <1>2 DEF Write_MidiData, hostVars, usbVars, DialInv, PhasePart
  <2> QED
    BY <1>0, <1>2, <2>1, DialsMidi DEF DialInv
<1>3. CASE SendHalf
  BY <1>0, <1>3, DialsSend DEF DialInv
<1>4. CASE Reset
  <2>1. lost' = (lost \/ first # Nothing) /\ first' = Nothing
        /\ UNCHANGED <<buf, flip, host_dial, turned>>
    BY <1>4 DEF Reset, bufVars
  <2>2. PhasePart' /\ DialsConserved'
    BY <2>1 DEF DialInv, PhasePart, DialsConserved
  <2> QED
    BY <1>0, <2>2 DEF DialInv
<1>5. CASE Configure \/ UNCHANGED vars
  <2>1. UNCHANGED <<buf, flip, first, lost, host_dial, turned>>
    BY <1>5 DEF Configure, vars, bufVars, hostVars, usbVars
  <2>2. PhasePart' /\ DialsConserved'
    BY <2>1 DEF DialInv, PhasePart, DialsConserved
  <2> QED
    BY <1>0, <2>2 DEF DialInv
<1> QED
  BY <1>1, <1>2, <1>3, <1>4, <1>5 DEF Next

\* No click of a dial is lost or counted twice, however the report's halves,
\* the wrap of the dial's byte and its clearing fall (GenericHID_Adjust_Dial,
\* GenericHID_Task), unless the host drops a report.
THEOREM DialsCorrect == Spec => []DialsConserved
<1>1. Init => DialInv
  <2> SUFFICES ASSUME Init PROVE DialInv
    OBVIOUS
  <2>1. TypeOK
    BY TypeInit
  <2>2. PhasePart
    BY DEF Init, PhasePart
  <2>3. DialsConserved
    BY CellFacts, DialAssumption DEF Init, DialsConserved, DialCell
  <2> QED
    BY <2>1, <2>2, <2>3 DEF DialInv
<1>2. DialInv /\ [Next]_vars => DialInv'
  BY DialStep
<1>3. DialInv => DialsConserved
  BY DEF DialInv
<1> QED
  BY <1>1, <1>2, <1>3, PTL DEF Spec

-----------------------------------------------------------------------------
(* HidIn implements HidReport.                                             *)

AbsPads == [p \in PADS |-> [pressure |-> Pressure(buf, p),
                            velocity |-> Velocity(buf, p)]]
AbsDials == [d \in DIALS |-> buf[DialCell(d)]]

\* A step that leaves the cells of all but one thing alone leaves all but one
\* abstract variable alone.
LEMMA SamePads ==
  ASSUME \A p \in PADS : /\ buf'[LowCell(p)] = buf[LowCell(p)]
                         /\ buf'[HighCell(p)] = buf[HighCell(p)]
  PROVE  AbsPads' = AbsPads
BY DEF AbsPads, Pressure, Velocity

LEMMA OtherPads ==
  ASSUME NEW q \in PADS, NEW r,
         \A p \in PADS \ {q} : /\ buf'[LowCell(p)] = buf[LowCell(p)]
                               /\ buf'[HighCell(p)] = buf[HighCell(p)],
         [pressure |-> Pressure(buf', q), velocity |-> Velocity(buf', q)] = r
  PROVE  AbsPads' = [AbsPads EXCEPT ![q] = r]
BY DEF AbsPads, Pressure, Velocity

LEMMA SameDials ==
  ASSUME \A d \in DIALS : buf'[DialCell(d)] = buf[DialCell(d)]
  PROVE  AbsDials' = AbsDials
BY DEF AbsDials

LEMMA SameBatch ==
  ASSUME buf[100] \in 0 .. 7, buf'[100] = buf[100],
         \A k \in 0 .. 6 : buf'[SlotCell(k)] = buf[SlotCell(k)]
  PROVE  Batch(buf') = Batch(buf)
<1>1. \A k \in 1 .. buf[100] : k - 1 \in 0 .. 6
  OBVIOUS
<1> QED
  BY <1>1 DEF Batch

LEMMA RefInit == Init => Abs!Init
<1> SUFFICES ASSUME Init PROVE Abs!Init
  OBVIOUS
<1>1. \A i \in Cells \ {0} : buf[i] = 0
  BY DEF Init
<1>2. ASSUME NEW p \in PADS
      PROVE  Pressure(buf, p) = 0 /\ Velocity(buf, p) = 0
  <2>1. LowCell(p) # 0 /\ HighCell(p) # 0
    BY PadAssumption DEF LowCell, HighCell
  <2>2. buf[LowCell(p)] = 0 /\ buf[HighCell(p)] = 0
    BY <1>1, <2>1, PadCellFacts
  <2> QED
    BY <2>2 DEF Pressure, Velocity
<1>3. \A d \in DIALS : buf[DialCell(d)] = 0
  BY <1>1, CellFacts
<1>4. buf[97] = 0 /\ buf[100] = 0
  BY <1>1, CellFacts
<1>5. Batch(buf) = << >>
  BY <1>4 DEF Batch
<1>6. collected = << >>
  BY DEF Init
<1> QED
  BY <1>2, <1>3, <1>4, <1>5, <1>6 DEF Abs!Init

\* What the abstract variables are when only cells of pad q may have changed.
OnlyCellsOf(q) ==
  \A i \in Cells : i # LowCell(q) /\ i # HighCell(q) => buf'[i] = buf[i]

LEMMA PadWriteRest ==
  ASSUME TypeOK, NEW q \in PADS, OnlyCellsOf(q)
  PROVE  /\ buf'[97] = buf[97] /\ AbsDials' = AbsDials
         /\ Batch(buf') = Batch(buf)
         /\ \A p \in PADS \ {q} : /\ buf'[LowCell(p)] = buf[LowCell(p)]
                                  /\ buf'[HighCell(p)] = buf[HighCell(p)]
<1> USE TypeParts
<1>3. \A i \in Cells : i # LowCell(q) /\ i # HighCell(q) => buf'[i] = buf[i]
  BY DEF OnlyCellsOf
<1>4. buf'[97] = buf[97] /\ buf'[100] = buf[100]
  <2>1. /\ 97 # LowCell(q) /\ 97 # HighCell(q)
        /\ 100 # LowCell(q) /\ 100 # HighCell(q)
    BY PadAssumption DEF LowCell, HighCell
  <2> QED
    BY <1>3, <2>1, CellFacts
<1>5. \A d \in DIALS : buf'[DialCell(d)] = buf[DialCell(d)]
  <2>1. \A d \in DIALS : DialCell(d) # LowCell(q) /\ DialCell(d) # HighCell(q)
    BY PadAssumption, DialAssumption DEF DialCell, LowCell, HighCell
  <2> QED
    BY <1>3, <2>1, CellFacts
<1>6. \A k \in 0 .. 6 : buf'[SlotCell(k)] = buf[SlotCell(k)]
  <2>1. \A k \in 0 .. 6 : SlotCell(k) # LowCell(q) /\ SlotCell(k) # HighCell(q)
    BY PadAssumption DEF SlotCell, LowCell, HighCell
  <2> QED
    BY <1>3, <2>1, CellFacts
<1>7. Batch(buf') = Batch(buf)
  BY <1>4, <1>6, SameBatch DEF TypeQueue
<1>8. \A p \in PADS \ {q} : /\ buf'[LowCell(p)] = buf[LowCell(p)]
                            /\ buf'[HighCell(p)] = buf[HighCell(p)]
  BY <1>3, PadCellFacts, PadCellsApart
<1> QED
  BY <1>4, <1>5, <1>7, <1>8, SameDials

LEMMA PadWriteCells ==
  ASSUME NEW q \in PADS, NEW x, NEW y, buf \in [Cells -> Nat],
         buf' = [buf EXCEPT ![LowCell(q)] = x, ![HighCell(q)] = y]
  PROVE  OnlyCellsOf(q) /\ buf'[LowCell(q)] = x /\ buf'[HighCell(q)] = y
<1>1. LowCell(q) \in Cells /\ HighCell(q) \in Cells /\ LowCell(q) # HighCell(q)
  BY PadCellFacts, PadCellsApart
<1> QED
  BY <1>1 DEF OnlyCellsOf

LEMMA RefPadWrite ==
  ASSUME TypeOK, NEW p \in PADS, NEW n \in PRESSURES, NEW v \in VELOCITIES,
         Write_PadData(p, n, v)
  PROVE  Abs!WritePad(p, n, v)
<1>1. /\ buf' = [buf EXCEPT ![LowCell(p)] = LowByte(n, v),
                            ![HighCell(p)] = HighByte(n)]
      /\ LowByte(n, v) \in Bytes /\ HighByte(n) \in Bytes
  BY BytesOfPad DEF Write_PadData, MainWrites, PadBecomes
<1>0. buf \in [Cells -> Nat]
  BY TypeParts DEF TypeBuf
<1>7. /\ OnlyCellsOf(p)
      /\ buf'[LowCell(p)] = LowByte(n, v) /\ buf'[HighCell(p)] = HighByte(n)
  BY <1>0, <1>1, PadWriteCells
<1>2. /\ buf'[97] = buf[97] /\ AbsDials' = AbsDials /\ Batch(buf') = Batch(buf)
      /\ buf'[LowCell(p)] = LowByte(n, v) /\ buf'[HighCell(p)] = HighByte(n)
      /\ \A q \in PADS \ {p} : /\ buf'[LowCell(q)] = buf[LowCell(q)]
                               /\ buf'[HighCell(q)] = buf[HighCell(q)]
  BY <1>7, PadWriteRest
<1>3. Pressure(buf', p) = n /\ Velocity(buf', p) = v
  BY <1>2, BytesOfPad DEF Pressure, Velocity
<1>4. AbsPads' = [AbsPads EXCEPT ![p] = [pressure |-> n, velocity |-> v]]
  BY <1>2, <1>3, OtherPads
<1>5. UNCHANGED collected
  BY DEF Write_PadData, MainWrites, PadBecomes, hostVars
<1> QED
  BY <1>2, <1>4, <1>5 DEF Abs!WritePad, AbsPads, AbsDials

LEMMA RefPressureWrite ==
  ASSUME TypeOK, NEW p \in PADS, NEW n \in PRESSURES, Write_PressureOnly(p, n)
  PROVE  Abs!WritePressure(p, n)
<1> DEFINE x == LowByte(n, buf[LowCell(p)])
<1>0. buf[LowCell(p)] \in Bytes /\ buf \in [Cells -> Nat]
  BY TypeParts, PadCellFacts, Outside DEF TypeBuf
<1>1. /\ buf' = [buf EXCEPT ![LowCell(p)] = x, ![HighCell(p)] = HighByte(n)]
      /\ x \in Bytes /\ HighByte(n) \in Bytes
  BY <1>0, BytesOfPressure DEF Write_PressureOnly, MainWrites, PadBecomes
<1>7. OnlyCellsOf(p) /\ buf'[LowCell(p)] = x /\ buf'[HighCell(p)] = HighByte(n)
  BY <1>0, <1>1, PadWriteCells
<1>2. /\ buf'[97] = buf[97] /\ AbsDials' = AbsDials /\ Batch(buf') = Batch(buf)
      /\ buf'[LowCell(p)] = x /\ buf'[HighCell(p)] = HighByte(n)
      /\ \A q \in PADS \ {p} : /\ buf'[LowCell(q)] = buf[LowCell(q)]
                               /\ buf'[HighCell(q)] = buf[HighCell(q)]
  BY <1>7, PadWriteRest
<1>3. Pressure(buf', p) = n /\ Velocity(buf', p) = Velocity(buf, p)
  BY <1>0, <1>2, BytesOfPressure DEF Pressure, Velocity
<1>4. AbsPads' = [AbsPads EXCEPT ![p] = [pressure |-> n, velocity |-> Velocity(buf, p)]]
  BY <1>2, <1>3, OtherPads
<1>5. AbsPads' = [AbsPads EXCEPT ![p].pressure = n]
  BY <1>4 DEF AbsPads
<1>6. UNCHANGED collected
  BY DEF Write_PressureOnly, MainWrites, PadBecomes, hostVars
<1> QED
  BY <1>2, <1>5, <1>6 DEF Abs!WritePressure, AbsPads, AbsDials

LEMMA RefClearByte ==
  ASSUME TypeOK, ClearByte
  PROVE  \E p \in PADS : Abs!ClearVelocity(p) \/ Abs!ClearPressure(p)
<1>1. PICK i \in PadCells : i <= ClearEnd /\ buf' = [buf EXCEPT ![i] = 0]
  BY DEF ClearByte, ToClear
<1>2. PICK p \in PADS : i = LowCell(p) \/ i = HighCell(p)
  BY PadCellCase
<1>3. /\ buf[LowCell(p)] \in Bytes /\ buf[HighCell(p)] \in Bytes
      /\ LowCell(p) # HighCell(p)
      /\ LowCell(p) \in Cells /\ HighCell(p) \in Cells
      /\ buf \in [Cells -> Nat]
  BY TypeParts, PadCellFacts, Outside, PadCellsApart DEF TypeBuf
<1>4. UNCHANGED collected
  BY DEF ClearByte, hostVars
<1>5. CASE i = LowCell(p)
  <2>1. /\ OnlyCellsOf(p)
        /\ buf'[LowCell(p)] = 0 /\ buf'[HighCell(p)] = buf[HighCell(p)]
    BY <1>1, <1>3, <1>5 DEF OnlyCellsOf
  <2>2. /\ buf'[97] = buf[97] /\ AbsDials' = AbsDials /\ Batch(buf') = Batch(buf)
        /\ buf'[LowCell(p)] = 0 /\ buf'[HighCell(p)] = buf[HighCell(p)]
        /\ \A q \in PADS \ {p} : /\ buf'[LowCell(q)] = buf[LowCell(q)]
                                 /\ buf'[HighCell(q)] = buf[HighCell(q)]
    BY <2>1, PadWriteRest
  <2>3. /\ Pressure(buf', p) = 2 * (Pressure(buf, p) \div 2)
        /\ Velocity(buf', p) = 0
    BY <1>3, <2>2 DEF Pressure, Velocity, Bytes
  <2>4. AbsPads' = [AbsPads EXCEPT
          ![p] = [pressure |-> 2 * (Pressure(buf, p) \div 2), velocity |-> 0]]
    BY <2>2, <2>3, OtherPads
  <2>5. Abs!ClearVelocity(p)
    BY <1>4, <2>2, <2>4 DEF Abs!ClearVelocity, AbsPads, AbsDials
  <2> QED
    BY <2>5
<1>6. CASE i = HighCell(p)
  <2>1. /\ OnlyCellsOf(p)
        /\ buf'[LowCell(p)] = buf[LowCell(p)] /\ buf'[HighCell(p)] = 0
    BY <1>1, <1>3, <1>6 DEF OnlyCellsOf
  <2>2. /\ buf'[97] = buf[97] /\ AbsDials' = AbsDials /\ Batch(buf') = Batch(buf)
        /\ buf'[LowCell(p)] = buf[LowCell(p)] /\ buf'[HighCell(p)] = 0
        /\ \A q \in PADS \ {p} : /\ buf'[LowCell(q)] = buf[LowCell(q)]
                                 /\ buf'[HighCell(q)] = buf[HighCell(q)]
    BY <2>1, PadWriteRest
  <2>3. /\ Pressure(buf', p) = Pressure(buf, p) % 2
        /\ Velocity(buf', p) = Velocity(buf, p)
    BY <1>3, <2>2 DEF Pressure, Velocity, Bytes
  <2>4. [pressure |-> Pressure(buf', p), velocity |-> Velocity(buf', p)]
          = [pressure |-> Pressure(buf, p) % 2, velocity |-> Velocity(buf, p)]
    BY <2>3
  <2>8. AbsPads' = [AbsPads EXCEPT
          ![p] = [pressure |-> Pressure(buf, p) % 2, velocity |-> Velocity(buf, p)]]
    BY <2>2, <2>4, OtherPads
  <2>5. AbsPads' = [AbsPads EXCEPT ![p].pressure = @ % 2]
    BY <2>8 DEF AbsPads
  <2>6. p # LAST_PAD
    BY <1>1, <1>6, PadAssumption DEF HighCell, ClearEnd
  <2>7. Abs!ClearPressure(p)
    BY <1>4, <2>2, <2>5, <2>6 DEF Abs!ClearPressure, AbsPads, AbsDials
  <2> QED
    BY <2>7
<1> QED
  BY <1>2, <1>5, <1>6

\* What the abstract variables are when other cells than the pads' changed.
LEMMA PadsUntouched ==
  ASSUME NEW S \in SUBSET (Cells \ PadCells),
         \A i \in Cells \ S : buf'[i] = buf[i]
  PROVE  AbsPads' = AbsPads
<1>1. \A p \in PADS : /\ LowCell(p) \in Cells \ S
                      /\ HighCell(p) \in Cells \ S
  BY PadCellFacts
<1> QED
  BY <1>1, SamePads

LEMMA NotPadCells ==
  /\ 97 \notin PadCells /\ 100 \notin PadCells
  /\ \A d \in DIALS : DialCell(d) \notin PadCells
  /\ \A k \in 0 .. 6 : SlotCell(k) \notin PadCells
<1>1. \A i \in PadCells : i \in 1 .. 96
  BY PadCellCase, PadCellFacts
<1>2. \A d \in DIALS : DialCell(d) > 96
  BY DialAssumption DEF DialCell
<1>3. \A k \in 0 .. 6 : SlotCell(k) > 96
  BY DEF SlotCell
<1> QED
  BY <1>1, <1>2, <1>3

LEMMA RefButtons ==
  ASSUME TypeOK, NEW b \in BUTTONS, Write_ButtonData(b)
  PROVE  Abs!WriteButtons(b)
<1> USE TypeParts
<1>1. buf' = [buf EXCEPT ![97] = b]
  BY DEF Write_ButtonData, MainWrites, PadBecomes
<1>2. buf'[97] = b /\ \A i \in Cells \ {97} : buf'[i] = buf[i]
  BY <1>1, CellFacts DEF TypeBuf
<1>3. AbsPads' = AbsPads
  <2>0. 97 \in Cells /\ 97 \notin PadCells
    BY CellFacts, NotPadCells
  <2>1. PICK S \in SUBSET (Cells \ PadCells) : S = {97}
    BY <2>0, Zenon
  <2>2. \A i \in Cells \ S : buf'[i] = buf[i]
    BY <1>2, <2>1
  <2> QED
    BY <2>2, PadsUntouched
<1>4. AbsDials' = AbsDials
  <2>1. \A d \in DIALS : DialCell(d) # 97
    BY DialAssumption DEF DialCell
  <2> QED
    BY <1>2, <2>1, CellFacts, SameDials
<1>5. Batch(buf') = Batch(buf)
  <2>1. \A k \in 0 .. 6 : SlotCell(k) # 97
    BY DEF SlotCell
  <2>2. buf'[100] = buf[100]
    BY <1>2, CellFacts
  <2>3. \A k \in 0 .. 6 : buf'[SlotCell(k)] = buf[SlotCell(k)]
    BY <1>2, <2>1, CellFacts
  <2> QED
    BY <2>2, <2>3, SameBatch DEF TypeQueue
<1>6. UNCHANGED collected
  BY DEF Write_ButtonData, MainWrites, PadBecomes, hostVars
<1> QED
  BY <1>2, <1>3, <1>4, <1>5, <1>6 DEF Abs!WriteButtons, AbsPads, AbsDials

LEMMA RefTurn ==
  ASSUME TypeOK, NEW d \in DIALS, NEW amount \in {-1, 1}, Adjust_Dial(d, amount)
  PROVE  Abs!Turn(d, amount)
<1> USE TypeParts
<1>1. buf' = [buf EXCEPT ![DialCell(d)] = (@ + amount) % 256]
  BY DEF Adjust_Dial, MainWrites, PadBecomes
<1>2. /\ buf'[DialCell(d)] = (buf[DialCell(d)] + amount) % 256
      /\ \A i \in Cells \ {DialCell(d)} : buf'[i] = buf[i]
  BY <1>1, CellFacts DEF TypeBuf
<1>3. AbsPads' = AbsPads
  <2>1. {DialCell(d)} \in SUBSET (Cells \ PadCells)
    BY CellFacts, NotPadCells
  <2> QED
    BY <1>2, <2>1, PadsUntouched
<1>4. AbsDials' = [AbsDials EXCEPT ![d] = (@ + amount) % 256]
  <2>1. \A e \in DIALS \ {d} : DialCell(e) # DialCell(d)
    BY DialAssumption DEF DialCell
  <2>2. \A e \in DIALS \ {d} : buf'[DialCell(e)] = buf[DialCell(e)]
    BY <1>2, <2>1, CellFacts
  <2> QED
    BY <1>2, <2>2 DEF AbsDials
<1>5. buf'[97] = buf[97] /\ buf'[100] = buf[100]
  <2>1. DialCell(d) # 97 /\ DialCell(d) # 100
    BY DialAssumption DEF DialCell
  <2> QED
    BY <1>2, <2>1, CellFacts
<1>6. Batch(buf') = Batch(buf)
  <2>1. \A k \in 0 .. 6 : SlotCell(k) # DialCell(d)
    BY DialAssumption DEF SlotCell, DialCell
  <2>2. \A k \in 0 .. 6 : buf'[SlotCell(k)] = buf[SlotCell(k)]
    BY <1>2, <2>1, CellFacts
  <2> QED
    BY <1>5, <2>2, SameBatch DEF TypeQueue
<1>7. UNCHANGED collected
  BY DEF Adjust_Dial, MainWrites, PadBecomes, hostVars
<1> QED
  BY <1>3, <1>4, <1>5, <1>6, <1>7 DEF Abs!Turn, AbsPads, AbsDials

LEMMA RefMidi ==
  ASSUME TypeOK, NEW x \in MESSAGES, Write_MidiData(x),
         noOfMidiInMessages <= MIDI_LIMIT
  PROVE  Abs!Enqueue(x)
<1> USE TypeParts
<1> DEFINE n == noOfMidiInMessages
<1>1. n \in 0 .. 6 /\ buf[100] = n
  BY DEF TypeQueue, MIDI_LIMIT
<1>2. buf' = [buf EXCEPT ![SlotCell(n)] = x, ![100] = n + 1]
  BY DEF Write_MidiData
<1>3. SlotCell(n) \in Cells /\ 100 \in Cells /\ SlotCell(n) # 100
  BY <1>1, CellFacts DEF SlotCell
<1>4. /\ buf'[SlotCell(n)] = x /\ buf'[100] = n + 1
      /\ \A i \in Cells \ {SlotCell(n), 100} : buf'[i] = buf[i]
  BY <1>2, <1>3 DEF TypeBuf
<1>5. AbsPads' = AbsPads
  <2>1. {SlotCell(n), 100} \in SUBSET (Cells \ PadCells)
    BY <1>1, <1>3, NotPadCells
  <2> QED
    BY <1>4, <2>1, PadsUntouched
<1>6. AbsDials' = AbsDials
  <2>1. \A d \in DIALS : DialCell(d) # SlotCell(n) /\ DialCell(d) # 100
    BY <1>1, DialAssumption DEF DialCell, SlotCell
  <2> QED
    BY <1>4, <2>1, CellFacts, SameDials
<1>7. buf'[97] = buf[97]
  <2>1. 97 # SlotCell(n)
    BY <1>1 DEF SlotCell
  <2> QED
    BY <1>4, <2>1, CellFacts
<1>8. Len(Batch(buf)) = n /\ Batch(buf') = Append(Batch(buf), x)
  <2>1. Batch(buf) = [k \in 1 .. n |-> buf[SlotCell(k - 1)]]
    BY <1>1 DEF Batch
  <2>2. Batch(buf') = [k \in 1 .. (n + 1) |-> buf'[SlotCell(k - 1)]]
    BY <1>4 DEF Batch
  <2>3. ASSUME NEW k \in 1 .. n PROVE buf'[SlotCell(k - 1)] = buf[SlotCell(k - 1)]
    <3>1. k - 1 \in 0 .. 6 /\ SlotCell(k - 1) # SlotCell(n) /\ SlotCell(k - 1) # 100
      BY <1>1 DEF SlotCell
    <3> QED
      BY <1>4, <3>1, CellFacts
  <2>4. buf'[SlotCell((n + 1) - 1)] = x
    BY <1>1, <1>4
  <2>5. \A k \in 1 .. n : buf[SlotCell(k - 1)] \in Nat
    <3>1. \A k \in 1 .. n : k - 1 \in 0 .. 6
      BY <1>1
    <3> QED
      BY <3>1, CellFacts DEF TypeBuf
  <2>6. Batch(buf) \in Seq(Nat) /\ Len(Batch(buf)) = n
    BY <1>1, <2>1, <2>5
  <2>7. x \in Nat
    BY ByteAssumption
  <2>8. /\ Append(Batch(buf), x) \in Seq(Nat)
        /\ Len(Append(Batch(buf), x)) = n + 1
        /\ \A k \in 1 .. n : Append(Batch(buf), x)[k] = Batch(buf)[k]
        /\ Append(Batch(buf), x)[n + 1] = x
    BY <2>6, <2>7, AppendProperties
  <2>9. \A k \in 1 .. (n + 1) : buf'[SlotCell(k - 1)] = Append(Batch(buf), x)[k]
    <3>1. \A k \in 1 .. n : buf'[SlotCell(k - 1)] = Append(Batch(buf), x)[k]
      BY <2>1, <2>3, <2>8
    <3>2. (n + 1) - 1 = n /\ \A k \in 1 .. (n + 1) : k \in 1 .. n \/ k = n + 1
      BY <1>1
    <3>3. ASSUME NEW k \in 1 .. (n + 1), k = n + 1
          PROVE  buf'[SlotCell(k - 1)] = Append(Batch(buf), x)[k]
      BY <2>4, <2>8, <3>3
    <3> QED
      BY <3>1, <3>2, <3>3
  <2>10. Append(Batch(buf), x) =
           [k \in 1 .. (n + 1) |-> Append(Batch(buf), x)[k]]
    BY <1>1, <2>8, LenProperties
  <2> QED
    BY <2>2, <2>6, <2>9, <2>10
<1>9. UNCHANGED collected
  BY DEF Write_MidiData, hostVars
<1> QED
  BY <1>1, <1>5, <1>6, <1>7, <1>8, <1>9 DEF Abs!Enqueue, AbsPads, AbsDials

LEMMA RefCollect ==
  ASSUME TypeOK, SendHalf, flip = 1
  PROVE  Abs!Collect
<1> USE TypeParts
<1>1. buf' = Collected(buf) /\ collected' = Batch(buf)
  BY DEF SendHalf
<1>2. AbsPads' = AbsPads
  <2>1. \A i \in PadCells : i \in Cells /\ i \in 1 .. 96
    BY PadCellCase, PadCellFacts
  <2>2. \A i \in PadCells : buf'[i] = buf[i]
    BY <1>1, <2>1 DEF Collected
  <2> QED
    BY <2>2, PadCellFacts, SamePads
<1>3. buf'[97] = 0 /\ buf'[100] = 0 /\ \A d \in DIALS : buf'[DialCell(d)] = 0
  BY <1>1, CellFacts DEF Collected
<1>4. AbsDials' = [d \in DIALS |-> 0]
  BY <1>3 DEF AbsDials
<1>5. Batch(buf') = << >>
  BY <1>3 DEF Batch
<1> QED
  BY <1>1, <1>2, <1>3, <1>4, <1>5 DEF Abs!Collect, AbsPads, AbsDials

LEMMA RefStep == TypeOK /\ [Next]_vars => [Abs!Next]_(Abs!vars)
<1> SUFFICES ASSUME TypeOK, [Next]_vars PROVE [Abs!Next]_(Abs!vars)
  OBVIOUS
<1>1. ASSUME UNCHANGED <<buf, collected>> PROVE UNCHANGED Abs!vars
  BY <1>1 DEF Abs!vars, Batch, Pressure, Velocity
<1>2. CASE Main
  <2>1. ASSUME NEW p \in PADS, NEW n \in PRESSURES, NEW v \in VELOCITIES,
               Write_PadData(p, n, v)
        PROVE  Abs!Next
    BY <2>1, RefPadWrite DEF Abs!Next
  <2>2. ASSUME NEW p \in PADS, NEW n \in PRESSURES, Write_PressureOnly(p, n)
        PROVE  Abs!Next
    BY <2>2, RefPressureWrite DEF Abs!Next
  <2>3. ASSUME NEW b \in BUTTONS, Write_ButtonData(b)
        PROVE  Abs!Next
    BY <2>3, RefButtons DEF Abs!Next
  <2>4. ASSUME NEW d \in DIALS, NEW amount \in {-1, 1}, Adjust_Dial(d, amount)
        PROVE  Abs!Next
    BY <2>4, RefTurn DEF Abs!Next
  <2>5. CASE Clear \/ ClearDone
    BY <1>1, <2>5 DEF Clear, ClearDone, bufVars, hostVars
  <2>6. CASE ClearByte
    BY <2>6, RefClearByte DEF Abs!Next
  <2> QED
    BY <1>2, <2>1, <2>2, <2>3, <2>4, <2>5, <2>6 DEF Main
<1>3. ASSUME NEW x \in MESSAGES, Write_MidiData(x)
      PROVE  [Abs!Next]_(Abs!vars)
  <2>1. CASE noOfMidiInMessages <= MIDI_LIMIT
    BY <1>3, <2>1, RefMidi DEF Abs!Next
  <2>2. CASE ~(noOfMidiInMessages <= MIDI_LIMIT)
    BY <1>1, <1>3, <2>2 DEF Write_MidiData, bufVars, hostVars
  <2> QED
    BY <2>1, <2>2
<1>4. CASE SendHalf
  <2>1. CASE flip = 1
    BY <1>4, <2>1, RefCollect DEF Abs!Next
  <2>2. CASE flip # 1
    BY <1>1, <1>4, <2>2 DEF SendHalf, bufVars
  <2> QED
    BY <2>1, <2>2
<1>5. CASE Reset \/ Configure \/ UNCHANGED vars
  BY <1>1, <1>5 DEF Reset, Configure, vars, bufVars, hostVars
<1> QED
  BY <1>2, <1>3, <1>4, <1>5 DEF Next

\* The report of GenericHID.c, with its bytes, halves, counters and byte-wise
\* clearing, implements the abstract report: a pressure-only write keeps the
\* velocity, no write touches another pad or dial, and messages leave in whole
\* batches, in the order they were queued.
THEOREM ReportCorrect == Spec => ReportRefinement
<1>1. Init => Abs!Init
  BY RefInit
<1>2. TypeOK /\ [Next]_vars => [Abs!Next]_(Abs!vars)
  BY RefStep
<1> QED
  BY <1>1, <1>2, TypeCorrect, PTL DEF Spec, ReportRefinement, Abs!Spec

-----------------------------------------------------------------------------
(* What the host sees of a pad.                                            *)

PadStates == (0 .. 511) \X (0 .. 127)

RealType  == real \in [PADS -> PadStates] /\ kept \subseteq {47}

\* The bytes of the buffer are those of the pad's real state, but for a pad
\* that is half cleared and for the byte that a clearing leaves.
Low(p)     == IF HalfCleared(p) THEN 0 ELSE LowByte(real[p][1], real[p][2])
BufPart    == \A p \in PADS :
                /\ buf[LowCell(p)] = Low(p)
                /\ p \notin kept => buf[HighCell(p)] = HighByte(real[p][1])

ShownPart == \A p \in PADS : States(p) \subseteq shown[p]

\* The bytes that the host holds of the first packet.
HeldLow(p)  == \E s \in shown[p] : first[2][LowCell(p)] = LowByte(s[1], s[2])
HeldHigh(p) == \E s \in shown[p] : first[2][HighCell(p)] = HighByte(s[1])
HeldBoth(p) == \E s \in shown[p] : /\ first[2][LowCell(p)] = LowByte(s[1], s[2])
                                   /\ first[2][HighCell(p)] = HighByte(s[1])
Held(p) ==
  /\ Half(LowCell(p)) = 0 => HeldLow(p)
  /\ Half(HighCell(p)) = 0 => HeldHigh(p) /\ (p \notin cut => HeldBoth(p))
FirstPart == (first # Nothing /\ flip = 1) => \A p \in PADS : Held(p)

RealInv == TypeOK /\ RealType /\ BufPart /\ ShownPart /\ FirstPart

\* Only pad 31 has its bytes in different packets, and only pad 47 has one that
\* GenericHID_Clear does not reach.
LEMMA Halves ==
  ASSUME NEW p \in PADS
  PROVE  /\ p <= 30 => Half(LowCell(p)) = 0 /\ Half(HighCell(p)) = 0
         /\ p = 31 => Half(LowCell(p)) = 0 /\ Half(HighCell(p)) = 1
         /\ p >= 32 => Half(LowCell(p)) = 1 /\ Half(HighCell(p)) = 1
         /\ HighCell(p) > ClearEnd <=> p = 47
         /\ HighCell(p) = LowCell(p) + 1 /\ LowCell(p) >= 1
<1>1. p \in 0 .. 47
  BY PadAssumption
<1> QED
  BY <1>1 DEF Half, LowCell, HighCell, ClearEnd

LEMMA RestBytes == LowByte(0, 0) = 0 /\ HighByte(0) = 0 /\ Rest \in PadStates
BY DEF LowByte, HighByte, Rest, PadStates

\* The velocity that a pressure-only write finds in the low byte.
LEMMA VelocityKept ==
  ASSUME NEW n \in 0 .. 511, NEW m \in 0 .. 511, NEW v \in 0 .. 127
  PROVE  LowByte(n, LowByte(m, v)) = LowByte(n, v)
BY DEF LowByte

LEMMA NotClearing ==
  ASSUME clear_at = 0, NEW p \in PADS
  PROVE  ~HalfCleared(p)
BY PadCellFacts DEF HalfCleared

\* What a write does to the bytes and to the real state of its pad.
LEMMA PadWritten ==
  ASSUME TypeOK, RealType, BufPart, clear_at = 0, clear_at' = 0,
         NEW p \in PADS, NEW n \in 0 .. 511, NEW v \in 0 .. 127,
         buf' = [buf EXCEPT ![LowCell(p)] = LowByte(n, v),
                            ![HighCell(p)] = HighByte(n)],
         PadBecomes(p, <<n, v>>)
  PROVE  RealType' /\ BufPart'
<1>1. real' = [real EXCEPT ![p] = <<n, v>>] /\ kept' = kept \ {p}
  BY DEF PadBecomes
<1>2. <<n, v>> \in PadStates
  BY DEF PadStates
<1>3. RealType'
  BY <1>1, <1>2 DEF RealType
<1>4. ASSUME NEW q \in PADS
      PROVE  /\ buf'[LowCell(q)] = Low(q)'
             /\ q \notin kept' => buf'[HighCell(q)] = HighByte(real'[q][1])
  <2>1. ~HalfCleared(q) /\ ~HalfCleared(q)'
    BY PadCellFacts DEF HalfCleared
  <2>2. /\ buf \in [Cells -> Nat]
        /\ LowCell(p) \in Cells /\ HighCell(p) \in Cells
        /\ LowCell(q) \in Cells /\ HighCell(q) \in Cells
    BY PadCellFacts DEF TypeOK
  <2>3. CASE q = p
    <3>1. real'[q] = <<n, v>>
      BY <1>1, <2>3 DEF RealType
    <3>2. buf'[LowCell(q)] = LowByte(n, v) /\ buf'[HighCell(q)] = HighByte(n)
      BY <2>2, <2>3, PadCellsApart
    <3> QED
      BY <2>1, <3>1, <3>2 DEF Low
  <2>4. CASE q # p
    <3>1. real'[q] = real[q] /\ (q \in kept' <=> q \in kept)
      BY <1>1, <2>4 DEF RealType
    <3>2. /\ LowCell(q) # LowCell(p) /\ LowCell(q) # HighCell(p)
          /\ HighCell(q) # LowCell(p) /\ HighCell(q) # HighCell(p)
      BY <2>4, PadCellsApart
    <3>3. buf'[LowCell(q)] = buf[LowCell(q)] /\ buf'[HighCell(q)] = buf[HighCell(q)]
      BY <2>2, <3>2
    <3> QED
      BY <2>1, <3>1, <3>3 DEF Low, BufPart
  <2> QED
    BY <2>3, <2>4
<1> QED
  BY <1>3, <1>4 DEF BufPart

\* One byte of the clearing.
LEMMA ByteCleared ==
  ASSUME TypeOK, RealType, BufPart, ClearByte
  PROVE  RealType' /\ BufPart'
<1>1. PICK i \in ToClear :
        /\ \A j \in ToClear : i <= j
        /\ buf' = [buf EXCEPT ![i] = 0]
        /\ clear_at' = i + 1
        /\ real' = [p \in PADS |-> IF i = HighCell(p) THEN Rest ELSE real[p]]
  BY DEF ClearByte
<1>2. UNCHANGED kept
  BY DEF ClearByte
<1>3. i \in PadCells /\ clear_at <= i /\ i <= ClearEnd /\ i \in Cells
  BY <1>1, PadCellCase, PadCellFacts DEF ToClear
<1>i. i \in Nat
  BY <1>3, CellFacts
<1>4. clear_at \in Nat /\ buf \in [Cells -> Nat] /\ clear_at # 0
  BY DEF TypeOK, ClearByte
<1>5. RealType'
  BY <1>1, <1>2, RestBytes DEF RealType
<1>6. ASSUME NEW q \in PADS
      PROVE  /\ buf'[LowCell(q)] = Low(q)'
             /\ q \notin kept' => buf'[HighCell(q)] = HighByte(real'[q][1])
  <2>0. /\ LowCell(q) \in Cells /\ HighCell(q) \in Cells
        /\ LowCell(q) \in PadCells /\ HighCell(q) \in PadCells
        /\ HighCell(q) = LowCell(q) + 1 /\ LowCell(q) \in Nat
    BY PadCellFacts, Halves
  <2>1. CASE i = LowCell(q)
    <3>1. HalfCleared(q)'
      BY <1>1, <2>0, <2>1 DEF HalfCleared
    <3>2. buf'[LowCell(q)] = 0 /\ buf'[HighCell(q)] = buf[HighCell(q)]
      BY <1>1, <1>4, <2>0, <2>1
    <3>3. real'[q] = real[q]
      BY <1>1, <2>0, <2>1
    <3> QED
      BY <1>2, <3>1, <3>2, <3>3 DEF Low, BufPart
  <2>2. CASE i = HighCell(q)
    <3>1. LowCell(q) \notin ToClear
      BY <1>1, <2>0, <2>2
    <3>2. clear_at = HighCell(q)
      BY <1>3, <1>4, <2>0, <2>2, <3>1 DEF ToClear, ClearEnd
    <3>3. HalfCleared(q)
      BY <3>2 DEF HalfCleared
    <3>4. buf[LowCell(q)] = 0
      BY <3>3 DEF BufPart, Low
    <3>5. buf'[LowCell(q)] = 0 /\ buf'[HighCell(q)] = 0
      BY <1>1, <1>4, <2>0, <2>2, <3>4
    <3>6. real'[q] = <<0, 0>>
      BY <1>1, <2>2 DEF Rest
    <3>7. ~HalfCleared(q)'
      BY <1>1, <2>0, <2>2 DEF HalfCleared
    <3>8. Low(q)' = LowByte(real'[q][1], real'[q][2])
      BY <3>7 DEF Low
    <3> QED
      BY <3>5, <3>6, <3>8, RestBytes
  <2>3. CASE i # LowCell(q) /\ i # HighCell(q)
    <3>1. ~HalfCleared(q)
      <4> SUFFICES ASSUME clear_at = HighCell(q) PROVE FALSE
        BY DEF HalfCleared
      <4>1. HighCell(q) <= i /\ HighCell(q) <= ClearEnd
        BY <1>3, <1>i, <2>0 DEF ClearEnd
      <4>2. HighCell(q) \in ToClear
        BY <1>4, <2>0, <4>1 DEF ToClear
      <4>3. i <= HighCell(q)
        BY <1>1, <4>2
      <4> QED
        BY <1>i, <2>0, <2>3, <4>1, <4>3
    <3>2. clear_at' # HighCell(q)
      BY <1>1, <1>i, <2>0, <2>3
    <3>2a. ~HalfCleared(q)'
      BY <3>2 DEF HalfCleared
    <3>3. /\ buf'[LowCell(q)] = buf[LowCell(q)]
          /\ buf'[HighCell(q)] = buf[HighCell(q)]
          /\ real'[q] = real[q]
      BY <1>1, <1>4, <2>0, <2>3
    <3> QED
      BY <1>2, <3>1, <3>2a, <3>3 DEF Low, BufPart
  <2> QED
    BY <2>1, <2>2, <2>3
<1> QED
  BY <1>5, <1>6 DEF BufPart

\* The end of the clearing, which finds pad 47 half cleared.
LEMMA ClearingEnds ==
  ASSUME TypeOK, RealType, BufPart, ClearDone
  PROVE  RealType' /\ BufPart'
<1>1. /\ clear_at' = 0 /\ ToClear = {} /\ buf' = buf
      /\ kept' = {p \in PADS : HighCell(p) > ClearEnd}
      /\ real' = [p \in PADS |-> IF p \in kept' THEN Rest ELSE real[p]]
  BY DEF ClearDone, bufVars
<1>2. clear_at \in 0 .. ClearEnd + 1
  BY DEF TypeOK
<1>3. RealType'
  <2>1. kept' \subseteq {47}
    BY <1>1, Halves
  <2> QED
    BY <1>1, <2>1, RestBytes DEF RealType
<1>4. ASSUME NEW q \in PADS
      PROVE  /\ buf'[LowCell(q)] = Low(q)'
             /\ q \notin kept' => buf'[HighCell(q)] = HighByte(real'[q][1])
  <2>0. /\ LowCell(q) \in PadCells /\ HighCell(q) \in PadCells
        /\ HighCell(q) = LowCell(q) + 1 /\ LowCell(q) \in 1 .. 95
    BY PadCellFacts, Halves
  <2>1. Low(q)' = LowByte(real'[q][1], real'[q][2])
    BY <1>1, <2>0 DEF Low, HalfCleared
  <2>2. CASE q \in kept'
    <3>1. HighCell(q) > ClearEnd
      BY <1>1, <2>2
    <3>2. LowCell(q) \notin ToClear
      BY <1>1
    <3>3. clear_at = HighCell(q)
      BY <1>2, <2>0, <3>1, <3>2 DEF ToClear, ClearEnd
    <3>4. buf[LowCell(q)] = 0
      BY <3>3 DEF BufPart, Low, HalfCleared
    <3>5. real'[q] = <<0, 0>>
      BY <1>1, <2>2 DEF Rest
    <3> QED
      BY <1>1, <2>1, <2>2, <3>4, <3>5, RestBytes
  <2>3. CASE q \notin kept'
    <3>1. HighCell(q) <= ClearEnd /\ q # 47
      BY <1>1, <2>0, <2>3, Halves DEF ClearEnd
    <3>2. HighCell(q) \notin ToClear
      BY <1>1
    <3>3. ~HalfCleared(q)
      BY <1>2, <2>0, <3>1, <3>2 DEF ToClear, HalfCleared
    <3>4. q \notin kept /\ real'[q] = real[q]
      BY <1>1, <2>3, <3>1 DEF RealType
    <3> QED
      BY <1>1, <2>1, <3>3, <3>4 DEF BufPart, Low
  <2> QED
    BY <2>2, <2>3
<1> QED
  BY <1>3, <1>4 DEF BufPart

\* What the host holds stays explained while the shown states only grow.
LEMMA HeldGrows ==
  ASSUME FirstPart, UNCHANGED <<first, flip, cut>>,
         \A p \in PADS : shown[p] \subseteq shown'[p]
  PROVE  FirstPart'
BY DEF FirstPart, Held, HeldLow, HeldHigh, HeldBoth

LEMMA Remembered ==
  ASSUME Remember
  PROVE  ShownPart' /\ \A p \in PADS : shown[p] \subseteq shown'[p]
BY DEF Remember, ShownPart

\* A step that leaves the pads alone.
LEMMA RealQuiet ==
  ASSUME RealType, BufPart, ShownPart, UNCHANGED <<real, shown, kept>>,
         \A i \in PadCells : buf'[i] = buf[i],
         \A p \in PADS : HalfCleared(p)' <=> HalfCleared(p)
  PROVE  RealType' /\ BufPart' /\ ShownPart'
<1>1. RealType'
  BY DEF RealType
<1>2. BufPart'
  BY PadCellFacts DEF BufPart, Low
<1>3. ShownPart'
  BY DEF ShownPart, States
<1> QED
  BY <1>1, <1>2, <1>3

LEMMA RealMain == RealInv /\ Main => RealType' /\ BufPart' /\ ShownPart' /\ FirstPart'
<1> SUFFICES ASSUME RealInv, Main
             PROVE  RealType' /\ BufPart' /\ ShownPart' /\ FirstPart'
  OBVIOUS
<1>1. TypeOK /\ RealType /\ BufPart /\ ShownPart /\ FirstPart
  BY DEF RealInv
<1>2. UNCHANGED <<first, flip, cut>>
  BY DEF Main, Write_PadData, Write_PressureOnly, Write_ButtonData, Adjust_Dial,
         MainWrites, PadBecomes, Clear, ClearByte, ClearDone, hostVars, usbVars, padVars
<1>3. ASSUME Remember PROVE ShownPart' /\ FirstPart'
  BY <1>1, <1>2, <1>3, Remembered, HeldGrows
<1>4. ASSUME NEW p \in PADS, NEW n \in PRESSURES, NEW v \in VELOCITIES,
             Write_PadData(p, n, v)
      PROVE  RealType' /\ BufPart' /\ Remember
  <2>1. n \in 0 .. 511 /\ v \in 0 .. 127
    BY ByteAssumption
  <2>2. /\ clear_at = 0 /\ clear_at' = 0 /\ PadBecomes(p, <<n, v>>)
        /\ buf' = [buf EXCEPT ![LowCell(p)] = LowByte(n, v),
                              ![HighCell(p)] = HighByte(n)]
    BY <1>4 DEF Write_PadData, MainWrites
  <2>3. RealType' /\ BufPart'
    BY <1>1, <2>1, <2>2, PadWritten
  <2> QED
    BY <2>2, <2>3 DEF PadBecomes
<1>5. ASSUME NEW p \in PADS, NEW n \in PRESSURES, Write_PressureOnly(p, n)
      PROVE  RealType' /\ BufPart' /\ Remember
  <2>1. n \in 0 .. 511 /\ real[p][1] \in 0 .. 511 /\ real[p][2] \in 0 .. 127
    BY <1>1, ByteAssumption DEF RealType, PadStates
  <2>2. /\ clear_at = 0 /\ clear_at' = 0 /\ PadBecomes(p, <<n, real[p][2]>>)
        /\ buf' = [buf EXCEPT ![LowCell(p)] = LowByte(n, @),
                              ![HighCell(p)] = HighByte(n)]
    BY <1>5 DEF Write_PressureOnly, MainWrites
  <2>3. buf[LowCell(p)] = LowByte(real[p][1], real[p][2])
    BY <1>1, <2>2, NotClearing DEF BufPart, Low
  <2> DEFINE m == real[p][1]
             v == real[p][2]
  <2>4. LowByte(n, buf[LowCell(p)]) = LowByte(n, v)
    <3>1. m \in 0 .. 511 /\ v \in 0 .. 127 /\ buf[LowCell(p)] = LowByte(m, v)
      BY <2>1, <2>3
    <3> HIDE DEF m, v
    <3>2. LowByte(n, LowByte(m, v)) = LowByte(n, v)
      BY <2>1, <3>1, VelocityKept
    <3> QED
      BY <3>1, <3>2, Zenon
  <2>5. buf' = [buf EXCEPT ![LowCell(p)] = LowByte(n, real[p][2]),
                           ![HighCell(p)] = HighByte(n)]
    BY <2>2, <2>4
  <2>6. RealType' /\ BufPart'
    BY <1>1, <2>1, <2>2, <2>5, PadWritten
  <2> QED
    BY <2>2, <2>6 DEF PadBecomes
<1>6. ASSUME UNCHANGED <<clear_at, padVars>>, \A i \in PadCells : buf'[i] = buf[i]
      PROVE  RealType' /\ BufPart' /\ ShownPart' /\ FirstPart'
  <2>1. UNCHANGED <<real, shown, kept>>
    BY <1>6 DEF padVars
  <2>2. \A p \in PADS : HalfCleared(p)' <=> HalfCleared(p)
    BY <1>6 DEF HalfCleared
  <2>3. RealType' /\ BufPart' /\ ShownPart'
    BY <1>1, <1>6, <2>1, <2>2, RealQuiet
  <2> QED
    BY <1>1, <1>2, <2>1, <2>3, HeldGrows
<1>7. ASSUME NEW b \in BUTTONS, Write_ButtonData(b)
      PROVE  RealType' /\ BufPart' /\ ShownPart' /\ FirstPart'
  <2>1. UNCHANGED <<clear_at, padVars>> /\ buf' = [buf EXCEPT ![97] = b]
    BY <1>7 DEF Write_ButtonData, MainWrites
  <2>2. \A i \in PadCells : i \in Cells /\ i # 97
    BY PadCellCase, PadCellFacts
  <2>3. \A i \in PadCells : buf'[i] = buf[i]
    BY <1>1, <2>1, <2>2 DEF TypeOK
  <2> QED
    BY <1>6, <2>1, <2>3
<1>8. ASSUME NEW d \in DIALS, NEW amount \in {-1, 1}, Adjust_Dial(d, amount)
      PROVE  RealType' /\ BufPart' /\ ShownPart' /\ FirstPart'
  <2>1. UNCHANGED <<clear_at, padVars>>
        /\ buf' = [buf EXCEPT ![DialCell(d)] = (@ + amount) % 256]
    BY <1>8 DEF Adjust_Dial, MainWrites
  <2>2. \A i \in PadCells : i \in Cells /\ i # DialCell(d)
    BY PadCellCase, PadCellFacts, CellFacts
  <2>3. \A i \in PadCells : buf'[i] = buf[i]
    BY <1>1, <2>1, <2>2 DEF TypeOK
  <2> QED
    BY <1>6, <2>1, <2>3
<1>9. CASE Clear
  <2>1. clear_at = 0 /\ clear_at' = 1 /\ UNCHANGED <<buf, real, shown, kept>>
    BY <1>9 DEF Clear, bufVars, padVars
  <2>2. \A p \in PADS : HalfCleared(p)' <=> HalfCleared(p)
    BY <2>1, PadCellFacts DEF HalfCleared
  <2>3. RealType' /\ BufPart' /\ ShownPart'
    BY <1>1, <2>1, <2>2, RealQuiet
  <2> QED
    BY <1>1, <1>2, <2>1, <2>3, HeldGrows
<1>10. CASE ClearByte
  BY <1>1, <1>3, <1>10, ByteCleared DEF ClearByte
<1>11. CASE ClearDone
  BY <1>1, <1>3, <1>11, ClearingEnds DEF ClearDone
<1> QED
  BY <1>3, <1>4, <1>5, <1>7, <1>8, <1>9, <1>10, <1>11 DEF Main

\* The first packet takes bytes that the pads have now.
LEMMA FirstSent ==
  ASSUME RealInv, SendHalf, first' # Nothing, flip' = 1, NEW p \in PADS
  PROVE  Held(p)'
<1>1. TypeOK /\ RealType /\ BufPart
  BY DEF RealInv
<1>2. first = Nothing /\ flip = 0
  BY <1>1 DEF SendHalf, HostReceives, NextFlip, TypeOK
<1>3. /\ first'[2] = [i \in {j \in Cells : Half(j) = 0} |-> buf[i]]
      /\ shown'[p] = States(p) /\ (p \in cut' <=> HalfCleared(p))
  BY <1>2 DEF SendHalf, HostReceives
<1>4. real[p] \in States(p) /\ (HalfCleared(p) => Rest \in States(p))
  BY DEF States
<1>5. Half(LowCell(p)) = 0 => first'[2][LowCell(p)] = Low(p)
  BY <1>1, <1>3, PadCellFacts DEF BufPart
<1>6. Half(HighCell(p)) = 0 => first'[2][HighCell(p)] = HighByte(real[p][1])
  <2>1. Half(HighCell(p)) = 0 => p # 47
    BY Halves
  <2> QED
    BY <1>1, <1>3, <2>1, PadCellFacts DEF BufPart, RealType
<1>7. Half(HighCell(p)) = 0 => Half(LowCell(p)) = 0
  <2>1. p \in 0 .. 47
    BY PadAssumption
  <2> QED
    BY <2>1, Halves
<1>8. CASE HalfCleared(p)
  <2>1. Half(LowCell(p)) = 0 => first'[2][LowCell(p)] = LowByte(Rest[1], Rest[2])
    BY <1>5, <1>8, RestBytes DEF Low, Rest
  <2> QED
    BY <1>3, <1>4, <1>6, <1>8, <2>1 DEF Held, HeldLow, HeldHigh
<1>9. CASE ~HalfCleared(p)
  <2>1. Half(LowCell(p)) = 0
          => first'[2][LowCell(p)] = LowByte(real[p][1], real[p][2])
    BY <1>5, <1>9 DEF Low
  <2> QED
    BY <1>3, <1>4, <1>6, <1>7, <2>1 DEF Held, HeldLow, HeldHigh, HeldBoth
<1> QED
  BY <1>8, <1>9

LEMMA RealStep == RealInv /\ [Next]_vars => RealInv'
<1> SUFFICES ASSUME RealInv, [Next]_vars PROVE RealInv'
  OBVIOUS
<1>0. TypeOK'
  BY TypeStep DEF RealInv
<1>1. TypeOK /\ RealType /\ BufPart /\ ShownPart /\ FirstPart
  BY DEF RealInv
<1>2. CASE Main
  BY <1>0, <1>2, RealMain DEF RealInv
<1>3. ASSUME UNCHANGED <<clear_at, real, kept>>, \A i \in PadCells : buf'[i] = buf[i]
      PROVE  /\ RealType' /\ BufPart'
             /\ UNCHANGED shown => ShownPart'
             /\ UNCHANGED <<shown, first, flip, cut>> => FirstPart'
  <2>1. \A p \in PADS : HalfCleared(p)' <=> HalfCleared(p)
    BY <1>3 DEF HalfCleared
  <2>2. RealType'
    BY <1>1, <1>3 DEF RealType
  <2>3. BufPart'
    BY <1>1, <1>3, <2>1, PadCellFacts DEF BufPart, Low
  <2>4. UNCHANGED shown => ShownPart'
    BY <1>1, <1>3, <2>1 DEF ShownPart, States
  <2>5. UNCHANGED <<shown, first, flip, cut>> => FirstPart'
    BY <1>1, HeldGrows
  <2> QED
    BY <2>2, <2>3, <2>4, <2>5
<1>4. ASSUME NEW x \in MESSAGES, Write_MidiData(x)
      PROVE  RealInv'
  <2>1. \A i \in PadCells : buf'[i] = buf[i]
    <3>1. CASE noOfMidiInMessages <= MIDI_LIMIT
      <4>1. noOfMidiInMessages \in 0 .. 6
        BY <1>1, <3>1 DEF TypeOK, MIDI_LIMIT
      <4>2. SlotCell(noOfMidiInMessages) \notin PadCells /\ 100 \notin PadCells
        BY <4>1, NotPadCells
      <4>3. \A i \in PadCells : i \in Cells
        BY PadCellCase, PadCellFacts
      <4> QED
        BY <1>1, <1>4, <3>1, <4>2, <4>3 DEF Write_MidiData, TypeOK
    <3>2. CASE ~(noOfMidiInMessages <= MIDI_LIMIT)
      BY <1>4, <3>2 DEF Write_MidiData, bufVars
    <3> QED
      BY <3>1, <3>2
  <2>2. UNCHANGED <<clear_at, real, kept, shown, flip, first, cut>>
    BY <1>4 DEF Write_MidiData, hostVars, usbVars, padVars
  <2> QED
    BY <1>0, <1>3, <2>1, <2>2 DEF RealInv
<1>5. CASE SendHalf
  <2>0. \A i \in PadCells : i \in Cells /\ i \in 1 .. 96
    BY PadCellCase, PadCellFacts
  <2>1. \A i \in PadCells : buf'[i] = buf[i]
    BY <1>5, <2>0 DEF SendHalf, Collected, bufVars
  <2>2. UNCHANGED <<clear_at, real, kept>>
    BY <1>5 DEF SendHalf
  <2>3. ShownPart'
    <3>1. CASE UNCHANGED shown
      BY <1>3, <2>1, <2>2, <3>1
    <3>2. CASE shown' = [p \in PADS |-> States(p)]
      <4>1. \A p \in PADS : States(p)' = States(p)
        BY <2>2 DEF States, HalfCleared
      <4> QED
        BY <3>2, <4>1 DEF ShownPart
    <3> QED
      BY <1>5, <3>1, <3>2 DEF SendHalf, HostReceives
  <2>4. FirstPart'
    BY <1>5, FirstSent DEF FirstPart
  <2> QED
    BY <1>0, <1>3, <2>1, <2>2, <2>3, <2>4 DEF RealInv
<1>6. CASE Reset
  <2>1. first' = Nothing /\ UNCHANGED <<buf, clear_at, real, kept, shown>>
    BY <1>6 DEF Reset, bufVars, padVars
  <2>2. FirstPart'
    BY <2>1 DEF FirstPart
  <2> QED
    BY <1>0, <1>3, <2>1, <2>2 DEF RealInv
<1>7. CASE Configure \/ UNCHANGED vars
  <2>1. UNCHANGED <<buf, clear_at, real, kept, shown, flip, first, cut>>
    BY <1>7 DEF Configure, vars, bufVars, hostVars, usbVars, padVars
  <2> QED
    BY <1>0, <1>3, <2>1 DEF RealInv
<1> QED
  BY <1>2, <1>4, <1>5, <1>6, <1>7 DEF Next

\* What the host puts together of a pad, with the second packet from the buffer.
Put == [i \in PadCells |-> IF Half(i) = 0 THEN first[2][i] ELSE buf[i]]

Explained(p) == \E low, high \in shown[p] :
  /\ Put[LowCell(p)] = LowByte(low[1], low[2])
  /\ p \notin kept => Put[HighCell(p)] = HighByte(high[1])
  /\ (p # 31 /\ p \notin CutByClear \cup kept) => low = high

LEMMA PutTogether ==
  ASSUME RealInv, first # Nothing, flip = 1, NEW p \in PADS
  PROVE  Explained(p)
<1>1. RealType /\ BufPart /\ ShownPart /\ Held(p)
  BY DEF RealInv, FirstPart
<1>2. LowCell(p) \in PadCells /\ HighCell(p) \in PadCells /\ p \in 0 .. 47
  BY PadCellFacts
<1>3. real[p] \in shown[p] /\ (HalfCleared(p) => Rest \in shown[p])
  BY <1>1 DEF ShownPart, States
<1>4. /\ Half(LowCell(p)) = 0 => Put[LowCell(p)] = first[2][LowCell(p)]
      /\ Half(HighCell(p)) = 0 => Put[HighCell(p)] = first[2][HighCell(p)]
      /\ Half(LowCell(p)) = 1 => Put[LowCell(p)] = Low(p)
      /\ Half(HighCell(p)) = 1 /\ p \notin kept
           => Put[HighCell(p)] = HighByte(real[p][1])
  BY <1>1, <1>2 DEF Put, BufPart
<1>5. CASE p <= 30
  <2>1. Half(LowCell(p)) = 0 /\ Half(HighCell(p)) = 0
    BY <1>5, Halves
  <2>2. CASE p \in cut
    <3>1. PICK low \in shown[p] : first[2][LowCell(p)] = LowByte(low[1], low[2])
      BY <1>1, <2>1 DEF Held, HeldLow
    <3>2. PICK high \in shown[p] : first[2][HighCell(p)] = HighByte(high[1])
      BY <1>1, <2>1 DEF Held, HeldHigh
    <3> QED
      BY <1>4, <2>1, <2>2, <3>1, <3>2 DEF Explained, CutByClear
  <2>3. CASE p \notin cut
    <3>1. PICK s \in shown[p] : /\ first[2][LowCell(p)] = LowByte(s[1], s[2])
                                /\ first[2][HighCell(p)] = HighByte(s[1])
      BY <1>1, <2>1, <2>3 DEF Held, HeldBoth
    <3> QED
      BY <1>4, <2>1, <3>1 DEF Explained
  <2> QED
    BY <2>2, <2>3
<1>6. CASE p = 31
  <2>1. Half(LowCell(p)) = 0 /\ Half(HighCell(p)) = 1
    BY <1>6, Halves
  <2>2. PICK low \in shown[p] : first[2][LowCell(p)] = LowByte(low[1], low[2])
    BY <1>1, <2>1 DEF Held, HeldLow
  <2> QED
    BY <1>3, <1>4, <1>6, <2>1, <2>2 DEF Explained
<1>7. CASE p >= 32
  <2>1. Half(LowCell(p)) = 1 /\ Half(HighCell(p)) = 1
    BY <1>7, Halves
  <2>2. CASE HalfCleared(p)
    <3>1. Put[LowCell(p)] = LowByte(Rest[1], Rest[2])
      BY <1>4, <2>1, <2>2, RestBytes DEF Low, Rest
    <3>2. p \in CutByClear
      BY <2>1, <2>2 DEF CutByClear
    <3> QED
      BY <1>3, <1>4, <2>1, <2>2, <3>1, <3>2 DEF Explained
  <2>3. CASE ~HalfCleared(p)
    <3>1. Put[LowCell(p)] = LowByte(real[p][1], real[p][2])
      BY <1>4, <2>1, <2>3 DEF Low
    <3> QED
      BY <1>3, <1>4, <2>1, <3>1 DEF Explained
  <2> QED
    BY <2>2, <2>3
<1> QED
  BY <1>2, <1>5, <1>6, <1>7

\* What the host is shown of every pad, for every set of pads and values, comes
\* from states that the pad had since the report was begun: both bytes from one
\* and the same, except of pad 31, of a pad that GenericHID_Clear has in work,
\* and of pad 47 while it holds the byte that the clearing leaves.
THEOREM RealStatesCorrect == Spec => ReportedStatesWereReal
<1>1. Init => RealInv
  <2> SUFFICES ASSUME Init PROVE RealInv
    OBVIOUS
  <2>1. ASSUME NEW p \in PADS
        PROVE  /\ buf[LowCell(p)] = 0 /\ buf[HighCell(p)] = 0
               /\ real[p] = <<0, 0>> /\ ~HalfCleared(p)
               /\ shown[p] = {Rest}
    <3>1. LowCell(p) # 0 /\ HighCell(p) # 0
      BY PadCellFacts
    <3> QED
      BY <3>1, PadCellFacts DEF Init, Rest, HalfCleared
  <2>2. RealType
    BY RestBytes DEF Init, RealType
  <2>3. BufPart
    <3>1. ASSUME NEW p \in PADS
          PROVE  Low(p) = 0 /\ HighByte(real[p][1]) = 0
      <4>1. Low(p) = LowByte(real[p][1], real[p][2])
        BY <2>1 DEF Low
      <4>2. real[p][1] = 0 /\ real[p][2] = 0
        BY <2>1
      <4> QED
        BY <4>1, <4>2, RestBytes
    <3> QED
      BY <2>1, <3>1 DEF BufPart
  <2>4. ShownPart
    BY <2>1 DEF ShownPart, States, Rest
  <2>5. FirstPart
    BY DEF Init, FirstPart
  <2> QED
    BY <2>2, <2>3, <2>4, <2>5, TypeInit DEF RealInv
<1>2. RealInv /\ [Next]_vars => RealInv'
  BY RealStep
<1>3. RealInv => ((first # Nothing /\ flip = 1 /\ flip' = 0) =>
        \A p \in PADS : Explained(p))
  BY PutTogether
<1>4. RealInv =>
        [(first # Nothing /\ flip = 1 /\ flip' = 0) =>
           LET report == [i \in PadCells |-> IF Half(i) = 0 THEN first[2][i] ELSE buf[i]]
           IN \A p \in PADS : \E low, high \in shown[p] :
                /\ report[LowCell(p)] = LowByte(low[1], low[2])
                /\ p \notin kept => report[HighCell(p)] = HighByte(high[1])
                /\ (p # 31 /\ p \notin CutByClear \cup kept) => low = high]_vars
  BY <1>3 DEF Explained, Put
<1> QED
  BY <1>1, <1>2, <1>4, PTL DEF Spec, ReportedStatesWereReal
=============================================================================
