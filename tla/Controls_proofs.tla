--------------------------- MODULE Controls_proofs ---------------------------
(***************************************************************************)
(* Theorems about Controls: the types, one click per step of an encoder,   *)
(* and one press per press of a button, for every number of visits and     *)
(* every way of pressing, bouncing and turning.                            *)
(***************************************************************************)
EXTENDS Controls, TLAPS

-----------------------------------------------------------------------------
(* The operators.                                                          *)

LEMMA Quarters ==
  /\ Pins(0) = 3 /\ Pins(1) = 2 /\ Pins(2) = 0 /\ Pins(3) = 1
BY DEF Pins

LEMMA Turned ==
  ASSUME NEW q \in 0 .. 3, NEW d \in Ways
  PROVE  (q + d) % 4 = IF d = 1 THEN (IF q = 3 THEN 0 ELSE q + 1)
                                ELSE (IF q = 0 THEN 3 ELSE q - 1)
BY DEF Ways

LEMMA Remainder ==
  ASSUME NEW a \in Int, BYTE \in Nat, BYTE > 2
  PROVE  a % BYTE \in 0 .. BYTE - 1
OBVIOUS

LEMMA Clicks ==
  ASSUME NEW a, NEW b, NEW c
  PROVE  Amount(<<a, b, c>>) = IF a = 3 /\ b = 1 /\ c = 0 THEN -1
                               ELSE IF a = 3 /\ b = 2 /\ c = 0 THEN 1 ELSE 0
BY DEF Amount

LEMMA ShiftType ==
  ASSUME NEW e \in Encoders, dial_state \in [Encoders -> Histories],
         shaft \in [Encoders -> 0 .. 3]
  PROVE  /\ Shift(e) \in Histories
         /\ Shift(e) = <<dial_state[e][2], dial_state[e][3], Pins(shaft[e])>>
         /\ Pins(shaft[e]) \in 0 .. 3
<1>1. dial_state[e] \in Histories /\ shaft[e] \in 0 .. 3
  OBVIOUS
<1>2. Pins(shaft[e]) \in 0 .. 3
  BY <1>1, Quarters
<1>3. dial_state[e][2] \in 0 .. 3 /\ dial_state[e][3] \in 0 .. 3
  BY <1>1 DEF Histories
<1> QED
  BY <1>2, <1>3 DEF Shift, Histories

-----------------------------------------------------------------------------
(* Inductive invariants.                                                   *)

\* The quarter at which main has last read encoder e, when its stretch is sure.
LastRead(e) == IF unread[e] THEN (IF way[e] = 1 THEN (IF shaft[e] = 0 THEN 3 ELSE shaft[e] - 1)
                                               ELSE (IF shaft[e] = 3 THEN 0 ELSE shaft[e] + 1))
               ELSE shaft[e]

First(e) == IF way[e] = 1 THEN 1 ELSE 3

\* In a sure stretch the history ends with the last quarter read, begins at the
\* detent, and has counted from the second quarter on.
InStep(e) ==
  sure[e] =>
    /\ dial_state[e][3] = Pins(LastRead(e))
    /\ LastRead(e) = First(e) => dial_state[e][2] = 3
    /\ gained[e] = IF LastRead(e) = First(e) \/ (LastRead(e) = 0 /\ unread[e])
                   THEN 0 ELSE way[e]

UpToDate(e) == ~ unread[e] => dial_state[e][3] = Pins(shaft[e])

CountInv == TypeOK /\ \A e \in Encoders : InStep(e) /\ UpToDate(e)

\* A button that was pressed after its release had been read, and has been seen
\* down, does not bounce.
QuietInv ==
  TypeOK /\ \A s \in Switches :
              s \in held /\ s \in fresh /\ Bit[s] \in buttons => s \notin bounces

-----------------------------------------------------------------------------
(* Types.                                                                  *)

LEMMA InitType == Init => TypeOK
<1> SUFFICES ASSUME Init PROVE TypeOK
  OBVIOUS
<1>1. <<0, 0, 0>> \in Histories
  BY DEF Histories
<1> QED
  BY <1>1, ControlsAssumption DEF Init, TypeOK, Encoders, Ways

LEMMA UserType ==
  ASSUME TypeOK, User
  PROVE  TypeOK'
<1>1. ASSUME NEW s \in PRESSED, Press(s) PROVE TypeOK'
  BY <1>1, ControlsAssumption DEF TypeOK, Press, mainVars, byteVars, pastVars
<1>2. ASSUME NEW s \in PRESSED, Release(s) PROVE TypeOK'
  BY <1>2, ControlsAssumption DEF TypeOK, Release, mainVars, byteVars, pastVars
<1>3. ASSUME NEW s \in PRESSED, Settle(s) PROVE TypeOK'
  BY <1>3, ControlsAssumption DEF TypeOK, Settle, mainVars, byteVars, pastVars
<1>4. ASSUME NEW e \in TURNED, NEW d \in Ways, Turn(e, d) PROVE TypeOK'
  <2>1. e \in Encoders /\ shaft[e] \in 0 .. 3
    BY ControlsAssumption DEF TypeOK
  <2>2. (shaft[e] + d) % 4 \in 0 .. 3
    BY <2>1, Turned
  <2>3. sure' \in [Encoders -> BOOLEAN]
    BY <1>4 DEF TypeOK, Turn
  <2>4. way' \in [Encoders -> Ways] /\ gained' \in [Encoders -> {-1, 0, 1}]
    BY <1>4 DEF TypeOK, Turn, Ways
  <2>5. shaft' \in [Encoders -> 0 .. 3] /\ unread' \in [Encoders -> BOOLEAN]
    BY <1>4, <2>2 DEF TypeOK, Turn
  <2> QED
    BY <1>4, <2>3, <2>4, <2>5 DEF TypeOK, Turn, mainVars, byteVars
<1> QED
  BY <1>1, <1>2, <1>3, <1>4 DEF User

LEMMA SwitchType ==
  ASSUME TypeOK, NEW s \in Switches, ReadSwitch(s)
  PROVE  TypeOK'
<1>1. Bit[s] \in 1 .. 3 /\ s \in 0 .. 3
  BY DEF Bit, Switches, SW2, SW3, SW4
<1>2. PICK low \in BOOLEAN :
        /\ buttons' = (buttons \ {Bit[s]}) \cup (IF low THEN {Bit[s]} ELSE {})
        /\ Played(s, low)
        /\ bounces' = IF low /\ Bit[s] \notin buttons THEN {} ELSE bounces
  BY DEF ReadSwitch
<1>3. buttons' \subseteq 0 .. 3
  <2>1. buttons' \subseteq buttons \cup {Bit[s]}
    BY <1>2
  <2> QED
    BY <2>1, <1>1 DEF TypeOK
<1>4. button_byte' \subseteq 0 .. 7
  BY <1>3 DEF ReadSwitch
<1>5. being_played' \in [0 .. 4 -> BOOLEAN]
  BY <1>2 DEF TypeOK, Played
<1>6. mux' \in 0 .. 5
  BY <1>1 DEF ReadSwitch
<1>7. bounces' \subseteq Switches
  BY <1>2 DEF TypeOK
<1> QED
  BY <1>3, <1>4, <1>5, <1>6, <1>7 DEF TypeOK, ReadSwitch, pastVars

\* What a read adds in a sure stretch.
LEMMA StretchCounts ==
  ASSUME CountInv, NEW e \in Encoders, EncoderMoved(e), sure[e]
  PROVE  /\ gained[e] + Amount(Shift(e)) \in {-1, 0, 1}
         /\ gained[e] + Amount(Shift(e)) = IF shaft[e] = First(e) THEN 0 ELSE way[e]
<1> DEFINE h == dial_state[e]
<1>1. /\ shaft[e] \in 0 .. 3 /\ way[e] \in Ways /\ InStep(e) /\ UpToDate(e)
      /\ h \in Histories /\ unread[e] \in BOOLEAN
  BY DEF CountInv, TypeOK
<1>2. Pins(shaft[e]) # h[3] /\ unread[e]
  BY <1>1 DEF EncoderMoved, UpToDate
<1>3. Amount(Shift(e)) = IF h[2] = 3 /\ h[3] = 1 /\ Pins(shaft[e]) = 0 THEN -1
                         ELSE IF h[2] = 3 /\ h[3] = 2 /\ Pins(shaft[e]) = 0 THEN 1 ELSE 0
  BY Clicks DEF Shift
<1>4. CASE way[e] = 1
  <2>1. /\ h[3] = Pins(LastRead(e))
        /\ LastRead(e) = IF shaft[e] = 0 THEN 3 ELSE shaft[e] - 1
        /\ LastRead(e) = 1 => h[2] = 3
        /\ gained[e] = IF LastRead(e) \in {0, 1} THEN 0 ELSE 1
    BY <1>1, <1>2, <1>4 DEF InStep, LastRead, First
  <2> QED
    BY <1>1, <1>3, <1>4, <2>1, Quarters DEF First
<1>5. CASE way[e] = -1
  <2>1. /\ h[3] = Pins(LastRead(e))
        /\ LastRead(e) = IF shaft[e] = 3 THEN 0 ELSE shaft[e] + 1
        /\ LastRead(e) = 3 => h[2] = 3
        /\ gained[e] = IF LastRead(e) \in {0, 3} THEN 0 ELSE -1
    BY <1>1, <1>2, <1>5 DEF InStep, LastRead, First
  <2> QED
    BY <1>1, <1>3, <1>5, <2>1, Quarters DEF First
<1> QED
  BY <1>1, <1>4, <1>5 DEF Ways

LEMMA EncoderType ==
  ASSUME CountInv, NEW e \in Encoders, EncoderMoved(e) \/ EncoderStill(e)
  PROVE  TypeOK'
<1> USE DEF CountInv
<1>1. mux \in {2, 4} /\ mux' \in 0 .. 5 /\ mux' = mux + 1
  BY DEF EncoderMoved, EncoderStill, Position, Encoders
<1>2. being_played' \in [0 .. 4 -> BOOLEAN]
  BY <1>1 DEF EncoderMoved, EncoderStill, Played, TypeOK
<1>3. unread' \in [Encoders -> BOOLEAN]
  BY DEF EncoderMoved, EncoderStill, TypeOK
<1>4. CASE EncoderStill(e)
  BY <1>1, <1>2, <1>3, <1>4 DEF EncoderStill, TypeOK, byteVars, userVars
<1>5. CASE EncoderMoved(e)
  <2>1. Shift(e) \in Histories
    BY ShiftType DEF TypeOK
  <2>2. dial_state' \in [Encoders -> Histories]
    BY <1>5, <2>1 DEF EncoderMoved, TypeOK
  <2>3. Amount(Shift(e)) \in {-1, 0, 1}
    BY DEF Amount
  <2>4. dial' \in [Encoders -> 0 .. BYTE - 1]
    <3>1. dial[e] \in Int
      BY DEF TypeOK
    <3>2. dial[e] + Amount(Shift(e)) \in Int
      BY <2>3, <3>1
    <3>3. (dial[e] + Amount(Shift(e))) % BYTE \in 0 .. BYTE - 1
      BY <3>2, Remainder, ControlsAssumption
    <3> QED
      BY <1>5, <3>3 DEF EncoderMoved, TypeOK
  <2>5. gained' \in [Encoders -> {-1, 0, 1}]
    <3>1. gained[e] + Amount(Shift(e)) \in {-1, 0, 1} \/ ~ sure[e]
      BY <1>5, StretchCounts
    <3> QED
      BY <1>5, <3>1 DEF EncoderMoved, TypeOK
  <2> QED
    BY <1>1, <1>2, <1>3, <1>5, <2>2, <2>4, <2>5
    DEF EncoderMoved, TypeOK, userVars
<1> QED
  BY <1>4, <1>5

LEMMA OtherType ==
  ASSUME TypeOK, Visit \/ Recalibrate \/ Collect \/ UNCHANGED vars
  PROVE  TypeOK'
<1>1. CASE Visit
  BY <1>1 DEF TypeOK, Visit, byteVars, userVars, pastVars
<1>2. CASE Recalibrate
  BY <1>2 DEF TypeOK, Recalibrate, byteVars, userVars, pastVars
<1>3. CASE Collect
  <2>1. dial' \in [Encoders -> 0 .. BYTE - 1]
    BY <1>3, ControlsAssumption DEF Collect
  <2> QED
    BY <1>3, <2>1 DEF TypeOK, Collect, mainVars, userVars, pastVars
<1>4. CASE UNCHANGED vars
  BY <1>4 DEF TypeOK, vars, mainVars, byteVars, userVars, pastVars
<1> QED
  BY <1>1, <1>2, <1>3, <1>4

-----------------------------------------------------------------------------
(* One click per step.                                                     *)

LEMMA InitCount == Init => CountInv
BY InitType DEF Init, CountInv, InStep, UpToDate

\* Encoder e's part of the invariant depends on these values only.
LEMMA CountFrame ==
  ASSUME NEW e \in Encoders, InStep(e), UpToDate(e),
         dial_state'[e] = dial_state[e], shaft'[e] = shaft[e],
         unread'[e] = unread[e], sure'[e] = sure[e], way'[e] = way[e],
         gained'[e] = gained[e]
  PROVE  InStep(e)' /\ UpToDate(e)'
<1>1. LastRead(e)' = LastRead(e) /\ First(e)' = First(e)
  BY DEF LastRead, First
<1> QED
  BY <1>1 DEF InStep, UpToDate

LEMMA TurnCounts ==
  ASSUME CountInv, NEW e \in Encoders, NEW d \in Ways, Turn(e, d)
  PROVE  InStep(e)' /\ UpToDate(e)'
<1> USE DEF CountInv
<1>1. shaft[e] \in 0 .. 3 /\ way[e] \in Ways /\ InStep(e) /\ UpToDate(e)
  BY DEF TypeOK
<1>2. /\ dial_state' = dial_state /\ unread'[e] = TRUE
      /\ shaft'[e] = (shaft[e] + d) % 4
      /\ sure'[e] = (~ unread[e] /\ (shaft[e] = 0 \/ (sure[e] /\ d = way[e])))
      /\ sure'[e] => way'[e] = d
      /\ sure'[e] => gained'[e] = IF shaft[e] # 0 THEN gained[e] ELSE 0
  BY DEF Turn, TypeOK, mainVars
<1>3. UpToDate(e)'
  BY <1>2 DEF UpToDate
<1>4. ASSUME sure'[e] PROVE InStep(e)'
  <2>1. LastRead(e)' = shaft[e]
    BY <1>1, <1>2, <1>4, Turned DEF LastRead, Ways
  <2>2. First(e)' = IF d = 1 THEN 1 ELSE 3
    BY <1>2, <1>4 DEF First
  <2> DEFINE n == LastRead(e)
  <2>3. dial_state[e][3] = Pins(shaft[e]) /\ ~ unread[e]
    BY <1>1, <1>2, <1>4 DEF UpToDate
  <2>4. CASE shaft[e] = 0
    <3>1. n' # First(e)' /\ n' = 0 /\ unread'[e]
      BY <1>2, <2>1, <2>2, <2>4
    <3>2. gained'[e] = 0
      BY <1>2, <1>4, <2>4
    <3> HIDE DEF n
    <3> QED
      BY <1>2, <2>1, <2>3, <3>1, <3>2 DEF InStep, n
  <2>5. CASE shaft[e] # 0
    <3>1. sure[e] /\ d = way[e] /\ gained'[e] = gained[e] /\ way'[e] = way[e]
      BY <1>2, <1>4, <2>5
    <3>2. LastRead(e) = shaft[e] /\ First(e)' = First(e)
      BY <2>3, <3>1, <2>2 DEF LastRead, First
    <3>3. /\ shaft[e] = First(e) => dial_state[e][2] = 3
          /\ gained[e] = IF shaft[e] = First(e) THEN 0 ELSE way[e]
      BY <1>1, <2>3, <2>5, <3>1, <3>2 DEF InStep
    <3> QED
      BY <1>2, <2>1, <2>3, <2>5, <3>1, <3>2, <3>3 DEF InStep
  <2> QED
    BY <2>4, <2>5
<1> QED
  BY <1>3, <1>4 DEF InStep

LEMMA ReadCounts ==
  ASSUME CountInv, NEW e \in Encoders, EncoderMoved(e) \/ EncoderStill(e)
  PROVE  InStep(e)' /\ UpToDate(e)'
<1> USE DEF CountInv
<1>1. /\ shaft[e] \in 0 .. 3 /\ way[e] \in Ways /\ InStep(e) /\ UpToDate(e)
      /\ dial_state[e] \in Histories
  BY DEF TypeOK
<1>2. /\ shaft' = shaft /\ way' = way /\ sure' = sure /\ unread'[e] = FALSE
      /\ LastRead(e)' = shaft[e] /\ First(e)' = First(e)
  BY DEF EncoderMoved, EncoderStill, userVars, TypeOK, LastRead, First
<1>3. CASE EncoderStill(e)
  <2>1. dial_state' = dial_state /\ gained' = gained /\ dial_state[e][3] = Pins(shaft[e])
    BY <1>3 DEF EncoderStill
  <2>2. sure[e] => ~ unread[e]
    BY <1>1, <2>1, Quarters DEF InStep, LastRead, Ways
  <2> QED
    BY <1>1, <1>2, <2>1, <2>2 DEF InStep, UpToDate, LastRead
<1>4. CASE EncoderMoved(e)
  <2>1. /\ dial_state'[e] = Shift(e)
        /\ sure[e] => gained'[e] = gained[e] + Amount(Shift(e))
        /\ Pins(shaft[e]) # dial_state[e][3] /\ unread[e]
    BY <1>1, <1>4 DEF EncoderMoved, TypeOK, UpToDate
  <2>2. dial_state'[e][2] = dial_state[e][3] /\ dial_state'[e][3] = Pins(shaft[e])
    BY <2>1, ShiftType DEF TypeOK
  <2>3. sure[e] => gained[e] + Amount(Shift(e)) =
                     IF shaft[e] = First(e) THEN 0 ELSE way[e]
    BY <1>4, StretchCounts
  <2>4. sure[e] /\ shaft[e] = First(e) => dial_state[e][3] = 3
    BY <1>1, <2>1, Quarters DEF InStep, LastRead, First, Ways
  <2> QED
    BY <1>2, <2>1, <2>2, <2>3, <2>4 DEF InStep, UpToDate
<1> QED
  BY <1>3, <1>4

LEMMA CountStep == CountInv /\ [Next]_vars => CountInv'
<1> SUFFICES ASSUME CountInv, [Next]_vars PROVE CountInv'
  OBVIOUS
<1>1. TypeOK
  BY DEF CountInv
<1>2. ASSUME dial_state' = dial_state, shaft' = shaft, UNCHANGED pastVars
      PROVE  \A e \in Encoders : InStep(e)' /\ UpToDate(e)'
  BY <1>2, CountFrame DEF CountInv, pastVars
<1>3. ASSUME NEW s \in PRESSED, Press(s) \/ Release(s) \/ Settle(s) PROVE CountInv'
  <2>1. TypeOK'
    BY <1>1, <1>3, UserType DEF User
  <2> QED
    BY <1>2, <1>3, <2>1 DEF CountInv, Press, Release, Settle, mainVars
<1>4. ASSUME NEW e \in TURNED, NEW d \in Ways, Turn(e, d) PROVE CountInv'
  <2>1. TypeOK'
    BY <1>1, <1>4, UserType DEF User
  <2>2. e \in Encoders
    BY ControlsAssumption
  <2>3. ASSUME NEW f \in Encoders, f # e PROVE InStep(f)' /\ UpToDate(f)'
    BY <1>1, <1>4, <2>3, CountFrame DEF CountInv, Turn, TypeOK, mainVars
  <2> QED
    BY <1>4, <2>1, <2>2, <2>3, TurnCounts DEF CountInv
<1>5. ASSUME NEW s \in Switches, ReadSwitch(s) PROVE CountInv'
  BY <1>1, <1>2, <1>5, SwitchType DEF CountInv, ReadSwitch
<1>6. ASSUME NEW e \in Encoders, EncoderMoved(e) \/ EncoderStill(e) PROVE CountInv'
  <2>1. ASSUME NEW f \in Encoders, f # e PROVE InStep(f)' /\ UpToDate(f)'
    <3>1. InStep(f) /\ UpToDate(f)
      BY DEF CountInv
    <3>2. CASE EncoderMoved(e)
      BY <1>1, <2>1, <3>1, <3>2, CountFrame DEF EncoderMoved, TypeOK, userVars
    <3>3. CASE EncoderStill(e)
      BY <1>1, <2>1, <3>1, <3>3, CountFrame DEF EncoderStill, TypeOK, userVars
    <3> QED
      BY <1>6, <3>2, <3>3
  <2> QED
    BY <1>6, <2>1, EncoderType, ReadCounts DEF CountInv
<1>7. CASE Visit \/ Recalibrate \/ Collect \/ UNCHANGED vars
  <2>1. dial_state' = dial_state /\ shaft' = shaft /\ UNCHANGED pastVars
    BY <1>7 DEF Visit, Recalibrate, Collect, vars, mainVars, userVars
  <2> QED
    BY <1>1, <1>2, <1>7, <2>1, OtherType DEF CountInv
<1> QED
  BY <1>3, <1>4, <1>5, <1>6, <1>7 DEF Next, User, Read

THEOREM CountInvariant == Spec => []CountInv
<1>1. Init => CountInv
  BY InitCount
<1>2. CountInv /\ [Next]_vars => CountInv'
  BY CountStep
<1> QED
  BY <1>1, <1>2, PTL DEF Spec

\* Every variable of the reader keeps to its range, for every set of buttons
\* pressed and encoders turned.
THEOREM TypeCorrect == Spec => []TypeOK
<1>1. CountInv => TypeOK
  BY DEF CountInv
<1> QED
  BY <1>1, CountInvariant, PTL

\* An encoder turned by one step, at a rate main can follow, counts once and in
\* its direction.
THEOREM ClickCorrect == Spec => []ClickPerStep
<1>1. CountInv => ClickPerStep
  <2> SUFFICES ASSUME CountInv, NEW e \in Encoders, sure[e], ~ unread[e], shaft[e] = 0
               PROVE  gained[e] = way[e]
    BY DEF ClickPerStep
  <2>1. InStep(e) /\ LastRead(e) = 0 /\ First(e) # 0
    BY DEF CountInv, LastRead, First
  <2> QED
    BY <2>1 DEF InStep
<1> QED
  BY <1>1, CountInvariant, PTL

-----------------------------------------------------------------------------
(* One press per press.                                                    *)

LEMMA OwnBits ==
  /\ \A s \in Switches : Bit[s] \in 1 .. 3
  /\ \A s, t \in Switches : Bit[s] = Bit[t] => s = t
BY DEF Bit, Switches, SW2, SW3, SW4

\* A step leaves a bit alone unless it reads its button.
LEMMA BitsKept ==
  ASSUME TypeOK, [Next]_vars, NEW s \in Switches, ~ ReadSwitch(s)
  PROVE  (Bit[s] \in buttons') = (Bit[s] \in buttons)
<1>1. ASSUME NEW t \in Switches, ReadSwitch(t)
      PROVE  (Bit[s] \in buttons') = (Bit[s] \in buttons)
  <2>1. Bit[s] # Bit[t]
    BY <1>1, OwnBits
  <2> QED
    BY <1>1, <2>1 DEF ReadSwitch
<1>2. CASE ~ \E t \in Switches : ReadSwitch(t)
  <2>1. UNCHANGED buttons
    BY <1>2 DEF Next, User, Read, Press, Release, Settle, Turn, EncoderMoved,
                EncoderStill, Visit, Recalibrate, Collect, vars, mainVars
  <2> QED
    BY <2>1
<1> QED
  BY <1>1, <1>2

LEMMA QuietStep == TypeOK /\ QuietInv /\ [Next]_vars /\ TypeOK' => QuietInv'
<1> SUFFICES ASSUME TypeOK, QuietInv, [Next]_vars, TypeOK', NEW s \in Switches,
                    s \in held', s \in fresh', Bit[s] \in buttons'
             PROVE  s \notin bounces'
  BY DEF QuietInv
<1>1. CASE ReadSwitch(s)
  <2>1. PICK low \in IF s \in bounces THEN BOOLEAN ELSE {s \in held} :
          /\ buttons' = (buttons \ {Bit[s]}) \cup (IF low THEN {Bit[s]} ELSE {})
          /\ bounces' = IF low /\ Bit[s] \notin buttons THEN {} ELSE bounces
    BY <1>1 DEF ReadSwitch
  <2>2. low
    BY <2>1
  <2>3. s \in held /\ s \in fresh
    BY <1>1 DEF ReadSwitch
  <2> QED
    BY <2>1, <2>2, <2>3 DEF QuietInv
<1>2. CASE ~ ReadSwitch(s)
  <2>1. Bit[s] \in buttons
    BY <1>2, BitsKept
  <2>2. ASSUME NEW t \in PRESSED, Press(t) PROVE s \notin bounces'
    BY <2>1, <2>2 DEF Press, QuietInv
  <2>3. ASSUME NEW t \in PRESSED, Release(t) \/ Settle(t) PROVE s \notin bounces'
    BY <2>1, <2>3 DEF Release, Settle, QuietInv
  <2>4. ASSUME NEW t \in Switches, ReadSwitch(t) PROVE s \notin bounces'
    BY <2>1, <2>4 DEF ReadSwitch, QuietInv
  <2>5. CASE UNCHANGED <<held, fresh, bounces>>
    BY <2>1, <2>5 DEF QuietInv
  <2> QED
    BY <2>2, <2>3, <2>4, <2>5
    DEF Next, User, Read, Turn, EncoderMoved, EncoderStill, Visit, Recalibrate,
        Collect, vars, userVars
<1> QED
  BY <1>1, <1>2

LEMMA PressStep ==
  ASSUME TypeOK, QuietInv, [Next]_vars, NEW s \in Switches,
         s \in held, s \in held', s \in fresh, Bit[s] \in buttons
  PROVE  Bit[s] \in buttons'
<1>1. s \notin bounces
  BY DEF QuietInv
<1>2. CASE ReadSwitch(s)
  BY <1>1, <1>2 DEF ReadSwitch
<1>3. CASE ~ ReadSwitch(s)
  BY <1>3, BitsKept
<1> QED
  BY <1>2, <1>3

\* A press is read once, whatever the contacts and the other buttons do.
THEOREM PressCorrect == Spec => PressReadOnce
<1>1. Init => QuietInv
  BY InitType DEF Init, QuietInv
<1>2. TypeOK /\ QuietInv /\ [Next]_vars /\ TypeOK' => QuietInv'
  BY QuietStep
<1>3. TypeOK /\ QuietInv /\ [Next]_vars =>
        [\A s \in Switches :
           s \in held /\ s \in held' /\ s \in fresh /\ Bit[s] \in buttons
             => Bit[s] \in buttons']_vars
  BY PressStep
<1> QED
  BY <1>1, <1>2, <1>3, TypeCorrect, PTL DEF Spec, PressReadOnce

=============================================================================
