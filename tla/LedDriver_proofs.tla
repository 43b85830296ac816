-------------------------- MODULE LedDriver_proofs --------------------------
(***************************************************************************)
(* Theorems about LedDriver: the types, and that the LED shows what an     *)
(* undisturbed send was given, for every width of a word, every set of     *)
(* colours and any number of interrupts inside each other.                 *)
(***************************************************************************)
EXTENDS LedDriver, TLAPS

-----------------------------------------------------------------------------
(* Types.                                                                  *)

LEMMA WordType ==
  ASSUME NEW mode \in {0, 1}, NEW c \in Colour
  PROVE  WordOf(mode, c) \in Word
<1>1. ASSUME NEW i \in 1 .. BITS + 1, i # 1 PROVE c[i - 1] \in {0, 1}
  BY <1>1, LedDriverAssumption DEF Colour
<1> QED
  BY <1>1 DEF WordOf, Word

LEMMA ShiftedType ==
  ASSUME chain \in Word, NEW b \in {0, 1}
  PROVE  Shifted(b) \in Word
<1>1. ASSUME NEW i \in 1 .. BITS + 1, i # BITS + 1 PROVE chain[i + 1] \in {0, 1}
  BY <1>1, LedDriverAssumption DEF Word
<1> QED
  BY <1>1 DEF Shifted, Word

LEMMA LatchType ==
  ASSUME TypeOK, LatchChain
  PROVE  pwm' \in Colour /\ current' \in Colour
<1> DEFINE c == [i \in 1 .. BITS |-> chain[i + 1]]
<1>1. c \in Colour
  <2>1. ASSUME NEW i \in 1 .. BITS PROVE chain[i + 1] \in {0, 1}
    BY LedDriverAssumption DEF TypeOK, Word
  <2> QED
    BY <2>1 DEF Colour
<1> HIDE DEF c
<1>2. (pwm' = c /\ UNCHANGED current) \/ (current' = c /\ UNCHANGED pwm)
  BY DEF LatchChain, c
<1> QED
  BY <1>1, <1>2 DEF TypeOK

\* The variables of the word and of the LED.
DataOK ==
  /\ LED_CommandMode \in {0, 1} /\ command \in Colour
  /\ led_command_packet \in Word /\ chain \in Word
  /\ pwm \in Colour /\ current \in Colour /\ asked \in Colour /\ clean \in BOOLEAN

\* The contexts.
ContextsOK ==
  /\ depth \in Contexts
  /\ pc \in [Contexts -> Locations] /\ second \in [Contexts -> BOOLEAN]
  /\ bit \in [Contexts -> 1 .. BITS + 1] /\ colour \in [Contexts -> Colour]
  /\ on \in [Contexts -> BOOLEAN] /\ disturbed \in [Contexts -> BOOLEAN]
  /\ \A x \in Contexts : x < depth => on[x] /\ disturbed[x]

LEMMA TypeParts == TypeOK = (DataOK /\ ContextsOK)
BY DEF TypeOK, DataOK, ContextsOK

LEMMA InitType == Init => TypeOK
<1> SUFFICES ASSUME Init PROVE TypeOK
  OBVIOUS
<1>1. command \in Colour /\ WordOf(0, command) \in Word
  BY LedDriverAssumption, WordType DEF Init
<1>2. DataOK
  BY <1>1, LedDriverAssumption DEF Init, DataOK
<1>3. ContextsOK
  BY <1>1, LedDriverAssumption DEF Init, ContextsOK, Contexts, Locations
<1> QED
  BY <1>2, <1>3, TypeParts

LEMMA DataStep ==
  ASSUME TypeOK, [Next]_vars
  PROVE  DataOK'
<1> USE DEF At
<1>1. depth \in Contexts /\ colour[depth] \in Colour
  BY DEF TypeOK
<1>2. CASE MainSets \/ Interrupt \/ UNCHANGED vars
  BY <1>2 DEF TypeOK, DataOK, MainSets, Interrupt, vars, globalVars, ledVars
<1>3. CASE Mode
  BY <1>3 DEF TypeOK, DataOK, Mode, ledVars
<1>4. CASE Command
  BY <1>1, <1>4 DEF TypeOK, DataOK, Command, ledVars
<1>5. CASE Load
  BY <1>5, LedDriverAssumption DEF TypeOK, DataOK, Load, ledVars
<1>6. CASE High
  <2>1. led_command_packet' \in Word
    BY <1>6 DEF TypeOK, High, Word
  <2> QED
    BY <1>6, <2>1 DEF TypeOK, DataOK, High, ledVars
<1>7. CASE Low
  <2>1. led_command_packet[BITS + 1] \in {0, 1}
    BY LedDriverAssumption DEF TypeOK, Word
  <2>2. led_command_packet' \in Word
    BY <1>7, <2>1, WordType DEF TypeOK, Low
  <2> QED
    BY <1>7, <2>2 DEF TypeOK, DataOK, Low, ledVars
<1>8. CASE Bit
  <2>1. led_command_packet[bit[depth]] \in {0, 1}
    BY <1>1 DEF TypeOK, Word
  <2>2. chain' \in Word
    BY <1>8, <2>1, ShiftedType DEF TypeOK, Bit
  <2> QED
    BY <1>8, <2>2 DEF TypeOK, DataOK, Bit, globalVars
<1>9. CASE LatchFirst
  BY <1>9, LatchType DEF TypeOK, DataOK, LatchFirst, globalVars
<1>10. CASE LatchSecond
  <2>1. disturbed[depth] \in BOOLEAN
    BY <1>1 DEF TypeOK
  <2> QED
    BY <1>1, <1>10, <2>1, LatchType DEF TypeOK, DataOK, LatchSecond, globalVars
<1> QED
  BY <1>2, <1>3, <1>4, <1>5, <1>6, <1>7, <1>8, <1>9, <1>10 DEF Next, Step

\* Going to another location, with or without interrupts.
LEMMA GotoType ==
  ASSUME TypeOK, NEW l \in Locations, Goto(l)
  PROVE  pc' \in [Contexts -> Locations]
BY DEF TypeOK, Goto

LEMMA ContextsStep ==
  ASSUME TypeOK, [Next]_vars
  PROVE  ContextsOK'
<1>1. depth \in Contexts /\ Contexts \subseteq Int /\ 0 \in Contexts
  BY LedDriverAssumption DEF TypeOK, Contexts
<1>2. CASE MainSets
  <2>1. PICK c \in COLOURS, enabled \in BOOLEAN : Enter(0, c, enabled)
    BY <1>2 DEF MainSets
  <2>2. c \in Colour
    BY LedDriverAssumption
  <2>3. depth' = 0 /\ bit' = bit
    BY <1>2 DEF MainSets
  <2>4. \A x \in Contexts : ~ x < 0
    BY DEF Contexts
  <2>5. /\ pc' \in [Contexts -> Locations] /\ second' \in [Contexts -> BOOLEAN]
        /\ colour' \in [Contexts -> Colour] /\ on' \in [Contexts -> BOOLEAN]
    BY <2>1, <2>2 DEF TypeOK, Enter, Locations
  <2>6. disturbed' \in [Contexts -> BOOLEAN]
    BY <1>2 DEF TypeOK, MainSets
  <2> QED
    BY <1>1, <2>3, <2>4, <2>5, <2>6 DEF TypeOK, ContextsOK
<1>3. CASE Interrupt
  <2>1. PICK c \in COLOURS : Enter(depth + 1, c, FALSE)
    BY <1>3 DEF Interrupt
  <2>2. c \in Colour
    BY LedDriverAssumption
  <2>3. /\ depth' = depth + 1 /\ depth' \in Contexts /\ bit' = bit /\ on[depth]
        /\ disturbed' = [x \in Contexts |-> x <= depth]
    BY <1>1, <1>3, LedDriverAssumption DEF Interrupt, Contexts
  <2>4. /\ pc' \in [Contexts -> Locations] /\ second' \in [Contexts -> BOOLEAN]
        /\ colour' \in [Contexts -> Colour] /\ on' = [on EXCEPT ![depth + 1] = FALSE]
    BY <2>1, <2>2 DEF TypeOK, Enter, Locations
  <2>5. ASSUME NEW x \in Contexts, x < depth' PROVE on'[x] /\ disturbed'[x]
    <3>1. x <= depth /\ x # depth + 1
      BY <1>1, <2>3, <2>5
    <3>2. on[x]
      BY <1>1, <2>3, <3>1 DEF TypeOK
    <3> QED
      BY <2>3, <2>4, <3>1, <3>2 DEF TypeOK
  <2> QED
    BY <2>3, <2>4, <2>5 DEF TypeOK, ContextsOK
<1>4. CASE Mode \/ Command \/ High \/ LatchFirst
  <2>1. pc' \in [Contexts -> Locations]
    BY <1>4, GotoType DEF Mode, Command, High, LatchFirst, Locations
  <2>2. second' \in [Contexts -> BOOLEAN]
    BY <1>4 DEF TypeOK, Mode, Command, High, LatchFirst
  <2> QED
    BY <1>4, <2>1, <2>2 DEF TypeOK, ContextsOK, Mode, Command, High, LatchFirst
<1>5. CASE Load
  <2>1. pc' \in [Contexts -> Locations]
    BY <1>5, GotoType DEF Load, Locations
  <2>2. on' \in [Contexts -> BOOLEAN] /\ \A x \in Contexts : on[x] => on'[x]
    BY <1>5 DEF TypeOK, Load
  <2> QED
    BY <1>5, <2>1, <2>2 DEF TypeOK, ContextsOK, Load
<1>6. CASE Low
  <2>1. pc' \in [Contexts -> Locations]
    BY <1>6, GotoType DEF Low, Locations
  <2>2. bit' \in [Contexts -> 1 .. BITS + 1]
    BY <1>6, LedDriverAssumption DEF TypeOK, Low
  <2> QED
    BY <1>6, <2>1, <2>2 DEF TypeOK, ContextsOK, Low
<1>7. CASE Bit
  <2>1. pc' \in [Contexts -> Locations]
    BY <1>7, GotoType DEF TypeOK, Bit, Locations
  <2>2. bit' \in [Contexts -> 1 .. BITS + 1]
    <3>1. bit[depth] <= BITS => bit[depth] + 1 \in 1 .. BITS + 1
      BY <1>1, LedDriverAssumption DEF TypeOK
    <3> QED
      BY <1>7, <3>1 DEF TypeOK, Bit
  <2> QED
    BY <1>7, <2>1, <2>2 DEF TypeOK, ContextsOK, Bit
<1>8. CASE LatchSecond
  <2>1. pc' \in [Contexts -> Locations]
    BY <1>8, GotoType DEF LatchSecond, Locations
  <2>2. depth' \in Contexts /\ depth' <= depth
    BY <1>1, <1>8, LedDriverAssumption DEF LatchSecond, Contexts
  <2>3. on' \in [Contexts -> BOOLEAN] /\ \A x \in Contexts : on[x] => on'[x]
    BY <1>8 DEF TypeOK, LatchSecond
  <2>4. \A x \in Contexts : x < depth' => x < depth
    BY <1>1, <2>2
  <2> QED
    BY <1>8, <2>1, <2>2, <2>3, <2>4 DEF TypeOK, ContextsOK, LatchSecond
<1>9. CASE UNCHANGED vars
  BY <1>9 DEF TypeOK, ContextsOK, vars, contextVars
<1> QED
  BY <1>2, <1>3, <1>4, <1>5, <1>6, <1>7, <1>8, <1>9 DEF Next, Step

\* The globals, the LED and the contexts keep to their ranges, whatever the
\* interrupts do.
THEOREM TypeCorrect == Spec => []TypeOK
<1>1. Init => TypeOK
  BY InitType
<1>2. TypeOK /\ [Next]_vars => TypeOK'
  <2> SUFFICES ASSUME TypeOK, [Next]_vars PROVE TypeOK'
    OBVIOUS
  <2>1. DataOK' /\ ContextsOK'
    BY DataStep, ContextsStep
  <2>2. (DataOK' /\ ContextsOK') => TypeOK'
    BY DEF TypeOK, DataOK, ContextsOK
  <2> QED
    BY <2>1, <2>2
<1> QED
  BY <1>1, <1>2, PTL DEF Spec

-----------------------------------------------------------------------------
(* What an undisturbed send has done so far.                               *)

Mode0or1 == IF second[depth] THEN 1 ELSE 0

Wanted == WordOf(Mode0or1, IF second[depth] THEN setting ELSE colour[depth])

\* The last n bits of the chain are the first n of the word.
Sent(n) ==
  \A i \in 1 .. n : chain[BITS + 1 - n + i] = Wanted[i]

Prepared ==
  /\ At("command") => ~ second[depth]
  /\ ~ At("mode") => LED_CommandMode = Mode0or1
  /\ At("load") /\ ~ second[depth] => command = colour[depth]
  /\ At("high") \/ At("low") =>
       command = IF second[depth] THEN setting ELSE colour[depth]
  /\ At("low") => led_command_packet[BITS + 1] = Mode0or1
  /\ At("bits") => led_command_packet = Wanted /\ Sent(bit[depth] - 1)
  /\ At("latch") => Sent(BITS + 1)
  /\ second[depth] => pwm = colour[depth]

Alone == ~ disturbed[depth] /\ ~ At("idle")

ShownInv == TypeOK /\ (Alone => Prepared) /\ ShownAsAsked

\* The context on top goes on alone: what it depends on is the same.
LEMMA WantedKept ==
  ASSUME depth' = depth, second'[depth] = second[depth], colour' = colour
  PROVE  Mode0or1' = Mode0or1 /\ Wanted' = Wanted
BY DEF Mode0or1, Wanted, WordOf

LEMMA LatchTakes ==
  ASSUME TypeOK, LatchChain, Sent(BITS + 1)
  PROVE  /\ ~ second[depth] => pwm' = colour[depth]
         /\ second[depth] => current' = setting /\ pwm' = pwm
<1> DEFINE c == [i \in 1 .. BITS |-> chain[i + 1]]
           w == IF second[depth] THEN setting ELSE colour[depth]
<1>1. BITS \in Nat /\ BITS > 0 /\ depth \in Contexts
  BY LedDriverAssumption DEF TypeOK
<1>2. \A i \in 1 .. BITS + 1 : chain[i] = Wanted[i]
  <2>1. ASSUME NEW i \in 1 .. BITS + 1 PROVE BITS + 1 - (BITS + 1) + i = i
    BY <1>1, <2>1
  <2> QED
    BY <2>1 DEF Sent
<1>3. \A i \in 1 .. BITS + 1 : Wanted[i] = IF i = 1 THEN Mode0or1 ELSE w[i - 1]
  BY DEF Wanted, WordOf
<1>4. chain[1] = Mode0or1
  BY <1>1, <1>2, <1>3
<1>5. c = w
  <2>1. w \in Colour
    BY <1>1, LedDriverAssumption DEF TypeOK
  <2> HIDE DEF w
  <2>2. ASSUME NEW i \in 1 .. BITS PROVE chain[i + 1] = w[i]
    <3>1. i + 1 \in 1 .. BITS + 1 /\ i + 1 # 1 /\ (i + 1) - 1 = i
      BY <1>1
    <3>2. chain[i + 1] = Wanted[i + 1] /\ Wanted[i + 1] = w[(i + 1) - 1]
      BY <1>2, <1>3, <3>1
    <3> QED
      BY <3>1, <3>2
  <2> QED
    BY <2>1, <2>2 DEF Colour
<1> HIDE DEF c
<1>6. IF chain[1] = 0 THEN pwm' = c /\ UNCHANGED current
                      ELSE current' = c /\ UNCHANGED pwm
  BY DEF LatchChain, c
<1> QED
  BY <1>4, <1>5, <1>6 DEF Mode0or1

LEMMA BitSends ==
  ASSUME TypeOK, Bit, led_command_packet = Wanted, Sent(bit[depth] - 1)
  PROVE  /\ At("bits")' => Sent(bit[depth] - 1)' /\ led_command_packet' = Wanted'
         /\ At("latch")' => Sent(BITS + 1)'
<1> DEFINE n == bit[depth]
<1>1. BITS \in Nat /\ n \in 1 .. BITS + 1 /\ depth \in Contexts
  BY LedDriverAssumption DEF TypeOK
<1>2. Wanted' = Wanted /\ depth' = depth
  BY WantedKept DEF Bit
<1>3. chain' = Shifted(Wanted[n])
  BY DEF Bit
<1>4. ASSUME NEW i \in 1 .. n PROVE chain'[BITS + 1 - n + i] = Wanted[i]
  <2>1. CASE i = n
    BY <1>1, <1>3, <2>1 DEF Shifted
  <2>2. CASE i # n
    <3>1. /\ i \in 1 .. n - 1 /\ BITS + 1 - n + i \in 1 .. BITS
          /\ (BITS + 1 - n + i) + 1 = BITS + 1 - (n - 1) + i
      BY <1>1, <1>4, <2>2
    <3>2. chain'[BITS + 1 - n + i] = chain[(BITS + 1 - n + i) + 1]
      BY <1>1, <1>3, <3>1 DEF Shifted
    <3>3. chain[BITS + 1 - (n - 1) + i] = Wanted[i]
      BY <3>1 DEF Sent
    <3> QED
      BY <3>1, <3>2, <3>3
  <2> QED
    BY <2>1, <2>2
<1>5. CASE n <= BITS
  <2>1. bit'[depth'] - 1 = bit[depth] /\ ~ At("latch")'
    BY <1>1, <1>2, <1>5 DEF Bit, At, TypeOK
  <2>2. \A i \in 1 .. bit'[depth'] - 1 :
           chain'[BITS + 1 - (bit'[depth'] - 1) + i] = Wanted'[i]
    BY <1>2, <1>4, <2>1
  <2>3. Sent(bit[depth] - 1)'
    BY <2>2 DEF Sent
  <2>4. led_command_packet' = Wanted'
    BY <1>2 DEF Bit, globalVars
  <2> QED
    BY <2>1, <2>3, <2>4
<1>6. CASE ~ n <= BITS
  <2>1. n = BITS + 1 /\ ~ At("bits")'
    BY <1>1, <1>2, <1>6 DEF Bit, At, Goto, TypeOK
  <2> QED
    BY <1>2, <1>4, <2>1 DEF Sent
<1> QED
  BY <1>5, <1>6

LEMMA PreparedStep ==
  ASSUME TypeOK, Alone => Prepared, Step, Alone'
  PROVE  Prepared'
<1> USE DEF At
<1>1. /\ BITS \in Nat /\ BITS > 0 /\ depth \in Contexts /\ depth - 1 < depth
      /\ setting \in Colour
  BY LedDriverAssumption DEF TypeOK, Contexts
<1>2. ~ LatchSecond
  <2> SUFFICES ASSUME LatchSecond PROVE FALSE
    OBVIOUS
  <2>1. CASE depth = 0
    BY <1>1, <2>1 DEF Alone, LatchSecond, Goto, TypeOK
  <2>2. CASE depth # 0
    <3>1. depth - 1 \in Contexts /\ depth - 1 < depth
      BY <2>2, LedDriverAssumption DEF TypeOK, Contexts
    <3>2. disturbed[depth - 1]
      BY <3>1 DEF TypeOK
    <3> QED
      BY <2>2, <3>2 DEF Alone, LatchSecond
  <2> QED
    BY <2>1, <2>2
<1>3. /\ depth' = depth /\ disturbed' = disturbed /\ colour' = colour
      /\ ~ At("idle") /\ Prepared
  <2>1. depth' = depth /\ disturbed' = disturbed /\ colour' = colour /\ ~ At("idle")
    BY <1>2 DEF Step, Mode, Command, Load, High, Low, Bit, LatchFirst
  <2> QED
    BY <2>1 DEF Alone
<1>4. CASE Mode
  <2>1. /\ pc'[depth] = IF second[depth] THEN "load" ELSE "command"
        /\ second' = second /\ pwm' = pwm /\ LED_CommandMode' = Mode0or1
    BY <1>1, <1>4 DEF Mode, Goto, TypeOK, ledVars, Mode0or1
  <2>2. Mode0or1' = Mode0or1
    BY <1>3, <2>1 DEF Mode0or1
  <2> QED
    BY <1>3, <2>1, <2>2 DEF Prepared
<1>5. CASE Command
  <2>1. /\ pc'[depth] = "load" /\ second' = second /\ pwm' = pwm
        /\ LED_CommandMode' = LED_CommandMode /\ command' = colour[depth]
        /\ ~ second[depth] /\ LED_CommandMode = Mode0or1
    BY <1>1, <1>3, <1>5 DEF Command, Goto, TypeOK, ledVars, Prepared
  <2>2. Mode0or1' = Mode0or1
    BY <1>3, <2>1 DEF Mode0or1
  <2> QED
    BY <1>3, <2>1, <2>2 DEF Prepared
<1>6. CASE Load
  <2>1. /\ pc'[depth] = "high" /\ second' = second /\ pwm' = pwm
        /\ LED_CommandMode' = LED_CommandMode /\ LED_CommandMode = Mode0or1
        /\ ~ second[depth] => command = colour[depth]
        /\ command' = IF LED_CommandMode = 1 THEN setting ELSE command
        /\ second[depth] => pwm = colour[depth]
    BY <1>1, <1>3, <1>6 DEF Load, Goto, TypeOK, ledVars, Prepared
  <2>2. Mode0or1' = Mode0or1
    BY <1>3, <2>1 DEF Mode0or1
  <2>3. command' = IF second[depth] THEN setting ELSE colour[depth]
    BY <2>1 DEF Mode0or1
  <2> QED
    BY <1>3, <2>1, <2>2, <2>3 DEF Prepared
<1>7. CASE High
  <2>1. /\ pc'[depth] = "low" /\ second' = second /\ pwm' = pwm /\ command' = command
        /\ LED_CommandMode' = LED_CommandMode /\ LED_CommandMode = Mode0or1
        /\ command = IF second[depth] THEN setting ELSE colour[depth]
        /\ second[depth] => pwm = colour[depth]
    BY <1>1, <1>3, <1>7 DEF High, Goto, TypeOK, ledVars, Prepared
  <2>2. Mode0or1' = Mode0or1
    BY <1>3, <2>1 DEF Mode0or1
  <2>3. led_command_packet'[BITS + 1] = Mode0or1
    BY <1>1, <1>7, <2>1 DEF High
  <2> QED
    BY <1>3, <2>1, <2>2, <2>3 DEF Prepared
<1>8. CASE Low
  <2>1. /\ pc'[depth] = "bits" /\ bit'[depth] = 1 /\ second' = second /\ pwm' = pwm
        /\ LED_CommandMode' = LED_CommandMode /\ LED_CommandMode = Mode0or1
        /\ second[depth] => pwm = colour[depth]
        /\ led_command_packet' = Wanted
    BY <1>1, <1>3, <1>8 DEF Low, Goto, TypeOK, ledVars, Prepared, Wanted
  <2>2. Mode0or1' = Mode0or1 /\ Wanted' = Wanted
    BY <1>3, <2>1, WantedKept
  <2>3. Sent(bit[depth] - 1)'
    <3>1. bit'[depth'] - 1 = 0
      BY <1>3, <2>1
    <3>2. \A i \in 1 .. bit'[depth'] - 1 : FALSE
      BY <3>1
    <3> QED
      BY <3>2 DEF Sent
  <2> QED
    BY <1>3, <2>1, <2>2, <2>3 DEF Prepared
<1>9. CASE Bit
  <2>1. /\ pc'[depth] \in {"bits", "latch"} /\ second' = second /\ pwm' = pwm
        /\ LED_CommandMode' = LED_CommandMode /\ LED_CommandMode = Mode0or1
        /\ second[depth] => pwm = colour[depth]
        /\ led_command_packet = Wanted /\ Sent(bit[depth] - 1)
    BY <1>1, <1>3, <1>9 DEF Bit, Goto, TypeOK, globalVars, Prepared
  <2>2. Mode0or1' = Mode0or1
    BY <1>3, <2>1 DEF Mode0or1
  <2>3. /\ At("bits")' => Sent(bit[depth] - 1)' /\ led_command_packet' = Wanted'
        /\ At("latch")' => Sent(BITS + 1)'
    BY <1>9, <2>1, BitSends
  <2> QED
    BY <1>3, <2>1, <2>2, <2>3 DEF Prepared
<1>10. CASE LatchFirst
  <2>1. /\ pc'[depth] = "mode" /\ second'[depth] /\ LatchChain
        /\ ~ second[depth] /\ Sent(BITS + 1)
    BY <1>1, <1>3, <1>10 DEF LatchFirst, Goto, TypeOK, Prepared
  <2>2. pwm' = colour[depth]
    BY <2>1, LatchTakes
  <2> QED
    BY <1>3, <2>1, <2>2 DEF Prepared
<1> QED
  BY <1>2, <1>4, <1>5, <1>6, <1>7, <1>8, <1>9, <1>10 DEF Step

\* A step that is not the end of a send leaves a finished one's colours.
LEMMA ShownKept ==
  ASSUME TypeOK, ShownAsAsked, [Next]_vars, ~ LatchSecond
  PROVE  ShownAsAsked'
<1> USE DEF At
<1>1. depth \in Contexts /\ Contexts \subseteq Int /\ 0 \in Contexts
  BY LedDriverAssumption DEF TypeOK, Contexts
<1> SUFFICES ASSUME ~ Sending' PROVE ~ Sending /\ UNCHANGED <<clean, asked, pwm, current>>
  BY DEF ShownAsAsked
<1>2. CASE MainSets
  <2>1. /\ depth' = 0 /\ pc[0] = "idle" /\ \A x \in Contexts : x <= 0 => x = 0
        /\ depth = 0 /\ UNCHANGED <<clean, asked, pwm, current>>
    BY <1>2 DEF MainSets, Contexts, ledVars
  <2> QED
    BY <2>1 DEF Sending
<1>3. CASE Interrupt
  <2>1. PICK c \in COLOURS : Enter(depth + 1, c, FALSE)
    BY <1>3 DEF Interrupt
  <2>2. \A x \in Contexts : x <= depth => x # depth + 1 /\ x <= depth'
    BY <1>1, <1>3 DEF Interrupt
  <2>3. \A x \in Contexts : x <= depth => pc'[x] = pc[x] /\ second'[x] = second[x]
    BY <2>1, <2>2 DEF Enter, TypeOK
  <2> QED
    BY <1>3, <2>2, <2>3 DEF Sending, Interrupt, ledVars
<1>4. CASE LatchFirst
  <2>1. depth' = depth /\ second'[depth] /\ pc'[depth] = "mode" /\ depth <= depth
    BY <1>1, <1>4 DEF LatchFirst, Goto, TypeOK
  <2> QED
    BY <1>1, <2>1 DEF Sending
<1>5. CASE Mode \/ Command \/ Load \/ High \/ Low \/ Bit
  <2>1. /\ depth' = depth /\ second' = second /\ UNCHANGED <<clean, asked, pwm, current>>
        /\ pc[depth] \notin {"idle", "latch"} /\ pc'[depth] # "idle"
        /\ \A x \in Contexts : x # depth => pc'[x] = pc[x]
    BY <1>1, <1>5 DEF Mode, Command, Load, High, Low, Bit, Goto, TypeOK, ledVars
  <2> QED
    BY <2>1 DEF Sending
<1>6. CASE UNCHANGED vars
  <2>1. UNCHANGED <<clean, asked, pwm, current, depth, pc, second>>
    BY <1>6 DEF vars, ledVars, contextVars
  <2> QED
    BY <2>1 DEF Sending
<1> QED
  BY <1>2, <1>3, <1>4, <1>5, <1>6 DEF Next, Step

\* The end of a send that nothing has disturbed.
LEMMA ShownAtEnd ==
  ASSUME TypeOK, Alone => Prepared, LatchSecond
  PROVE  ShownAsAsked'
<1>1. depth \in Contexts
  BY DEF TypeOK
<1>2. ASSUME clean' PROVE pwm' = asked' /\ current' = setting
  <2>1. Alone
    BY <1>2 DEF LatchSecond, Alone, At
  <2>2. Sent(BITS + 1) /\ second[depth] /\ LatchChain /\ pwm = colour[depth]
    BY <2>1 DEF LatchSecond, Prepared
  <2>3. current' = setting /\ pwm' = pwm
    BY <2>2, LatchTakes
  <2> QED
    BY <2>2, <2>3 DEF LatchSecond
<1> QED
  BY <1>2 DEF ShownAsAsked

LEMMA ShownStep == ShownInv /\ [Next]_vars /\ TypeOK' => ShownInv'
<1> SUFFICES ASSUME ShownInv, [Next]_vars, TypeOK' PROVE ShownInv'
  OBVIOUS
<1> USE DEF ShownInv
<1>1. ShownAsAsked'
  BY ShownKept, ShownAtEnd
<1>2. ASSUME Alone' PROVE Prepared'
  <2>1. depth \in Contexts /\ Contexts \subseteq Int
    BY LedDriverAssumption DEF TypeOK, Contexts
  <2>2. CASE Step
    BY <1>2, <2>2, PreparedStep
  <2>3. CASE MainSets \/ Interrupt
    <3>1. pc'[depth'] = "mode" /\ ~ second'[depth']
      <4>1. CASE MainSets
        BY <2>1, <4>1 DEF MainSets, Enter, TypeOK
      <4>2. CASE Interrupt
        <5>1. depth + 1 \in Contexts /\ depth' = depth + 1
          BY <2>1, <4>2, LedDriverAssumption DEF Interrupt, Contexts
        <5> QED
          BY <4>2, <5>1 DEF Interrupt, Enter, TypeOK
      <4> QED
        BY <2>3, <4>1, <4>2
    <3> QED
      BY <3>1 DEF Prepared, At
  <2>4. CASE UNCHANGED vars
    <3>1. Alone /\ Prepared
      BY <1>2, <2>4 DEF Alone, At, vars, contextVars
    <3> QED
      BY <2>4, <3>1
      DEF Prepared, At, Mode0or1, Wanted, WordOf, Sent, vars, globalVars, ledVars, contextVars
  <2> QED
    BY <2>2, <2>3, <2>4 DEF Next
<1> QED
  BY <1>1, <1>2

\* After a send that no interrupt has disturbed the LED shows the colour asked
\* for, at the current setting, until the next send ends a word.
THEOREM ShownCorrect == Spec => []ShownAsAsked
<1>1. Init => ShownInv
  <2>1. 0 \in Contexts
    BY LedDriverAssumption DEF Contexts
  <2> QED
    BY <2>1, InitType DEF Init, ShownInv, Alone, At, ShownAsAsked
<1>2. ShownInv /\ [Next]_vars /\ TypeOK' => ShownInv'
  BY ShownStep
<1>3. ShownInv => ShownAsAsked
  BY DEF ShownInv
<1> QED
  BY <1>1, <1>2, <1>3, TypeCorrect, PTL DEF Spec

=============================================================================
