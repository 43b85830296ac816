----------------------------- MODULE LedDriver ------------------------------
(***************************************************************************)
(* The LED driver (LED.c 50-167): a colour is sent as two words, shifted   *)
(* bit by bit into the LED's register and latched, by main and by timer    *)
(* interrupts that handle a status message.  The words are put together in *)
(* globals, and the sei() in LED_SendPacket lets the next interrupt in,    *)
(* also into an interrupt.                                                 *)
(*                                                                         *)
(* A word is a mode bit (of the code's two the first is always 0) and the  *)
(* bits of a colour.                                                       *)
(***************************************************************************)
EXTENDS Integers, Sequences

CONSTANTS
  BITS,         \* bits of the three channels of a colour (30)
  COLOURS,      \* colours that somebody asks for
  setting,      \* the current setting, which nothing changes after LED_Init
  MAX_NESTED    \* interrupts inside each other (a bound: the stack's size)

Colour == [1 .. BITS -> {0, 1}]
Word   == [1 .. BITS + 1 -> {0, 1}]

ASSUME LedDriverAssumption ==
  /\ BITS \in Nat \ {0} /\ MAX_NESTED \in Nat
  /\ COLOURS \subseteq Colour /\ setting \in Colour

VARIABLES
  LED_CommandMode, command,   \* command: LED_RedCommand, _GreenCommand, _BlueCommand
  led_command_packet,
  chain,                      \* the LED's shift register, oldest bit first
  pwm, current,               \* and what it has latched
  depth,                      \* interrupts in progress that send
  pc, second, bit, colour, on, \* of main (0) and of each interrupt (1 ..)
  disturbed,                  \* an interrupt has sent in the middle
  asked, clean                \* the last send that ended: colour, not disturbed

globalVars  == <<LED_CommandMode, command, led_command_packet>>
ledVars     == <<chain, pwm, current>>
contextVars == <<depth, pc, second, bit, colour, on, disturbed>>
vars == <<globalVars, ledVars, contextVars, asked, clean>>

Contexts == 0 .. MAX_NESTED

WordOf(mode, c) == [i \in 1 .. BITS + 1 |-> IF i = 1 THEN mode ELSE c[i - 1]]

Locations == {"idle", "mode", "command", "load", "high", "low", "bits", "latch"}

Init ==
  /\ LED_CommandMode = 0 /\ command \in COLOURS
  /\ led_command_packet = WordOf(0, command)
  /\ chain = WordOf(0, command) /\ pwm \in COLOURS /\ current \in COLOURS
  /\ depth = 0
  /\ pc = [x \in Contexts |-> "idle"] /\ second = [x \in Contexts |-> FALSE]
  /\ bit = [x \in Contexts |-> 1] /\ colour = [x \in Contexts |-> command]
  /\ on = [x \in Contexts |-> TRUE] /\ disturbed = [x \in Contexts |-> FALSE]
  /\ asked = command /\ clean = FALSE

-----------------------------------------------------------------------------
(* LED_Set_Colour and LED_WriteArray                                       *)

Enter(x, c, enabled) ==
  /\ pc' = [pc EXCEPT ![x] = "mode"]
  /\ second' = [second EXCEPT ![x] = FALSE]
  /\ colour' = [colour EXCEPT ![x] = c]
  /\ on' = [on EXCEPT ![x] = enabled]

\* The LED part of main's round; in the static mode it comes after a cli().
MainSets ==
  /\ depth = 0 /\ pc[0] = "idle"
  /\ \E c \in COLOURS, enabled \in BOOLEAN : Enter(0, c, enabled)
  /\ disturbed' = [disturbed EXCEPT ![0] = FALSE]
  /\ UNCHANGED <<globalVars, ledVars, depth, bit, asked, clean>>

\* An interrupt with a status message in its report, and its interrupts off.
Interrupt ==
  /\ on[depth] /\ depth < MAX_NESTED
  /\ depth' = depth + 1
  /\ \E c \in COLOURS : Enter(depth + 1, c, FALSE)
  /\ disturbed' = [x \in Contexts |-> x <= depth]
  /\ UNCHANGED <<globalVars, ledVars, bit, asked, clean>>

At(location) == pc[depth] = location
Goto(location) == pc' = [pc EXCEPT ![depth] = location]

Mut_ModeKept ==
  /\ At("mode")
  /\ LED_CommandMode' = IF second[depth] THEN 1 ELSE LED_CommandMode
  /\ Goto(IF second[depth] THEN "load" ELSE "command")
  /\ UNCHANGED <<command, led_command_packet, ledVars, depth, second, bit, colour,
                 on, disturbed, asked, clean>>

\* Mode 0 writes the colour, mode 1 the current setting.
Mode ==
  /\ At("mode")
  /\ LED_CommandMode' = IF second[depth] THEN 1 ELSE 0
  /\ Goto(IF second[depth] THEN "load" ELSE "command")
  /\ UNCHANGED <<command, led_command_packet, ledVars, depth, second, bit, colour,
                 on, disturbed, asked, clean>>

Command ==
  /\ At("command")
  /\ command' = colour[depth]
  /\ Goto("load")
  /\ UNCHANGED <<LED_CommandMode, led_command_packet, ledVars, depth, second, bit,
                 colour, on, disturbed, asked, clean>>

-----------------------------------------------------------------------------
(* LED_SendPacket                                                          *)

\* cli(), the current setting if the mode is 1, sei().
Load ==
  /\ At("load")
  /\ command' = IF LED_CommandMode = 1 THEN setting ELSE command
  /\ on' = [on EXCEPT ![depth] = TRUE]
  /\ Goto("high")
  /\ UNCHANGED <<LED_CommandMode, led_command_packet, ledVars, depth, second, bit,
                 colour, disturbed, asked, clean>>

\* The packet is the mode, shifted up by the channels that are put in.
High ==
  /\ At("high")
  /\ led_command_packet' =
       [i \in 1 .. BITS + 1 |-> IF i = BITS + 1 THEN LED_CommandMode ELSE 0]
  /\ Goto("low")
  /\ UNCHANGED <<LED_CommandMode, command, ledVars, depth, second, bit, colour, on,
                 disturbed, asked, clean>>

Low ==
  /\ At("low")
  /\ led_command_packet' = WordOf(led_command_packet[BITS + 1], command)
  /\ bit' = [bit EXCEPT ![depth] = 1]
  /\ Goto("bits")
  /\ UNCHANGED <<LED_CommandMode, command, ledVars, depth, second, colour, on,
                 disturbed, asked, clean>>

Shifted(b) == [i \in 1 .. BITS + 1 |-> IF i = BITS + 1 THEN b ELSE chain[i + 1]]

Mut_BitPastEnd ==
  /\ At("bits")
  /\ chain' = Shifted(led_command_packet[bit[depth]])
  /\ IF bit[depth] <= BITS + 1
     THEN bit' = [bit EXCEPT ![depth] = @ + 1] /\ UNCHANGED pc
     ELSE Goto("latch") /\ UNCHANGED bit
  /\ UNCHANGED <<globalVars, pwm, current, depth, second, colour, on, disturbed,
                 asked, clean>>

Bit ==
  /\ At("bits")
  /\ chain' = Shifted(led_command_packet[bit[depth]])
  /\ IF bit[depth] <= BITS
     THEN bit' = [bit EXCEPT ![depth] = @ + 1] /\ UNCHANGED pc
     ELSE Goto("latch") /\ UNCHANGED bit
  /\ UNCHANGED <<globalVars, pwm, current, depth, second, colour, on, disturbed,
                 asked, clean>>

\* The LED takes what is in its register, as the mode bit says.
LatchChain ==
  LET c == [i \in 1 .. BITS |-> chain[i + 1]] IN
  IF chain[1] = 0 THEN pwm' = c /\ UNCHANGED current
                  ELSE current' = c /\ UNCHANGED pwm

LatchFirst ==
  /\ At("latch") /\ ~ second[depth]
  /\ LatchChain
  /\ second' = [second EXCEPT ![depth] = TRUE]
  /\ Goto("mode")
  /\ UNCHANGED <<globalVars, chain, depth, bit, colour, on, disturbed, asked, clean>>

\* The end of LED_Set_Colour; an interrupt ends with it.
LatchSecond ==
  /\ At("latch") /\ second[depth]
  /\ LatchChain
  /\ Goto("idle")
  /\ asked' = colour[depth] /\ clean' = ~ disturbed[depth]
  /\ depth' = IF depth = 0 THEN 0 ELSE depth - 1
  /\ on' = [on EXCEPT ![depth] = TRUE]
  /\ UNCHANGED <<globalVars, chain, second, bit, colour, disturbed>>

Step == Mode \/ Command \/ Load \/ High \/ Low \/ Bit \/ LatchFirst \/ LatchSecond

Next == MainSets \/ Interrupt \/ Step

Spec == Init /\ [][Next]_vars

-----------------------------------------------------------------------------
\* Every variable stays in its range, and a handler is interrupted only where
\* its interrupts are on.
TypeOK ==
  /\ LED_CommandMode \in {0, 1} /\ command \in Colour
  /\ led_command_packet \in Word /\ chain \in Word
  /\ pwm \in Colour /\ current \in Colour
  /\ depth \in Contexts
  /\ pc \in [Contexts -> Locations] /\ second \in [Contexts -> BOOLEAN]
  /\ bit \in [Contexts -> 1 .. BITS + 1] /\ colour \in [Contexts -> Colour]
  /\ on \in [Contexts -> BOOLEAN] /\ disturbed \in [Contexts -> BOOLEAN]
  /\ \A x \in Contexts : x < depth => on[x] /\ disturbed[x]
  /\ asked \in Colour /\ clean \in BOOLEAN

\* The LED shows what was asked for: after a send that no interrupt has
\* disturbed, and until the next one begins, both registers hold what that send
\* was given - whatever mixture of half sent words was in the globals, in the
\* shift register and in the registers before it.
Sending == \E x \in Contexts : x <= depth /\ pc[x] # "idle" /\ (second[x] \/ pc[x] = "latch")

ShownAsAsked ==
  clean /\ ~ Sending => pwm = asked /\ current = setting
=============================================================================
