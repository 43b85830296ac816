------------------------------ MODULE LedClock ------------------------------
(***************************************************************************)
(* The LED and the clock it fades to.                                      *)
(*                                                                         *)
(* Main (SphereWare.c:430-584) sets the LED once per round of the pads: to *)
(* the static colour, or to the colour of the pressure faded by            *)
(* LED_Fade_Step.  The timer interrupt changes mode, status, clock and     *)
(* fade from HID OUT reports (GenericHID.c:169-236) and MIDI messages      *)
(* (MIDI.c:105-189), between any two steps of main except in its cli       *)
(* region (516-558).                                                       *)
(*                                                                         *)
(* Colours are left to LedColour: here the LED shows nothing, the colour   *)
(* of the pressure, the static colour or what uninitialized locals hold,   *)
(* at a brightness of which it matters whether it is nothing, less than    *)
(* full, full or more than full.                                           *)
(***************************************************************************)
EXTENDS Integers

CONSTANTS
  TEMPOS,    \* LED_Tempo values AlphaLive sends
  MODES,     \* LED_Mode values HID OUT reports set (CC 20: 0 and 1)
  STATUSES,  \* LED_Status and LED_Pressure_Status values
  PRESSURES, \* ranges of pressure that the pads reach
  TIMINGS,   \* 24 MIDI timing messages make a beat
  MIDI_BYTES \* status bytes of MIDI messages in

Bytes     == 0 .. 255
Tempos    == 0 .. 65535
FadeSteps == -128 .. 127

\* No pressure, and the ranges up to the mid colour and from it (456-489).
None  == 0
Lower == 1
Upper == 2
Ranges == {None, Lower, Upper}

ASSUME LedAssumption ==
  /\ TEMPOS \subseteq Tempos /\ MODES \subseteq Bytes
  /\ STATUSES \subseteq Bytes /\ MIDI_BYTES \subseteq Bytes
  /\ PRESSURES \subseteq Ranges
  /\ TIMINGS \in 1 .. 24

VARIABLES
  LED_Mode, LED_Status, LED_Pressure_Status,
  LED_Clock_Status,       \* clock interaction on or off
  LED_Clock_Running,      \* 0 none, 1 AlphaLive, 2 MIDI
  LED_Fade_Step,          \* int8_t
  LED_Tempo,
  MIDI_Clock_Timing_Count,
  pc,                     \* where main is
  led_sum,                \* range of the pressure of this round's pads
  prev_led_sum,           \* and of the round before
  shade, dimmed,          \* red_new, green_new, blue_new: colour, brightness
  lit,                    \* what the LED shows: colour and brightness
  beat                    \* history: a beat main has not shown yet

settings == <<LED_Mode, LED_Status, LED_Pressure_Status, LED_Clock_Status>>
clock    == <<LED_Clock_Running, LED_Fade_Step, LED_Tempo, MIDI_Clock_Timing_Count, beat>>
sums     == <<led_sum, prev_led_sum>>
main     == <<pc, sums, shade, dimmed>>
vars     == <<settings, clock, main, lit>>

FULL == 100
Dark == <<"off", "none">>

Mut_Int8(x) == x

\* (x / d) converted to an integer type, and the low byte of one as int8_t.
Truncate(x, d) == IF x >= 0 THEN x \div d ELSE - ((- x) \div d)
Int8(x)        == ((x + 128) % 256) - 128

Brightness(fade) ==
  IF fade <= 0 THEN "none" ELSE IF fade < FULL THEN "part"
                           ELSE IF fade = FULL THEN "full" ELSE "over"

Init ==
  /\ LED_Mode = 0 /\ LED_Status = 1 /\ LED_Pressure_Status = 1
  /\ LED_Clock_Status = 0
  /\ LED_Clock_Running = 0 /\ LED_Fade_Step = FULL /\ LED_Tempo = 120
  /\ MIDI_Clock_Timing_Count = 0
  /\ pc = "Mode" /\ led_sum = None /\ prev_led_sum = None
  /\ shade = "normal" /\ dimmed = "full"
  /\ lit = <<"normal", "full">>
  /\ beat = FALSE

-----------------------------------------------------------------------------
(* In the timer interrupt.                                                 *)

Mut_FadeUnmasked == TRUE

\* main is not between cli and sei.
InterruptsOn == pc # "FadeStep"

\* GenericHID.c:212-236.
AlphaLiveBeat(running, tempo) ==
  /\ InterruptsOn
  /\ IF LED_Clock_Running = 2
     THEN UNCHANGED clock
     ELSE /\ LED_Clock_Running' = running
          /\ LED_Tempo' = tempo
          /\ IF running = 1 THEN LED_Fade_Step' = FULL /\ beat' = TRUE
                            ELSE UNCHANGED LED_Fade_Step /\ beat' = FALSE
          /\ UNCHANGED MIDI_Clock_Timing_Count
  /\ UNCHANGED <<settings, main, lit>>

Mut_MidiStart ==
  /\ LED_Clock_Running' = 2 /\ UNCHANGED LED_Fade_Step
  /\ MIDI_Clock_Timing_Count' = 0
  /\ beat' = TRUE

MidiStart ==
  /\ LED_Clock_Running' = 2 /\ LED_Fade_Step' = FULL
  /\ MIDI_Clock_Timing_Count' = 0
  /\ beat' = TRUE

MidiStop ==
  /\ LED_Clock_Running' = 0 /\ beat' = FALSE
  /\ UNCHANGED <<LED_Fade_Step, MIDI_Clock_Timing_Count>>

Mut_MidiTick ==
  /\ IF MIDI_Clock_Timing_Count + 1 > TIMINGS
     THEN MIDI_Clock_Timing_Count' = 0 /\ LED_Fade_Step' = FULL
          /\ beat' = (LED_Clock_Running = 2)
     ELSE /\ MIDI_Clock_Timing_Count' = MIDI_Clock_Timing_Count + 1
          /\ UNCHANGED <<LED_Fade_Step, beat>>
  /\ UNCHANGED LED_Clock_Running

MidiTick ==
  /\ IF MIDI_Clock_Timing_Count + 1 >= TIMINGS
     THEN MIDI_Clock_Timing_Count' = 0 /\ LED_Fade_Step' = FULL
          /\ beat' = (LED_Clock_Running = 2)
     ELSE /\ MIDI_Clock_Timing_Count' = MIDI_Clock_Timing_Count + 1
          /\ UNCHANGED <<LED_Fade_Step, beat>>
  /\ UNCHANGED LED_Clock_Running

MidiClockFree == LED_Clock_Running # 1

MidiClock(byte) ==
  /\ InterruptsOn
  /\ MidiClockFree
  /\ \/ byte \in {250, 251} /\ MidiStart
     \/ byte = 252 /\ MidiStop
     \/ byte = 248 /\ MidiTick
  /\ UNCHANGED <<LED_Tempo, settings, main, lit>>

\* LED_Set_Status writes the LED itself, in normal mode.
SetStatus(status) ==
  /\ InterruptsOn
  /\ LED_Status' = status
  /\ IF LED_Mode # 0 THEN UNCHANGED lit
     ELSE lit' = IF status = 0 THEN Dark ELSE <<"normal", "full">>
  /\ UNCHANGED <<LED_Mode, LED_Pressure_Status, LED_Clock_Status, clock, main>>

\* Without pressure interaction the lowest colour is shown.
SetPressureStatus(status) ==
  /\ InterruptsOn
  /\ LED_Pressure_Status' = status
  /\ lit' = IF LED_Mode = 0 /\ status = 0 /\ LED_Status = 1
            THEN <<"normal", "full">> ELSE lit
  /\ UNCHANGED <<LED_Mode, LED_Status, LED_Clock_Status, clock, main>>

SetMode(mode) ==
  /\ InterruptsOn
  /\ LED_Mode' = mode
  /\ UNCHANGED <<LED_Status, LED_Pressure_Status, LED_Clock_Status, clock, main, lit>>

SetClockStatus(status) ==
  /\ InterruptsOn
  /\ LED_Clock_Status' = status
  /\ UNCHANGED <<LED_Mode, LED_Status, LED_Pressure_Status, clock, main, lit>>

Interrupt ==
  \/ \E running \in {0, 1}, tempo \in TEMPOS : AlphaLiveBeat(running, tempo)
  \/ \E byte \in MIDI_BYTES : MidiClock(byte)
  \/ \E status \in STATUSES : SetStatus(status) \/ SetPressureStatus(status)
  \/ \E mode \in MODES : SetMode(mode)
  \/ \E status \in {0, 1} : SetClockStatus(status)

-----------------------------------------------------------------------------
(* Main: the end of a round.                                               *)

Mut_Pads == led_sum' \in PRESSURES /\ UNCHANGED prev_led_sum

\* 584 of the round before, and this round's pads (316, 344, 402).
Pads == led_sum' \in PRESSURES /\ prev_led_sum' = led_sum

ReadMode ==
  /\ pc = "Mode"
  /\ Pads
  /\ pc' = IF LED_Mode = 0 THEN "Status" ELSE IF LED_Mode = 1 THEN "Static" ELSE pc
  /\ UNCHANGED <<shade, dimmed, settings, clock, lit>>

ShowStatic ==
  /\ pc = "Static"
  /\ lit' = <<"static", "full">>
  /\ pc' = "Mode"
  /\ UNCHANGED <<sums, shade, dimmed, settings, clock>>

ReadStatus ==
  /\ pc = "Status"
  /\ pc' = IF LED_Status # 0 THEN "Colour" ELSE "Mode"
  /\ UNCHANGED <<sums, shade, dimmed, settings, clock, lit>>

\* 493-502: in the upper range nothing is assigned in the first round with
\* pressure.
Uncomputed == LED_Pressure_Status # 0 /\ led_sum = Upper /\ prev_led_sum = None

\* 441-510: the colour, not yet faded.
ReadColour ==
  /\ pc = "Colour"
  /\ shade' = IF Uncomputed THEN "garbage" ELSE "normal"
  /\ dimmed' = "full"
  /\ pc' = "Clock"
  /\ UNCHANGED <<sums, settings, clock, lit>>

ReadClock ==
  /\ pc = "Clock"
  /\ pc' = IF LED_Clock_Status # 0 /\ LED_Clock_Running # 0 THEN "Fade" ELSE "Show"
  /\ UNCHANGED <<sums, shade, dimmed, settings, clock, lit>>

\* 528-537.
Fade ==
  /\ pc = "Fade"
  /\ dimmed' = Brightness(LED_Fade_Step)
  /\ beat' = FALSE
  /\ pc' = "FadeStep"
  /\ UNCHANGED <<LED_Clock_Running, LED_Fade_Step, LED_Tempo,
                 MIDI_Clock_Timing_Count, sums, shade, settings, lit>>

\* 541-558.
MidiFade(count) == Truncate(200 - 9 * count, 2)

NextFade ==
  IF LED_Clock_Running = 1 THEN Int8(Truncate(25 * LED_Fade_Step - LED_Tempo, 25))
  ELSE IF LED_Clock_Running = 2 THEN MidiFade(MIDI_Clock_Timing_Count)
  ELSE LED_Fade_Step

FadeStep ==
  /\ pc = "FadeStep"
  /\ LED_Fade_Step' = NextFade
  /\ pc' = "Show"
  /\ UNCHANGED <<LED_Clock_Running, LED_Tempo, MIDI_Clock_Timing_Count, beat,
                 sums, shade, dimmed, settings, lit>>

\* The locals end with the block.
Show ==
  /\ pc = "Show"
  /\ lit' = <<shade, dimmed>>
  /\ shade' = "normal" /\ dimmed' = "full"
  /\ pc' = "Mode"
  /\ UNCHANGED <<sums, settings, clock>>

Main ==
  \/ ReadMode \/ ShowStatic \/ ReadStatus \/ ReadColour \/ ReadClock
  \/ Fade \/ FadeStep \/ Show

Next == Interrupt \/ Main

\* Main never waits.
Spec == Init /\ [][Next]_vars /\ WF_vars(Main)

-----------------------------------------------------------------------------
PCs == {"Mode", "Static", "Status", "Colour", "Clock", "Fade", "FadeStep",
        "Show"}
Levels == {"none", "part", "full", "over"}
Counts == 0 .. TIMINGS - 1

TypeClock ==
  /\ LED_Clock_Running \in {0, 1, 2}
  /\ LED_Fade_Step \in FadeSteps /\ LED_Tempo \in Tempos
  /\ MIDI_Clock_Timing_Count \in Counts
  /\ beat \in BOOLEAN

TypeRound ==
  /\ LED_Mode \in Bytes /\ LED_Status \in Bytes /\ LED_Pressure_Status \in Bytes
  /\ LED_Clock_Status \in {0, 1}
  /\ pc \in PCs /\ led_sum \in Ranges /\ prev_led_sum \in Ranges
  /\ shade \in {"normal", "garbage"} /\ dimmed \in Levels
  /\ lit[1] \in {"off", "normal", "garbage", "static"} /\ lit[2] \in Levels

TypeOK == TypeClock /\ TypeRound

\* A beat of the clock in charge is seen: the next fade of the LED after it
\* (SphereWare.c:514-560) starts at full brightness, wherever in main's round
\* the beat arrived (the cli at 516 is there for this).
BeatNotLost ==
  [][pc = "Fade" /\ pc' = "FadeStep" /\ beat => dimmed' = "full"]_vars

\* As long as the MIDI clock is in charge, the fade step is one that its count
\* of 0 to 23 gives (SphereWare.c:551-555), whatever AlphaLive's clock left
\* behind in it before.
MidiFadeInRange ==
  LED_Clock_Running = 2 => LED_Fade_Step \in {MidiFade(c) : c \in Counts}

\* AlphaLive's step, SphereWare.c:546, leaves the int8_t it is kept in.
FadeRunsOut ==
  /\ pc = "FadeStep" /\ LED_Clock_Running = 1
  /\ Truncate(25 * LED_Fade_Step - LED_Tempo, 25) < -128

\* Between beats the LED only gets darker (the fade-out of SphereWare.c:519):
\* the fade step never rises but to the full brightness of a beat, whichever
\* clock is in charge and whatever step, count or tempo the other one left,
\* unless a beat of AlphaLive's is so late that the step runs out.
FadeOnlyDarkens ==
  [][LED_Fade_Step' > LED_Fade_Step => LED_Fade_Step' = FULL \/ FadeRunsOut]_vars

\* When the host leaves the LED on and no clock running, or static, the LED
\* ends up showing that, at full brightness: main's round repairs whatever the
\* interrupt and an interrupted round left.  In normal mode this takes pads
\* that come to rest, at whatever pressure, or pressure switched off: the round
\* in which pressure jumps into the upper range shows uninitialized locals
\* (SphereWare.c:493-502), and line 584 makes it a single round.
LedSettles ==
  /\ /\ <>[](LED_Mode = 0 /\ LED_Status # 0 /\ LED_Clock_Running = 0)
     /\ \/ <>[](LED_Pressure_Status = 0)
        \/ \E range \in Ranges : <>[](led_sum = range)
     => <>[](lit = <<"normal", "full">>)
  /\ <>[](LED_Mode = 1) => <>[](lit = <<"static", "full">>)
=============================================================================
