--------------------------- MODULE LedClock_proofs ---------------------------
(***************************************************************************)
(* Theorems about LedClock, for every set of tempos, modes, statuses,      *)
(* pressures and MIDI bytes, and every number of timings in a beat up to   *)
(* the code's 24.                                                          *)
(***************************************************************************)
EXTENDS LedClock, TLAPS

LEMMA FadeFacts ==
  /\ MidiFade(0) = FULL
  /\ \A c \in Counts : MidiFade(c) \in FadeSteps
  /\ \A x \in Int : Int8(x) \in FadeSteps
  /\ \A x \in Int : Truncate(x, 25) \in Int
BY LedAssumption DEF MidiFade, Truncate, Int8, FULL, FadeSteps, Counts

\* The values that the code sets belong to the types.
LEMMA Literals ==
  /\ FULL \in FadeSteps /\ 0 \in Counts /\ 120 \in Tempos
  /\ 0 \in Bytes /\ 1 \in Bytes
  /\ TEMPOS \subseteq Tempos /\ MODES \subseteq Bytes /\ STATUSES \subseteq Bytes
<1>1. FULL \in FadeSteps /\ 0 \in Counts
  BY LedAssumption DEF FULL, FadeSteps, Counts
<1>2. 120 \in Tempos
  BY DEF Tempos
<1>3. 0 \in Bytes /\ 1 \in Bytes
  BY DEF Bytes
<1>4. TEMPOS \subseteq Tempos /\ MODES \subseteq Bytes /\ STATUSES \subseteq Bytes
  BY LedAssumption
<1> QED
  BY <1>1, <1>2, <1>3, <1>4

LEMMA NextFadeType == TypeClock => NextFade \in FadeSteps
<1> SUFFICES ASSUME TypeClock PROVE NextFade \in FadeSteps
  OBVIOUS
<1>1. 25 * LED_Fade_Step - LED_Tempo \in Int
  BY DEF TypeClock, FadeSteps, Tempos
<1>2. Int8(Truncate(25 * LED_Fade_Step - LED_Tempo, 25)) \in FadeSteps
  BY <1>1, FadeFacts
<1>3. /\ MidiFade(MIDI_Clock_Timing_Count) \in FadeSteps
      /\ LED_Fade_Step \in FadeSteps
  BY FadeFacts DEF TypeClock
<1> QED
  BY <1>2, <1>3 DEF NextFade

LEMMA Levelled == \A fade : Brightness(fade) \in Levels
BY DEF Brightness, Levels

LEMMA ClockStep == TypeClock /\ [Next]_vars => TypeClock'
<1> SUFFICES ASSUME TypeClock, [Next]_vars PROVE TypeClock'
  OBVIOUS
<1> USE DEF TypeClock, clock
<1>1. ASSUME NEW running \in {0, 1}, NEW tempo \in TEMPOS, AlphaLiveBeat(running, tempo)
      PROVE  TypeClock'
  <2>1. tempo \in Tempos
    BY Literals
  <2> QED
    <3>1. CASE LED_Clock_Running = 2
      BY <1>1, <3>1 DEF AlphaLiveBeat
    <3>2. CASE LED_Clock_Running # 2
      <4>1. beat' \in BOOLEAN
        BY <1>1, <3>2 DEF AlphaLiveBeat
      <4>2. LED_Tempo' \in Tempos /\ LED_Clock_Running' \in {0, 1, 2}
        BY <1>1, <2>1, <3>2 DEF AlphaLiveBeat
      <4>3. LED_Fade_Step' \in FadeSteps /\ MIDI_Clock_Timing_Count' \in Counts
        BY <1>1, <3>2, Literals DEF AlphaLiveBeat
      <4> QED
        BY <4>1, <4>2, <4>3
    <3> QED
      BY <3>1, <3>2
<1>2. ASSUME NEW byte \in MIDI_BYTES, MidiClock(byte)
      PROVE  TypeClock'
  <2>1. LED_Tempo' = LED_Tempo
    BY <1>2 DEF MidiClock
  <2>2. CASE MidiStart
    BY <2>1, <2>2, Literals DEF MidiStart
  <2>3. CASE MidiStop
    <3>1. beat' \in BOOLEAN
      BY <2>3 DEF MidiStop
    <3>2. /\ LED_Clock_Running' \in {0, 1, 2}
          /\ UNCHANGED <<LED_Fade_Step, MIDI_Clock_Timing_Count>>
      BY <2>3 DEF MidiStop
    <3> QED
      BY <2>1, <3>1, <3>2
  <2>4. CASE MidiTick
    <3>1. beat' \in BOOLEAN
      BY <2>4 DEF MidiTick
    <3>2. MIDI_Clock_Timing_Count' \in Counts
      BY <2>4, LedAssumption DEF MidiTick, Counts
    <3>3. LED_Fade_Step' \in FadeSteps
      BY <2>4, Literals DEF MidiTick
    <3> QED
      BY <2>1, <2>4, <3>1, <3>2, <3>3 DEF MidiTick
  <2> QED
    BY <1>2, <2>2, <2>3, <2>4 DEF MidiClock
<1>3. CASE Fade
  BY <1>3 DEF Fade
<1>4. CASE FadeStep
  BY <1>4, NextFadeType DEF FadeStep
<1>5. CASE UNCHANGED clock
  BY <1>5
<1> QED
  BY <1>1, <1>2, <1>3, <1>4, <1>5
     DEF Next, Interrupt, Main, SetStatus, SetPressureStatus, SetMode,
         SetClockStatus, ReadMode, Pads, ShowStatic, ReadStatus, ReadColour, ReadClock, Show, vars

LEMMA RoundStep == TypeRound /\ [Next]_vars => TypeRound'
<1> SUFFICES ASSUME TypeRound, [Next]_vars PROVE TypeRound'
  OBVIOUS
<1> USE DEF TypeRound, settings, main, sums
<1>1. ASSUME NEW status \in STATUSES, SetStatus(status)
      PROVE  TypeRound'
  <2>1. status \in Bytes
    BY Literals
  <2> QED
    BY <1>1, <2>1 DEF SetStatus, Dark, Levels
<1>2. ASSUME NEW status \in STATUSES, SetPressureStatus(status)
      PROVE  TypeRound'
  <2>1. status \in Bytes
    BY Literals
  <2> QED
    BY <1>2, <2>1 DEF SetPressureStatus, Levels
<1>3. ASSUME NEW mode \in MODES, SetMode(mode)
      PROVE  TypeRound'
  <2>1. mode \in Bytes
    BY Literals
  <2> QED
    BY <1>3, <2>1 DEF SetMode
<1>4. CASE \E status \in {0, 1} : SetClockStatus(status)
  BY <1>4 DEF SetClockStatus
<1>5. CASE ReadMode
  <2>1. PRESSURES \subseteq Ranges
    BY LedAssumption
  <2>2. led_sum' \in Ranges /\ prev_led_sum' \in Ranges
    BY <1>5, <2>1 DEF ReadMode, Pads
  <2> QED
    BY <1>5, <2>2 DEF ReadMode, PCs
<1>6. CASE ShowStatic
  BY <1>6 DEF ShowStatic, PCs, Levels
<1>7. CASE ReadStatus
  BY <1>7 DEF ReadStatus, PCs
<1>8. CASE ReadClock
  BY <1>8 DEF ReadClock, PCs
<1>9. CASE Fade
  BY <1>9, Levelled DEF Fade, PCs
<1>10. CASE FadeStep
  BY <1>10 DEF FadeStep, PCs
<1>11. CASE Show
  BY <1>11 DEF Show, PCs, Levels
<1>12. CASE UNCHANGED <<settings, main, lit>>
  BY <1>12
<1>13. CASE ReadColour
  BY <1>13 DEF ReadColour, PCs, Levels
<1> HIDE DEF TypeRound, settings, main, sums
<1>14. CASE Interrupt
  BY <1>1, <1>2, <1>3, <1>4, <1>12, <1>14 DEF Interrupt, AlphaLiveBeat, MidiClock
<1>15. CASE Main
  BY <1>5, <1>6, <1>7, <1>8, <1>9, <1>10, <1>11, <1>13, <1>15 DEF Main
<1> QED
  BY <1>12, <1>14, <1>15 DEF Next, vars

LEMMA TypeStep == TypeOK /\ [Next]_vars => TypeOK'
  BY ClockStep, RoundStep DEF TypeOK

\* Every variable keeps its type; in particular the count of the MIDI clock is
\* one of a beat's 24 (MIDI.c:145-152), which is what keeps the fade step that
\* main computes from it within its eight bits.
THEOREM TypeCorrect == Spec => []TypeOK
<1>1. Init => TypeOK
  <2>1. Init => TypeClock
    <3> SUFFICES ASSUME Init PROVE TypeClock
      OBVIOUS
    <3>1. beat \in BOOLEAN
      BY DEF Init
    <3>2. /\ LED_Clock_Running \in {0, 1, 2} /\ LED_Fade_Step \in FadeSteps
          /\ LED_Tempo \in Tempos /\ MIDI_Clock_Timing_Count \in Counts
      BY Literals DEF Init
    <3> QED
      BY <3>1, <3>2 DEF TypeClock
  <2>2. Init => TypeRound
    BY Literals DEF Init, TypeRound, PCs, Levels, Ranges
  <2> QED
    BY <2>1, <2>2 DEF TypeOK
<1> QED
  BY <1>1, TypeStep, PTL DEF Spec

-----------------------------------------------------------------------------
(* The fade of the MIDI clock.                                             *)

LEMMA MidiFadeStep ==
  ASSUME TypeOK, MidiFadeInRange, [Next]_vars
  PROVE  MidiFadeInRange'
<1> USE DEF MidiFadeInRange, settings, clock, main
<1>0. FULL \in {MidiFade(c) : c \in Counts}
  BY FadeFacts, Literals
<1>1. CASE \E running \in {0, 1}, tempo \in TEMPOS : AlphaLiveBeat(running, tempo)
  BY <1>1 DEF AlphaLiveBeat
<1>2. CASE \E byte \in MIDI_BYTES : MidiClock(byte)
  BY <1>0, <1>2 DEF MidiClock, MidiStart, MidiStop, MidiTick
<1>3. CASE FadeStep
  <2>1. LED_Clock_Running = 2
          => LED_Fade_Step' = MidiFade(MIDI_Clock_Timing_Count)
    BY <1>3 DEF FadeStep, NextFade
  <2>2. MIDI_Clock_Timing_Count \in Counts
    BY DEF TypeOK, TypeClock
  <2> QED
    BY <1>3, <2>1, <2>2 DEF FadeStep
<1>4. CASE UNCHANGED <<LED_Clock_Running, LED_Fade_Step>>
  BY <1>4
<1> QED
  BY <1>1, <1>2, <1>3, <1>4
     DEF Next, Interrupt, Main, SetStatus, SetPressureStatus, SetMode,
         SetClockStatus, ReadMode, Pads, ShowStatic, ReadStatus, ReadColour, ReadClock, Fade, Show, vars

\* While the MIDI clock is in charge the fade step is one of the 24 that its
\* count gives, also right after a start that finds what AlphaLive's clock left.
THEOREM MidiFadeCorrect == Spec => []MidiFadeInRange
<1>1. Init => MidiFadeInRange
  BY DEF Init, MidiFadeInRange
<1> QED
  BY <1>1, MidiFadeStep, TypeCorrect, PTL DEF Spec

-----------------------------------------------------------------------------
(* Beats.                                                                  *)

BeatInv == beat => LED_Fade_Step = FULL /\ pc # "FadeStep"

LEMMA BeatStep ==
  ASSUME BeatInv, [Next]_vars
  PROVE  BeatInv'
<1> USE DEF BeatInv, settings, clock, main
<1>1. CASE \E running \in {0, 1}, tempo \in TEMPOS : AlphaLiveBeat(running, tempo)
  BY <1>1 DEF AlphaLiveBeat, InterruptsOn
<1>2. CASE \E byte \in MIDI_BYTES : MidiClock(byte)
  BY <1>2 DEF MidiClock, MidiStart, MidiStop, MidiTick, InterruptsOn
<1>3. CASE Fade
  BY <1>3 DEF Fade
<1>4. CASE FadeStep
  BY <1>4 DEF FadeStep
<1>5. CASE UNCHANGED <<LED_Fade_Step, beat>> /\ (pc' = pc \/ pc' # "FadeStep")
  BY <1>5
<1> QED
  BY <1>1, <1>2, <1>3, <1>4, <1>5
     DEF Next, Interrupt, Main, SetStatus, SetPressureStatus, SetMode,
         SetClockStatus, ReadMode, Pads, ShowStatic, ReadStatus, ReadColour, ReadClock, Show, vars

\* A beat that arrives at any point of main's round is shown at full brightness
\* by the next fade: BeatInv says that nothing takes the 100 away before main
\* uses it, because handlers cannot run between main's use and its step.
THEOREM BeatCorrect == Spec => BeatNotLost
<1>1. Init => BeatInv
  BY DEF Init, BeatInv
<1>2. ASSUME BeatInv, [Next]_vars
      PROVE  [pc = "Fade" /\ pc' = "FadeStep" /\ beat => dimmed' = "full"]_vars
  <2> SUFFICES ASSUME Next, pc = "Fade", pc' = "FadeStep", beat
               PROVE  dimmed' = "full"
    BY <1>2
  <2>1. Fade
    BY DEF Next, Interrupt, Main, AlphaLiveBeat, MidiClock, SetStatus,
           SetPressureStatus, SetMode, SetClockStatus, ReadMode, Pads, ShowStatic,
           ReadStatus, ReadColour, ReadClock, FadeStep, Show, main
  <2>2. LED_Fade_Step = FULL
    BY <1>2 DEF BeatInv
  <2> QED
    BY <2>1, <2>2 DEF Fade, Brightness, FULL
<1> QED
  BY <1>1, <1>2, BeatStep, PTL DEF Spec, BeatNotLost

-----------------------------------------------------------------------------
(* Darkening: while the MIDI clock is in charge its count is ahead of the  *)
(* fade step, which was computed from an earlier count of the same beat or *)
(* is still the beat's own.                                                *)

CountAhead ==
  LED_Clock_Running = 2 => MidiFade(MIDI_Clock_Timing_Count) <= LED_Fade_Step

LEMMA MidiFadeFalls ==
  \A c \in Counts : MidiFade(c) <= FULL /\ MidiFade(c + 1) <= MidiFade(c)
BY LedAssumption DEF MidiFade, Truncate, FULL, Counts

\* A step of AlphaLive's clock that stays in its eight bits goes down.
LEMMA AlphaLiveFalls ==
  ASSUME TypeClock, ~(Truncate(25 * LED_Fade_Step - LED_Tempo, 25) < -128)
  PROVE  Int8(Truncate(25 * LED_Fade_Step - LED_Tempo, 25)) <= LED_Fade_Step
<1>1. LED_Fade_Step \in -128 .. 127 /\ LED_Tempo \in Nat
  BY DEF TypeClock, FadeSteps, Tempos
<1> DEFINE y == Truncate(25 * LED_Fade_Step - LED_Tempo, 25)
<1>2. y \in Int /\ y <= LED_Fade_Step
  BY <1>1 DEF Truncate
<1>3. y \in -128 .. 127
  BY <1>1, <1>2
<1> HIDE DEF y
<1>4. Int8(y) = y
  BY <1>3 DEF Int8
<1> QED
  BY <1>2, <1>4 DEF y

LEMMA CountAheadStep ==
  ASSUME TypeClock, CountAhead, [Next]_vars
  PROVE  CountAhead'
<1> USE DEF CountAhead, clock, main
<1>0. LED_Fade_Step \in Int /\ MIDI_Clock_Timing_Count \in Counts
  BY DEF TypeClock, FadeSteps
<1>1. CASE \E running \in {0, 1}, tempo \in TEMPOS : AlphaLiveBeat(running, tempo)
  BY <1>1 DEF AlphaLiveBeat
<1>2. CASE \E byte \in MIDI_BYTES : MidiClock(byte)
  <2>1. CASE MidiStart
    BY <2>1, FadeFacts DEF MidiStart, FULL
  <2>2. CASE MidiStop
    BY <2>2 DEF MidiStop
  <2>3. CASE MidiTick
    <3>1. CASE MIDI_Clock_Timing_Count + 1 >= TIMINGS
      BY <2>3, <3>1, FadeFacts DEF MidiTick, FULL
    <3>2. CASE ~(MIDI_Clock_Timing_Count + 1 >= TIMINGS)
      <4>1. MidiFade(MIDI_Clock_Timing_Count + 1) <= MidiFade(MIDI_Clock_Timing_Count)
        BY <1>0, MidiFadeFalls
      <4>2. /\ MidiFade(MIDI_Clock_Timing_Count) \in Int
            /\ MidiFade(MIDI_Clock_Timing_Count + 1) \in Int
        BY <1>0, LedAssumption DEF MidiFade, Truncate, Counts
      <4> QED
        BY <1>0, <2>3, <3>2, <4>1, <4>2 DEF MidiTick
    <3> QED
      BY <3>1, <3>2
  <2> QED
    BY <1>2, <2>1, <2>2, <2>3 DEF MidiClock
<1>3. CASE FadeStep
  <2>1. LED_Clock_Running = 2 => LED_Fade_Step' = MidiFade(MIDI_Clock_Timing_Count)
    BY <1>3 DEF FadeStep, NextFade
  <2>2. MidiFade(MIDI_Clock_Timing_Count) \in Int
    BY <1>0, LedAssumption DEF MidiFade, Truncate, Counts
  <2> QED
    BY <1>3, <2>1, <2>2 DEF FadeStep
<1>4. CASE UNCHANGED <<LED_Clock_Running, LED_Fade_Step, MIDI_Clock_Timing_Count>>
  BY <1>4
<1> QED
  BY <1>1, <1>2, <1>3, <1>4
     DEF Next, Interrupt, Main, SetStatus, SetPressureStatus, SetMode,
         SetClockStatus, ReadMode, Pads, ShowStatic, ReadStatus, ReadColour,
         ReadClock, Fade, Show, vars

\* The LED only gets darker between beats, for every tempo and every order of
\* the two clocks' starts, beats and stops, unless AlphaLive's step runs out:
\* CountAhead says that a MIDI clock that takes over finds a step that its
\* count has not passed.
THEOREM FadeDarkensCorrect == Spec => FadeOnlyDarkens
<1>1. Init => CountAhead
  BY DEF Init, CountAhead
<1>2. ASSUME TypeOK, CountAhead, [Next]_vars
      PROVE  [LED_Fade_Step' > LED_Fade_Step
                => LED_Fade_Step' = FULL \/ FadeRunsOut]_vars
  <2> USE DEF clock
  <2>0. TypeClock
    BY <1>2 DEF TypeOK
  <2>1. CASE \E running \in {0, 1}, tempo \in TEMPOS : AlphaLiveBeat(running, tempo)
    BY <2>0, <2>1 DEF AlphaLiveBeat, TypeClock, FadeSteps
  <2>2. CASE \E byte \in MIDI_BYTES : MidiClock(byte)
    BY <2>0, <2>2 DEF MidiClock, MidiStart, MidiStop, MidiTick, TypeClock, FadeSteps
  <2>3. CASE FadeStep
    <3>1. LED_Fade_Step \in Int
      BY <2>0 DEF TypeClock, FadeSteps
    <3>2. CASE LED_Clock_Running = 1
      <4>1. pc = "FadeStep" /\ LED_Fade_Step' = NextFade
        BY <2>3 DEF FadeStep
      <4>2. NextFade = Int8(Truncate(25 * LED_Fade_Step - LED_Tempo, 25))
        BY <3>2 DEF NextFade
      <4>3. NextFade \in Int
        BY <2>0, NextFadeType DEF FadeSteps
      <4> QED
        BY <2>0, <3>1, <3>2, <4>1, <4>2, <4>3, AlphaLiveFalls DEF FadeRunsOut
    <3>3. CASE LED_Clock_Running # 1
      BY <1>2, <2>3, <3>1, <3>3, <2>0, NextFadeType
         DEF FadeStep, NextFade, CountAhead, FadeSteps
    <3> QED
      BY <3>2, <3>3
  <2>4. CASE UNCHANGED LED_Fade_Step
    BY <2>0, <2>4 DEF TypeClock, FadeSteps
  <2> QED
    BY <1>2, <2>1, <2>2, <2>3, <2>4
       DEF Next, Interrupt, Main, SetStatus, SetPressureStatus, SetMode,
           SetClockStatus, ReadMode, Pads, ShowStatic, ReadStatus, ReadColour,
           ReadClock, Fade, Show, vars
<1>3. TypeOK /\ CountAhead /\ [Next]_vars => CountAhead'
  BY CountAheadStep DEF TypeOK
<1> QED
  BY <1>1, <1>2, <1>3, TypeCorrect, PTL DEF Spec, FadeOnlyDarkens
=============================================================================
