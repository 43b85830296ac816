------------------------------ MODULE PadScan ------------------------------
(***************************************************************************)
(* The pad scanner of the AlphaSphere firmware (SphereWare.c): the main    *)
(* loop that visits the pads one by one, Calibrate(), and the part of the  *)
(* 1 kHz timer interrupt that raises every pad's threshold after 20 idle   *)
(* seconds (standby) and lowers it again as soon as something is played.   *)
(*                                                                         *)
(* Main program and interrupt share init_val[], being_played[] and         *)
(* thresholds_raised.  A step of main is one stretch of code that the      *)
(* interrupt either cannot enter (cli .. sei) or cannot be told apart from *)
(* running before or after; the 16-bit accesses to init_val[] that main    *)
(* makes with interrupts enabled are split into the byte accesses of the   *)
(* 8-bit CPU (load low, load high, store high, store low).                 *)
(*                                                                         *)
(* Pads 0 .. FIRST_SE-1 are the differential ones (0..39 in the device),   *)
(* FIRST_SE .. LAST_PAD the single-ended ones (40..47).  init_val[] is     *)
(* kept for the differential pads only: the firmware never reads the       *)
(* others' entries.  The pressure filter is abstracted to whether its      *)
(* output saturates, the peak search of a strike (200 re-reads of the ADC) *)
(* to its end.                                                             *)
(***************************************************************************)
EXTENDS Integers

CONSTANTS
  LAST_PAD,            \* 47 in the device
  FIRST_SE,            \* 40: first single-ended pad
  UNDER_16,            \* 16: pads below it use HYSTERISIS_ADJUST_UNDER_16
  UNDER_8,             \* 8: pads below it use THRESHOLD_UNDER_8
  STANDBY_TICKS,       \* 20000 idle timer ticks before standby
  STICKY_TIMEOUT,      \* 10 releases before the anti-sticky adjustment goes
  ADC_VALUES,          \* readings (negated ADC) of a differential pad
  SE_VALUES,           \* readings of a single-ended pad
  R2R_VALUES,          \* values of the R2R ladder Calibrate can settle on
  MAX_DRIFTS           \* bound: disturbances of one pad between calibrations

ASSUME PadAssumption ==
  /\ LAST_PAD \in Nat /\ FIRST_SE \in 1 .. (LAST_PAD + 1)
  /\ UNDER_16 \in Nat /\ UNDER_8 \in Nat
ASSUME TimerAssumption == STANDBY_TICKS \in Nat /\ STICKY_TIMEOUT \in Nat
ASSUME InputAssumption ==
  /\ ADC_VALUES \subseteq -511 .. 512 /\ SE_VALUES \subseteq 0 .. 1023
  /\ R2R_VALUES \subseteq 0 .. 63
ASSUME BoundAssumption == MAX_DRIFTS \in Nat

Pads  == 0 .. LAST_PAD
Diff  == 0 .. (FIRST_SE - 1)
Se    == FIRST_SE .. LAST_PAD

\* The #defines of SphereWare.c.
THRESHOLD(p)         == IF p < UNDER_8 THEN 120 ELSE 105
THRESHOLD_OVER_39    == 40
HYSTERISIS_ADJUST(p) == IF p < UNDER_16 THEN 35 ELSE 25
HYSTERISIS_ADJUST_OVER_39 == 10
ANTI_STICKY_ADJUST   == 50
STANDBY_ADJUST       == 100
R2R_FLOOR            == -400     \* Calibrate stops at the first reading above

VARIABLES
  \* main program
  pc, slot, pad, cal, lo, hi, reading,
  velocity_sent, anti_sticky_applied, sticky_count,
  hysterisis_applied, init_val_se, pad_order, r2r_val, r2r_out,
  \* shared with the interrupt
  init_val, being_played, controls_played, reset_played, thresholds_raised,
  \* static variable of the interrupt
  count,
  \* history: what calibration found, and what disturbed it since
  base, base_se, r2r_found, drifts, torn, resumed

mainVars   == <<slot, pad, cal, lo, hi, reading, r2r_out>>
isrVars    == <<thresholds_raised, count>>
flagVars   == <<velocity_sent, anti_sticky_applied, sticky_count,
                hysterisis_applied>>
orderVars  == <<pad_order, r2r_val>>
playVars   == <<being_played, controls_played, reset_played>>
baseVars   == <<base, base_se, r2r_found>>
raceVars   == <<drifts, torn, resumed>>
vars == <<pc, mainVars, flagVars, init_val_se, orderVars, init_val, playVars,
          isrVars, baseVars, raceVars>>

Calibrating == {"BootCal", "ReCal"}
Sampling    == {"SampleLo", "SampleHi", "Hit", "Press", "Release"}
\* Between the first load and the last store of init_val[pad] +/-= HYSTERISIS.
InAdjust    == {"AdjLoadHi", "AdjStoreHi", "AdjStoreLo"}
Adjusting   == InAdjust \cup {"AdjLoadLo"}
PCs == Calibrating \cup Sampling \cup Adjusting
         \cup {"Top", "EnterReCal", "WaitReset", "Controls"}

-----------------------------------------------------------------------------
(* Bytes of a 16-bit two's complement value.                               *)

LoByte(v)  == v % 256
HiByte(v)  == v \div 256
Join(h, l) == h * 256 + l

\* Power-on: the zeroed globals, at the call of Calibrate() in main.
Init ==
  /\ pc = "BootCal" /\ slot = 0 /\ pad = 0 /\ cal = 0
  /\ lo = 0 /\ hi = 0 /\ reading = 0 /\ r2r_out = 0
  /\ velocity_sent = [p \in Diff |-> FALSE]
  /\ anti_sticky_applied = [p \in Diff |-> FALSE]
  /\ sticky_count = [p \in Diff |-> 0]
  /\ hysterisis_applied = [p \in Se |-> FALSE]
  /\ init_val_se = [p \in Se |-> 0]
  /\ pad_order = [p \in Pads |-> 0]
  /\ r2r_val = [p \in Pads |-> 0]
  /\ init_val = [p \in Diff |-> 0]
  /\ being_played = [p \in Pads |-> FALSE]
  /\ controls_played = FALSE /\ reset_played = FALSE
  /\ thresholds_raised = FALSE /\ count = 0
  /\ base = [p \in Diff |-> 0]
  /\ base_se = [p \in Se |-> 0]
  /\ r2r_found = [p \in Pads |-> 0]
  /\ drifts = [p \in Diff |-> 0]
  /\ torn = FALSE /\ resumed = FALSE

-----------------------------------------------------------------------------
(* Calibrate(): one step per pad, then the sort and the memsets.           *)

\* What a failed search leaves behind: init_val[p] keeps its old value,
\* whatever adjustments were in it.
SearchFails(p) ==
  /\ r2r_found' = [r2r_found EXCEPT ![p] = 0]
  /\ IF init_val[p] = base[p]
     THEN drifts' = [drifts EXCEPT ![p] = 0]
     ELSE /\ drifts[p] < MAX_DRIFTS
          /\ drifts' = [drifts EXCEPT ![p] = @ + 1]
  /\ UNCHANGED <<init_val, base>>

SearchFinds(p, v, r) ==
  /\ v > R2R_FLOOR
  /\ r2r_found' = [r2r_found EXCEPT ![p] = r]
  /\ init_val' = [init_val EXCEPT ![p] = v + THRESHOLD(p)]
  /\ base' = [base EXCEPT ![p] = v + THRESHOLD(p)]
  /\ drifts' = [drifts EXCEPT ![p] = 0]

CalibratePad ==
  /\ pc \in Calibrating /\ cal \in Diff
  /\ SearchFails(cal) \/ \E v \in ADC_VALUES, r \in R2R_VALUES :
                            SearchFinds(cal, v, r)
  /\ r2r_val' = [r2r_val EXCEPT ![cal] = r2r_found'[cal]]
  /\ pad_order' = [pad_order EXCEPT ![cal] = cal]
  /\ cal' = cal + 1
  /\ UNCHANGED <<pc, slot, pad, lo, hi, reading, r2r_out, flagVars,
                 init_val_se, playVars, isrVars, base_se,
                 torn, resumed>>

CalibrateSePad ==
  /\ pc \in Calibrating /\ cal \in Se
  /\ \E v \in SE_VALUES :
       /\ init_val_se' = [init_val_se EXCEPT ![cal] = v - THRESHOLD_OVER_39]
       /\ base_se' = [base_se EXCEPT ![cal] = v - THRESHOLD_OVER_39]
  /\ pad_order' = [pad_order EXCEPT ![cal] = cal]
  /\ cal' = cal + 1
  /\ UNCHANGED <<pc, slot, pad, lo, hi, reading, r2r_out, flagVars, r2r_val,
                 init_val, playVars, isrVars, base,
                 r2r_found, drifts, torn, resumed>>

\* What BubbleSort(40) makes of the arrays: ascending in r2r_val, equal values
\* in the order they had, pad_order permuted alike.
Sorted(order) ==
  /\ \A i \in Se : order[i] = i
  /\ \A i \in Diff : order[i] \in Diff
  /\ \A i, j \in Diff : i < j =>
       \/ r2r_val[order[i]] < r2r_val[order[j]]
       \/ r2r_val[order[i]] = r2r_val[order[j]] /\ order[i] < order[j]

Mut_PermuteValuesOnly(order) ==
  /\ UNCHANGED pad_order
  /\ r2r_val' = [i \in Pads |-> r2r_val[order[i]]]


Permute(order) ==
  /\ pad_order' = order
  /\ r2r_val' = [i \in Pads |-> r2r_val[order[i]]]

Mut_ClearFlagsButHysteresis ==
  /\ being_played' = [p \in Pads |-> FALSE]
  /\ controls_played' = FALSE /\ reset_played' = FALSE
  /\ anti_sticky_applied' = [p \in Diff |-> FALSE]
  /\ velocity_sent' = [p \in Diff |-> FALSE]
  /\ UNCHANGED hysterisis_applied

\* The memsets at the end; sticky_count, a local of main, is out of reach.
ClearFlags ==
  /\ being_played' = [p \in Pads |-> FALSE]
  /\ controls_played' = FALSE /\ reset_played' = FALSE
  /\ anti_sticky_applied' = [p \in Diff |-> FALSE]
  /\ hysterisis_applied' = [p \in Se |-> FALSE]
  /\ velocity_sent' = [p \in Diff |-> FALSE]

CalibrateEnd ==
  /\ pc \in Calibrating /\ cal = LAST_PAD + 1
  /\ \E order \in [Pads -> Pads] : Sorted(order) /\ Permute(order)
  /\ ClearFlags
  /\ pc' = IF pc = "BootCal" THEN "Top" ELSE "WaitReset"
  /\ cal' = 0
  /\ UNCHANGED <<slot, pad, lo, hi, reading, r2r_out, sticky_count,
                 init_val_se, init_val, isrVars, baseVars, raceVars>>

-----------------------------------------------------------------------------
(* The main loop, one visit of a pad.                                      *)

\* pad = pad_order[i], then the reset button is looked at.
Top ==
  /\ pc = "Top"
  /\ pad' = pad_order[slot]
  /\ \E pressed \in BOOLEAN :
       /\ reset_played' = pressed
       /\ pc' = IF pressed THEN "EnterReCal" ELSE "Controls"
  /\ resumed' = FALSE
  /\ UNCHANGED <<slot, cal, lo, hi, reading, r2r_out, flagVars, init_val_se,
                 orderVars, init_val, being_played, controls_played,
                 isrVars, baseVars, drifts, torn>>

EnterReCal ==
  /\ pc = "EnterReCal"
  /\ thresholds_raised' = FALSE
  /\ cal' = 0
  /\ pc' = "ReCal"
  /\ UNCHANGED <<slot, pad, lo, hi, reading, r2r_out, flagVars, init_val_se,
                 orderVars, init_val, playVars, count, baseVars,
                 raceVars>>

\* The user lets go of the reset button; the visit goes on with the pad that
\* was looked up before the pads were sorted anew.
ReleaseReset ==
  /\ pc = "WaitReset"
  /\ pc' = "Controls"
  /\ resumed' = TRUE
  /\ UNCHANGED <<mainVars, flagVars, init_val_se, orderVars, init_val,
                 playVars, isrVars, baseVars, drifts, torn>>

\* R2R_Write(r2r_val[i]), then buttons and dials are read with interrupts off.
Controls ==
  /\ pc = "Controls"
  /\ r2r_out' = r2r_val[slot]
  /\ \E played \in BOOLEAN : controls_played' = played
  /\ pc' = "SampleLo"
  /\ UNCHANGED <<slot, pad, cal, lo, hi, reading, flagVars, init_val_se,
                 orderVars, init_val, being_played, reset_played,
                 isrVars, baseVars, raceVars>>

\* ADC_Read, and the first byte of init_val[pad].
SampleLo ==
  /\ pc = "SampleLo" /\ pad \in Diff
  /\ \E v \in ADC_VALUES : reading' = v
  /\ lo' = LoByte(init_val[pad])
  /\ torn' = FALSE
  /\ pc' = "SampleHi"
  /\ UNCHANGED <<slot, pad, cal, hi, r2r_out, flagVars, init_val_se,
                 orderVars, init_val, playVars, isrVars,
                 baseVars, drifts, resumed>>

Mut_NextSlotPastEnd ==
  /\ slot' = IF slot > LAST_PAD THEN 0 ELSE slot + 1
  /\ pc' = "Top"
  /\ lo' = 0 /\ hi' = 0 /\ reading' = 0


NextSlot ==
  /\ slot' = IF slot = LAST_PAD THEN 0 ELSE slot + 1
  /\ pc' = "Top"
  /\ lo' = 0 /\ hi' = 0 /\ reading' = 0      \* temporaries, dead from here on

\* The second byte; val = -ADC_Read(..) - init_val[pad] decides the branch.
Branch(label) ==
  /\ pc' = label
  /\ hi' = HiByte(init_val[pad])
  /\ UNCHANGED <<slot, lo, reading>>

SampleHi ==
  /\ pc = "SampleHi"
  /\ LET val == reading - Join(HiByte(init_val[pad]), lo) IN
       \/ val > 0 /\ ~velocity_sent[pad] /\ Branch("Hit")
       \/ val > 0 /\ velocity_sent[pad] /\ Branch("Press")
       \/ val <= 0 /\ velocity_sent[pad] /\ Branch("Release")
       \/ val <= 0 /\ ~velocity_sent[pad] /\ NextSlot
  /\ UNCHANGED <<pad, cal, r2r_out, flagVars, init_val_se,
                 orderVars, init_val, playVars, isrVars,
                 baseVars, raceVars>>

\* A strike: report and being_played under cli, then the hysteresis.
Hit ==
  /\ pc = "Hit"
  /\ being_played' = [being_played EXCEPT ![pad] = TRUE]
  /\ velocity_sent' = [velocity_sent EXCEPT ![pad] = TRUE]
  /\ pc' = "AdjLoadLo"
  /\ UNCHANGED <<mainVars, anti_sticky_applied, sticky_count,
                 hysterisis_applied, init_val_se, orderVars, init_val,
                 controls_played, reset_played, isrVars,
                 baseVars, raceVars>>

\* Pressure after the strike; the filter's output can reach 511 only from a
\* val of at least 511, and then init_val[pad] is raised once, under cli.
Press ==
  /\ pc = "Press"
  /\ \E saturated \in BOOLEAN :
       /\ saturated => reading - Join(hi, lo) >= 511
       /\ IF saturated /\ ~anti_sticky_applied[pad]
          THEN /\ init_val' = [init_val EXCEPT ![pad] = @ + ANTI_STICKY_ADJUST]
               /\ anti_sticky_applied' =
                    [anti_sticky_applied EXCEPT ![pad] = TRUE]
          ELSE UNCHANGED <<init_val, anti_sticky_applied>>
  /\ being_played' = [being_played EXCEPT ![pad] = TRUE]
  /\ NextSlot
  /\ UNCHANGED <<pad, cal, r2r_out, velocity_sent,
                 sticky_count, hysterisis_applied, init_val_se, orderVars,
                 controls_played, reset_played, isrVars,
                 baseVars, raceVars>>

\* A release: the anti-sticky adjustment goes after STICKY_TIMEOUT releases.
Release ==
  /\ pc = "Release"
  /\ IF anti_sticky_applied[pad]
     THEN IF sticky_count[pad] + 1 > STICKY_TIMEOUT
          THEN /\ init_val' = [init_val EXCEPT ![pad] = @ - ANTI_STICKY_ADJUST]
               /\ anti_sticky_applied' =
                    [anti_sticky_applied EXCEPT ![pad] = FALSE]
               /\ sticky_count' = [sticky_count EXCEPT ![pad] = 0]
          ELSE /\ sticky_count' = [sticky_count EXCEPT ![pad] = @ + 1]
               /\ UNCHANGED <<init_val, anti_sticky_applied>>
     ELSE UNCHANGED <<init_val, anti_sticky_applied, sticky_count>>
  /\ being_played' = [being_played EXCEPT ![pad] = FALSE]
  /\ velocity_sent' = [velocity_sent EXCEPT ![pad] = FALSE]
  /\ pc' = "AdjLoadLo"
  /\ UNCHANGED <<mainVars, hysterisis_applied, init_val_se, orderVars,
                 controls_played, reset_played, isrVars,
                 baseVars, raceVars>>

Mut_AdjustedNotRestored == Join(hi, lo) - HYSTERISIS_ADJUST(pad)

\* init_val[pad] -= HYSTERISIS after a strike, += after a release.
Adjusted ==
  Join(hi, lo) + (IF velocity_sent[pad] THEN - HYSTERISIS_ADJUST(pad)
                                        ELSE HYSTERISIS_ADJUST(pad))

adjUnchanged == <<pad, cal, r2r_out, flagVars, init_val_se,
                  orderVars, playVars, isrVars, baseVars,
                  raceVars>>

AdjLoadLo ==
  /\ pc = "AdjLoadLo" /\ pc' = "AdjLoadHi"
  /\ lo' = LoByte(init_val[pad])
  /\ UNCHANGED <<slot, hi, reading, init_val, adjUnchanged>>

AdjLoadHi ==
  /\ pc = "AdjLoadHi" /\ pc' = "AdjStoreHi"
  /\ hi' = HiByte(init_val[pad])
  /\ UNCHANGED <<slot, lo, reading, init_val, adjUnchanged>>

AdjStoreHi ==
  /\ pc = "AdjStoreHi" /\ pc' = "AdjStoreLo"
  /\ init_val' = [init_val EXCEPT ![pad] =
                    Join(HiByte(Adjusted), LoByte(@))]
  /\ UNCHANGED <<slot, lo, hi, reading, adjUnchanged>>

AdjStoreLo ==
  /\ pc = "AdjStoreLo"
  /\ init_val' = [init_val EXCEPT ![pad] =
                    Join(HiByte(@), LoByte(Adjusted))]
  /\ NextSlot
  /\ UNCHANGED adjUnchanged

\* A visit of a single-ended pad: the interrupt touches nothing it works on
\* but being_played[], which is written under cli.
SampleSe ==
  /\ pc = "SampleLo" /\ pad \in Se
  /\ \E v \in SE_VALUES :
       IF init_val_se[pad] - v > 0
       THEN /\ IF hysterisis_applied[pad]
               THEN UNCHANGED <<init_val_se, hysterisis_applied>>
               ELSE /\ init_val_se' = [init_val_se EXCEPT
                          ![pad] = @ + HYSTERISIS_ADJUST_OVER_39]
                    /\ hysterisis_applied' =
                         [hysterisis_applied EXCEPT ![pad] = TRUE]
            /\ being_played' = [being_played EXCEPT ![pad] = TRUE]
       ELSE /\ IF hysterisis_applied[pad]
               THEN /\ init_val_se' = [init_val_se EXCEPT
                          ![pad] = @ - HYSTERISIS_ADJUST_OVER_39]
                    /\ hysterisis_applied' =
                         [hysterisis_applied EXCEPT ![pad] = FALSE]
               ELSE UNCHANGED <<init_val_se, hysterisis_applied>>
            /\ being_played' = [being_played EXCEPT ![pad] = FALSE]
  /\ NextSlot
  /\ UNCHANGED <<pad, cal, r2r_out, velocity_sent,
                 anti_sticky_applied, sticky_count, orderVars, init_val,
                 controls_played, reset_played, isrVars,
                 baseVars, raceVars>>

-----------------------------------------------------------------------------
(* The standby part of ISR(TIMER1_COMPA_vect).                             *)

AnyPlayed == controls_played \/ reset_played \/ \E p \in Pads : being_played[p]

\* The interrupt shifts init_val[] of every pad while main is between two
\* byte accesses of one of them.
Shift(d) ==
  /\ init_val' = [p \in Diff |-> init_val[p] + d]
  /\ IF pc \in InAdjust
     THEN /\ drifts[pad] < MAX_DRIFTS
          /\ drifts' = [drifts EXCEPT ![pad] = @ + 1]
     ELSE UNCHANGED drifts
  /\ torn' = (torn \/ pc = "SampleHi")

\* Timing: a calibration takes about a second and the hysteresis adjustment a
\* microsecond, so the 20 idle seconds never end inside one of them.
RaiseMayHappen == pc \notin Calibrating \cup Adjusting

Mut_IdleStartsOver ==
  /\ ~AnyPlayed
  /\ count' = IF count + 1 >= STANDBY_TICKS THEN 0 ELSE count + 1
  /\ UNCHANGED <<thresholds_raised, init_val, drifts, torn>>


Idle == \* the counter has not run out, or standby is on already
  /\ ~AnyPlayed
  /\ count' = IF count + 1 > STANDBY_TICKS THEN 0 ELSE count + 1
  /\ count' = 0 => thresholds_raised
  /\ UNCHANGED <<thresholds_raised, init_val, drifts, torn>>

Mut_RaiseAgain ==
  /\ ~AnyPlayed /\ count + 1 > STANDBY_TICKS
  /\ RaiseMayHappen
  /\ Shift(STANDBY_ADJUST)
  /\ thresholds_raised' = TRUE
  /\ count' = 0


Raise ==
  /\ ~AnyPlayed /\ count + 1 > STANDBY_TICKS /\ ~thresholds_raised
  /\ RaiseMayHappen
  /\ Shift(STANDBY_ADJUST)
  /\ thresholds_raised' = TRUE
  /\ count' = 0

Mut_LowerOncePlayedOnly ==
  /\ controls_played /\ thresholds_raised
  /\ Shift(- STANDBY_ADJUST)
  /\ thresholds_raised' = FALSE
  /\ count' = 0


Lower ==
  /\ AnyPlayed /\ thresholds_raised
  /\ Shift(- STANDBY_ADJUST)
  /\ thresholds_raised' = FALSE
  /\ count' = 0

Played ==
  /\ AnyPlayed /\ ~thresholds_raised
  /\ count' = 0
  /\ UNCHANGED <<thresholds_raised, init_val, drifts, torn>>

Tick ==
  /\ Idle \/ Raise \/ Lower \/ Played
  /\ UNCHANGED <<pc, mainVars, flagVars, init_val_se, orderVars, playVars,
                 baseVars, resumed>>

MainStep ==
  \/ CalibratePad \/ CalibrateSePad \/ CalibrateEnd
  \/ Top \/ EnterReCal \/ Controls
  \/ SampleLo \/ SampleHi \/ SampleSe \/ Hit \/ Press \/ Release
  \/ AdjLoadLo \/ AdjLoadHi \/ AdjStoreHi \/ AdjStoreLo

Next == MainStep \/ ReleaseReset \/ Tick

\* The main program keeps running; the timer's compare flag is latched, so a
\* tick that main's cli regions hold off again and again still comes.  Nobody
\* promises that the reset button is released.
Spec == Init /\ [][Next]_vars /\ WF_vars(MainStep) /\ SF_vars(Tick)

-----------------------------------------------------------------------------
TypeScalars ==
  /\ pc \in PCs /\ slot \in Pads /\ pad \in Pads /\ cal \in 0 .. (LAST_PAD + 1)
  /\ lo \in 0 .. 255 /\ hi \in Int /\ reading \in Int /\ r2r_out \in 0 .. 63
  /\ count \in 0 .. STANDBY_TICKS
  /\ pc \in {"SampleHi", "Hit", "Press", "Release"} \cup Adjusting
       => pad \in Diff

TypeTables ==
  /\ velocity_sent \in [Diff -> BOOLEAN]
  /\ anti_sticky_applied \in [Diff -> BOOLEAN]
  /\ sticky_count \in [Diff -> 0 .. STICKY_TIMEOUT]
  /\ hysterisis_applied \in [Se -> BOOLEAN]
  /\ init_val_se \in [Se -> Int] /\ base_se \in [Se -> Int]
  /\ pad_order \in [Pads -> Pads]
  /\ r2r_val \in [Pads -> 0 .. 63] /\ r2r_found \in [Pads -> 0 .. 63]
  /\ init_val \in [Diff -> Int] /\ base \in [Diff -> Int]
  /\ being_played \in [Pads -> BOOLEAN]
  /\ drifts \in [Diff -> 0 .. MAX_DRIFTS]

TypeFlags ==
  /\ controls_played \in BOOLEAN /\ reset_played \in BOOLEAN
  /\ thresholds_raised \in BOOLEAN /\ torn \in BOOLEAN /\ resumed \in BOOLEAN

\* The type invariant; in particular a visit that reached the differential
\* branch is of a differential pad, and no index leaves its array.
TypeOK == TypeScalars /\ TypeTables /\ TypeFlags

\* What init_val[p] is worth: the calibrated threshold plus the adjustments
\* whose flags are set, without the hysteresis of a strike and with it.
AtRest(p) ==
  base[p] + (IF thresholds_raised THEN STANDBY_ADJUST ELSE 0)
          + (IF anti_sticky_applied[p] THEN ANTI_STICKY_ADJUST ELSE 0)

Account(p) ==
  AtRest(p) - (IF velocity_sent[p] THEN HYSTERISIS_ADJUST(p) ELSE 0)

\* Every threshold accounts for exactly the adjustments whose flags are set -
\* standby (set by the interrupt), hysteresis and anti-sticky (set by main) -
\* on every pad that no interrupted adjustment and no failed calibration has
\* disturbed, whatever main and the interrupt have done in between.
ThresholdAccount ==
  \A p \in Diff :
    (pc \notin Calibrating /\ drifts[p] = 0 /\ ~(pc \in Adjusting /\ p = pad))
      => init_val[p] = Account(p)

\* A single-ended pad is held exactly when its hysteresis is in its threshold,
\* and the hysteresis is in it at most once.
SeAccount ==
  pc \notin Calibrating => \A p \in Se :
    /\ hysterisis_applied[p] = being_played[p]
    /\ init_val_se[p] = base_se[p]
         + (IF hysterisis_applied[p] THEN HYSTERISIS_ADJUST_OVER_39 ELSE 0)

\* While a differential pad is sampled the R2R ladder carries the value that
\* calibration found for that very pad, except in the visit that a
\* recalibration interrupted.
LadderMatchesPad ==
  (pc \in Sampling \cup Adjusting /\ pad \in Diff /\ ~resumed)
    => r2r_out = r2r_found[pad]

\* A strike on an undisturbed pad is never a phantom: the reading exceeds the
\* threshold with standby and anti-sticky adjustments included, unless the
\* interrupt moved the threshold between the two byte loads.
NoPhantomStrike ==
  [][(pc = "SampleHi" /\ pc' = "Hit" /\ ~torn /\ drifts[pad] = 0)
       => reading > AtRest(pad)]_vars

\* Standby ends and does not come back while something is being played ...
StandbyEnds == <>[]AnyPlayed => <>[]~thresholds_raised

\* ... and starts, for good, once nothing is played any more.
StandbyStarts == <>[]~AnyPlayed => <>[]thresholds_raised

\* SphereWare.c:132 "go into standby mode if not": the standby adjustment is
\* in the threshold of a calibrated pad during standby only.  The interrupt can
\* end standby between main's load and store of init_val[pad], and the store
\* brings it back.
RaisedOnlyInStandby ==
  (pc = "Top" /\ ~thresholds_raised) => \A p \in Diff : r2r_found[p] # 0 =>
    init_val[p] # Account(p) + STANDBY_ADJUST
=============================================================================
