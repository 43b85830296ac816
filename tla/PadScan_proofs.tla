--------------------------- MODULE PadScan_proofs ---------------------------
(* Proofs about PadScan for every number of pads, every set of readings and *)
(* every standby and anti-sticky timeout.                                   *)
EXTENDS PadScan, TLAPS

-----------------------------------------------------------------------------
(* Bytes of a 16-bit value.                                                *)

\* A value is the join of its two bytes.
LEMMA SplitJoin ==
  ASSUME NEW v \in Int
  PROVE  /\ LoByte(v) \in 0 .. 255 /\ HiByte(v) \in Int
         /\ Join(HiByte(v), LoByte(v)) = v
BY DEF LoByte, HiByte, Join

\* The bytes of a join are the bytes that were joined.
LEMMA JoinSplit ==
  ASSUME NEW h \in Int, NEW l \in 0 .. 255
  PROVE  /\ Join(h, l) \in Int
         /\ HiByte(Join(h, l)) = h /\ LoByte(Join(h, l)) = l
BY DEF LoByte, HiByte, Join

-----------------------------------------------------------------------------
(* Type correctness.                                                       *)


LEMMA PadSets ==
  /\ 0 \in Pads /\ Diff \subseteq Pads /\ Se \subseteq Pads
  /\ Diff \cup Se = Pads /\ Diff \cap Se = {}
  /\ \A p \in Pads : p + 1 \in 0 .. (LAST_PAD + 1)
BY PadAssumption DEF Pads, Diff, Se

LEMMA NextSlotType ==
  ASSUME slot \in Pads, NextSlot
  PROVE  /\ slot' \in Pads /\ pc' = "Top"
         /\ lo' = 0 /\ hi' = 0 /\ reading' = 0
BY PadAssumption DEF NextSlot, Pads

LEMMA TypeInit == Init => TypeOK
<1> SUFFICES ASSUME Init PROVE TypeOK
  OBVIOUS
<1> USE PadAssumption, TimerAssumption, BoundAssumption DEF Init
<1>1. TypeScalars
  BY PadSets DEF TypeScalars, PCs, Calibrating, Sampling, Adjusting, InAdjust
<1>2. TypeTables
  BY PadSets DEF TypeTables
<1>3. TypeFlags
  BY DEF TypeFlags
<1> QED
  BY <1>1, <1>2, <1>3 DEF TypeOK

\* The adjusted threshold, and what a shift leaves behind, have their types.
LEMMA AdjustedInt ==
  TypeOK /\ pad \in Diff => Adjusted \in Int
BY DEF TypeOK, TypeScalars, TypeTables, Adjusted, Join, HYSTERISIS_ADJUST

LEMMA ShiftType ==
  ASSUME TypeOK, NEW d \in Int, Shift(d)
  PROVE  /\ init_val' \in [Diff -> Int]
         /\ drifts' \in [Diff -> 0 .. MAX_DRIFTS]
         /\ torn' \in BOOLEAN
<1>1. init_val' \in [Diff -> Int]
  BY DEF TypeOK, TypeTables, Shift
<1>2. drifts' \in [Diff -> 0 .. MAX_DRIFTS]
  BY BoundAssumption
     DEF TypeOK, TypeScalars, TypeTables, Shift, InAdjust, Adjusting
<1>3. torn' \in BOOLEAN
  BY DEF TypeOK, TypeFlags, Shift
<1> QED
  BY <1>1, <1>2, <1>3

LEMMA ScalarsStep == TypeOK /\ [Next]_vars => TypeScalars'
<1> SUFFICES ASSUME TypeOK, [Next]_vars PROVE TypeScalars'
  OBVIOUS
<1> USE PadAssumption, TimerAssumption, BoundAssumption
<1> USE DEF TypeOK, TypeScalars, TypeTables, TypeFlags,
          mainVars, flagVars, orderVars, playVars, isrVars, baseVars, raceVars,
          PCs, Calibrating, Sampling, Adjusting, InAdjust
<1>1. CASE CalibratePad
  BY <1>1, PadSets DEF CalibratePad
<1>2. CASE CalibrateSePad
  BY <1>2, PadSets DEF CalibrateSePad
<1>3. CASE CalibrateEnd
  BY <1>3 DEF CalibrateEnd, Permute, ClearFlags
<1>4. CASE Top
  BY <1>4 DEF Top
<1>5. CASE EnterReCal
  BY <1>5 DEF EnterReCal
<1>6. CASE ReleaseReset
  BY <1>6 DEF ReleaseReset
<1>7. CASE Controls
  BY <1>7 DEF Controls
<1>8. CASE SampleLo
  <2>1. pad \in Diff /\ lo' = LoByte(init_val[pad]) /\ init_val[pad] \in Int
    BY <1>8 DEF SampleLo
  <2>2. lo' \in 0 .. 255
    BY <2>1, SplitJoin
  <2>3. reading' \in Int
    BY <1>8, InputAssumption DEF SampleLo
  <2> QED
    BY <1>8, <2>1, <2>2, <2>3 DEF SampleLo
<1>9. CASE SampleHi
  <2>1. pad \in Diff /\ init_val[pad] \in Int
    BY <1>9 DEF SampleHi
  <2>2. HiByte(init_val[pad]) \in Int
    BY <2>1, SplitJoin
  <2>3. \/ NextSlot
        \/ \E label \in {"Hit", "Press", "Release"} : Branch(label)
    BY <1>9 DEF SampleHi
  <2>4. /\ UNCHANGED <<pad, cal, r2r_out, count>>
    BY <1>9 DEF SampleHi
  <2> QED
    BY <1>9, <2>1, <2>2, <2>3, <2>4, NextSlotType DEF Branch, SampleHi
<1>10. CASE Hit
  BY <1>10 DEF Hit
<1>11. CASE Press
  BY <1>11, NextSlotType DEF Press
<1>12. CASE Release
  BY <1>12 DEF Release
<1>13. CASE AdjLoadLo
  BY <1>13, SplitJoin DEF AdjLoadLo, adjUnchanged
<1>14. CASE AdjLoadHi
  BY <1>14, SplitJoin DEF AdjLoadHi, adjUnchanged
<1>15. CASE AdjStoreHi
  BY <1>15 DEF AdjStoreHi, adjUnchanged
<1>16. CASE AdjStoreLo
  BY <1>16, NextSlotType DEF AdjStoreLo, adjUnchanged
<1>17. CASE SampleSe
  BY <1>17, NextSlotType DEF SampleSe
<1>18. CASE Tick
  <2>1. UNCHANGED <<pc, slot, pad, cal, lo, hi, reading, r2r_out>>
    BY <1>18 DEF Tick
  <2>2. count' = 0 \/ (count' = count + 1 /\ ~(count + 1 > STANDBY_TICKS))
    BY <1>18 DEF Tick, Idle, Raise, Lower, Played
  <2> QED
    BY <2>1, <2>2
<1>19. CASE UNCHANGED vars
  BY <1>19 DEF vars
<1> QED
  BY <1>1, <1>2, <1>3, <1>4, <1>5, <1>6, <1>7, <1>8, <1>9, <1>10, <1>11, <1>12, <1>13, <1>14, <1>15, <1>16, <1>17, <1>18, <1>19 DEF Next, MainStep

LEMMA TablesStep == TypeOK /\ [Next]_vars => TypeTables'
<1> SUFFICES ASSUME TypeOK, [Next]_vars PROVE TypeTables'
  OBVIOUS
<1> USE PadAssumption, TimerAssumption, BoundAssumption
<1> USE DEF TypeOK, TypeScalars, TypeTables, TypeFlags,
          mainVars, flagVars, orderVars, playVars, isrVars, baseVars, raceVars,
          PCs, Calibrating, Sampling, Adjusting, InAdjust
<1>1. CASE CalibratePad
  <2>1. \/ SearchFails(cal)
        \/ \E v \in Int, r \in 0 .. 63 : SearchFinds(cal, v, r)
    <3>1. \/ SearchFails(cal)
          \/ \E v \in ADC_VALUES, r \in R2R_VALUES : SearchFinds(cal, v, r)
      BY <1>1 DEF CalibratePad
    <3>2. ADC_VALUES \subseteq Int /\ R2R_VALUES \subseteq 0 .. 63
      BY InputAssumption
    <3> QED
      BY <3>1, <3>2
  <2>2. cal \in Diff
    BY <1>1 DEF CalibratePad
  <2>3. r2r_found' \in [Pads -> 0 .. 63]
    BY <2>1, <2>2, PadSets DEF SearchFails, SearchFinds
  <2>4. init_val' \in [Diff -> Int] /\ base' \in [Diff -> Int]
    <3>1. init_val \in [Diff -> Int] /\ base \in [Diff -> Int]
      OBVIOUS
    <3>2. CASE SearchFails(cal)
      BY <3>1, <3>2 DEF SearchFails
    <3>3. ASSUME NEW v \in Int, NEW r \in 0 .. 63, SearchFinds(cal, v, r)
          PROVE  init_val' \in [Diff -> Int] /\ base' \in [Diff -> Int]
      <4>1. v + THRESHOLD(cal) \in Int
        BY DEF THRESHOLD
      <4>2. /\ init_val' = [init_val EXCEPT ![cal] = v + THRESHOLD(cal)]
            /\ base' = [base EXCEPT ![cal] = v + THRESHOLD(cal)]
        BY <3>3 DEF SearchFinds
      <4> QED
        BY <2>2, <3>1, <4>1, <4>2
    <3> QED
      BY <2>1, <3>2, <3>3
  <2>5. drifts' \in [Diff -> 0 .. MAX_DRIFTS]
    BY <2>1, <2>2 DEF SearchFails, SearchFinds
  <2>6. r2r_val' \in [Pads -> 0 .. 63] /\ pad_order' \in [Pads -> Pads]
    BY <1>1, <2>2, <2>3 DEF CalibratePad
  <2> QED
    BY <1>1, <2>3, <2>4, <2>5, <2>6 DEF CalibratePad
<1>2. CASE CalibrateSePad
  <2>1. PICK v \in SE_VALUES :
          /\ init_val_se' = [init_val_se EXCEPT ![cal] = v - THRESHOLD_OVER_39]
          /\ base_se' = [base_se EXCEPT ![cal] = v - THRESHOLD_OVER_39]
    BY <1>2 DEF CalibrateSePad
  <2>2. v \in Int /\ cal \in Se
    BY <1>2, InputAssumption DEF CalibrateSePad
  <2>3. init_val_se' \in [Se -> Int] /\ base_se' \in [Se -> Int]
    BY <2>1, <2>2 DEF THRESHOLD_OVER_39
  <2> QED
    BY <1>2, <2>3 DEF CalibrateSePad
<1>3. CASE CalibrateEnd
  BY <1>3 DEF CalibrateEnd, Permute, ClearFlags
<1>4. CASE Top
  BY <1>4 DEF Top
<1>5. CASE EnterReCal
  BY <1>5 DEF EnterReCal
<1>6. CASE ReleaseReset
  BY <1>6 DEF ReleaseReset
<1>7. CASE Controls
  BY <1>7 DEF Controls
<1>8. CASE SampleLo
  BY <1>8 DEF SampleLo
<1>9. CASE SampleHi
  BY <1>9 DEF SampleHi, Branch, NextSlot
<1>10. CASE Hit
  BY <1>10 DEF Hit
<1>11. CASE Press
  <2>1. pad \in Diff
    BY <1>11 DEF Press
  <2>2. init_val' \in [Diff -> Int]
    BY <1>11, <2>1 DEF Press, ANTI_STICKY_ADJUST
  <2>3. anti_sticky_applied' \in [Diff -> BOOLEAN]
    BY <1>11, <2>1 DEF Press
  <2> QED
    BY <1>11, <2>1, <2>2, <2>3 DEF Press
<1>12. CASE Release
  <2>1. pad \in Diff
    BY <1>12 DEF Release
  <2>2. init_val' \in [Diff -> Int]
    BY <1>12, <2>1 DEF Release, ANTI_STICKY_ADJUST
  <2>3. anti_sticky_applied' \in [Diff -> BOOLEAN]
    BY <1>12, <2>1 DEF Release
  <2>4. sticky_count' \in [Diff -> 0 .. STICKY_TIMEOUT]
    BY <1>12, <2>1 DEF Release
  <2> QED
    BY <1>12, <2>1, <2>2, <2>3, <2>4 DEF Release
<1>13. CASE AdjLoadLo
  BY <1>13 DEF AdjLoadLo, adjUnchanged
<1>14. CASE AdjLoadHi
  BY <1>14 DEF AdjLoadHi, adjUnchanged
<1>15. CASE AdjStoreHi
  BY <1>15, AdjustedInt, SplitJoin, JoinSplit DEF AdjStoreHi, adjUnchanged
<1>16. CASE AdjStoreLo
  BY <1>16, AdjustedInt, SplitJoin, JoinSplit DEF AdjStoreLo, NextSlot, adjUnchanged
<1>17. CASE SampleSe
  <2>1. pad \in Se
    BY <1>17 DEF SampleSe
  <2>2. init_val_se' \in [Se -> Int]
    BY <1>17, <2>1 DEF SampleSe, HYSTERISIS_ADJUST_OVER_39
  <2>3. hysterisis_applied' \in [Se -> BOOLEAN]
    BY <1>17, <2>1 DEF SampleSe
  <2>4. being_played' \in [Pads -> BOOLEAN]
    BY <1>17, <2>1 DEF SampleSe
  <2> QED
    BY <1>17, <2>2, <2>3, <2>4 DEF SampleSe
<1>18. CASE Tick
  <2>1. \/ UNCHANGED <<init_val, drifts, torn>>
        \/ \E d \in Int : Shift(d)
    BY <1>18 DEF Tick, Idle, Raise, Lower, Played, STANDBY_ADJUST
  <2>2. init_val' \in [Diff -> Int] /\ drifts' \in [Diff -> 0 .. MAX_DRIFTS]
    BY <2>1, ShiftType
  <2> QED
    BY <1>18, <2>2 DEF Tick
<1>19. CASE UNCHANGED vars
  BY <1>19 DEF vars
<1> QED
  BY <1>1, <1>2, <1>3, <1>4, <1>5, <1>6, <1>7, <1>8, <1>9, <1>10, <1>11, <1>12, <1>13, <1>14, <1>15, <1>16, <1>17, <1>18, <1>19 DEF Next, MainStep

LEMMA FlagsStep == TypeOK /\ [Next]_vars => TypeFlags'
<1> SUFFICES ASSUME TypeOK, [Next]_vars PROVE TypeFlags'
  OBVIOUS
<1> USE PadAssumption, TimerAssumption, BoundAssumption
<1> USE DEF TypeOK, TypeScalars, TypeTables, TypeFlags,
          mainVars, flagVars, orderVars, playVars, isrVars, baseVars, raceVars,
          PCs, Calibrating, Sampling, Adjusting, InAdjust
<1>1. CASE CalibratePad
  BY <1>1 DEF CalibratePad
<1>2. CASE CalibrateSePad
  BY <1>2 DEF CalibrateSePad
<1>3. CASE CalibrateEnd
  BY <1>3 DEF CalibrateEnd, Permute, ClearFlags
<1>4. CASE Top
  BY <1>4 DEF Top
<1>5. CASE EnterReCal
  BY <1>5 DEF EnterReCal
<1>6. CASE ReleaseReset
  BY <1>6 DEF ReleaseReset
<1>7. CASE Controls
  BY <1>7 DEF Controls
<1>8. CASE SampleLo
  BY <1>8 DEF SampleLo
<1>9. CASE SampleHi
  BY <1>9 DEF SampleHi, Branch, NextSlot
<1>10. CASE Hit
  BY <1>10 DEF Hit
<1>11. CASE Press
  BY <1>11, NextSlotType DEF Press
<1>12. CASE Release
  BY <1>12 DEF Release
<1>13. CASE AdjLoadLo
  BY <1>13 DEF AdjLoadLo, adjUnchanged
<1>14. CASE AdjLoadHi
  BY <1>14 DEF AdjLoadHi, adjUnchanged
<1>15. CASE AdjStoreHi
  BY <1>15 DEF AdjStoreHi, adjUnchanged
<1>16. CASE AdjStoreLo
  BY <1>16, NextSlotType DEF AdjStoreLo, adjUnchanged
<1>17. CASE SampleSe
  BY <1>17, NextSlotType DEF SampleSe
<1>18. CASE Tick
  <2>1. \/ UNCHANGED <<init_val, drifts, torn>>
        \/ \E d \in Int : Shift(d)
    BY <1>18 DEF Tick, Idle, Raise, Lower, Played, STANDBY_ADJUST
  <2>2. torn' \in BOOLEAN
    BY <2>1, ShiftType
  <2>3. thresholds_raised' \in BOOLEAN
    BY <1>18 DEF Tick, Idle, Raise, Lower, Played
  <2> QED
    BY <1>18, <2>2, <2>3 DEF Tick
<1>19. CASE UNCHANGED vars
  BY <1>19 DEF vars
<1> QED
  BY <1>1, <1>2, <1>3, <1>4, <1>5, <1>6, <1>7, <1>8, <1>9, <1>10, <1>11, <1>12, <1>13, <1>14, <1>15, <1>16, <1>17, <1>18, <1>19 DEF Next, MainStep

LEMMA TypeStep == TypeOK /\ [Next]_vars => TypeOK'
  BY ScalarsStep, TablesStep, FlagsStep DEF TypeOK

\* Every variable keeps its type: in particular a visit that reached the
\* differential branch is of a differential pad, and no index leaves its array.
THEOREM TypeCorrect == Spec => []TypeOK
  BY TypeInit, TypeStep, PTL DEF Spec

-----------------------------------------------------------------------------
(* The account of the thresholds.                                          *)

Undisturbed(p) == drifts[p] = 0

\* During a calibration standby is off, and the pads done are at their base.
CalibratedPart ==
  pc \in Calibrating =>
    /\ ~thresholds_raised
    /\ \A p \in Diff : p < cal /\ Undisturbed(p) => init_val[p] = base[p]

\* The branch taken agrees with the pad's state.
BranchPart ==
  /\ pc = "Hit" => ~velocity_sent[pad]
  /\ pc \in {"Press", "Release"} => velocity_sent[pad]

\* The two bytes on their way from the old threshold to the new one.
OldThreshold == AtRest(pad) - (IF velocity_sent[pad] THEN 0
                                                     ELSE HYSTERISIS_ADJUST(pad))
AdjustPart ==
  (pc \in Adjusting /\ Undisturbed(pad)) =>
    /\ pc # "AdjStoreLo" => init_val[pad] = OldThreshold
    /\ pc \in {"AdjLoadHi", "AdjStoreHi"} => lo = LoByte(OldThreshold)
    /\ pc = "AdjStoreHi" => hi = HiByte(OldThreshold)
    /\ pc = "AdjStoreLo" => /\ Adjusted = Account(pad)
                            /\ HiByte(init_val[pad]) = HiByte(Account(pad))

AccountInv == CalibratedPart /\ BranchPart /\ AdjustPart /\ ThresholdAccount

LEMMA AccountInit == TypeOK /\ Init => AccountInv
<1> SUFFICES ASSUME TypeOK, Init PROVE AccountInv
  OBVIOUS
<1>1. CalibratedPart
  BY DEF Init, CalibratedPart, Calibrating
<1>2. BranchPart /\ AdjustPart /\ ThresholdAccount
  BY DEF Init, BranchPart, AdjustPart, ThresholdAccount, Calibrating,
         Adjusting, InAdjust
<1> QED
  BY <1>1, <1>2 DEF AccountInv

\* A tick either leaves the thresholds alone, or shifts them all together
\* with the standby flag, outside calibrations.
LEMMA TickCases ==
  ASSUME TypeOK, CalibratedPart, Tick
  PROVE  /\ UNCHANGED <<pc, slot, pad, cal, lo, hi, reading, velocity_sent,
                        anti_sticky_applied, base>>
         /\ \/ UNCHANGED <<init_val, thresholds_raised, drifts, torn>>
            \/ /\ pc \notin Calibrating
               /\ Shift(IF thresholds_raised THEN -100 ELSE 100)
               /\ thresholds_raised' = ~thresholds_raised
<1>1. CASE Idle \/ Played
  BY <1>1 DEF Tick, Idle, Played, mainVars, flagVars, baseVars
<1>2. CASE Raise
  BY <1>2 DEF Tick, Raise, RaiseMayHappen, STANDBY_ADJUST, mainVars, flagVars,
              baseVars
<1>3. CASE Lower
  BY <1>3 DEF Tick, Lower, CalibratedPart, STANDBY_ADJUST, mainVars, flagVars,
              baseVars
<1> QED
  BY <1>1, <1>2, <1>3 DEF Tick

LEMMA CalibratedStep ==
  ASSUME TypeOK, AccountInv, [Next]_vars
  PROVE  CalibratedPart'
<1> USE DEF AccountInv, CalibratedPart, Undisturbed, mainVars, flagVars,
            orderVars, playVars, isrVars, baseVars, raceVars
<1>1. CASE CalibratePad
  <2>1. cal \in Diff /\ pc \in Calibrating /\ cal' = cal + 1
        /\ UNCHANGED <<pc, thresholds_raised>>
    BY <1>1 DEF CalibratePad
  <2>2. \A p \in Diff : p # cal => /\ init_val'[p] = init_val[p]
                                  /\ base'[p] = base[p]
                                  /\ drifts'[p] = drifts[p]
    BY <1>1, <2>1 DEF CalibratePad, SearchFails, SearchFinds, TypeOK, TypeTables
  <2>3. drifts'[cal] = 0 => init_val'[cal] = base'[cal]
    BY <1>1, <2>1 DEF CalibratePad, SearchFails, SearchFinds, TypeOK, TypeTables
  <2>4. \A p \in Diff : p < cal' => p < cal \/ p = cal
    BY <2>1, PadAssumption DEF Diff
  <2> QED
    BY <2>1, <2>2, <2>3, <2>4
<1>2. CASE CalibrateSePad
  <2>1. \A p \in Diff : p < cal
    BY <1>2, PadAssumption DEF CalibrateSePad, Diff, Se
  <2> QED
    BY <1>2, <2>1 DEF CalibrateSePad
<1>3. CASE EnterReCal
  <2>1. \A p \in Diff : ~(p < 0)
    BY DEF Diff
  <2> QED
    BY <1>3, <2>1 DEF EnterReCal
<1>4. CASE CalibrateEnd \/ Top \/ ReleaseReset \/ Controls \/ SampleLo
             \/ SampleHi \/ Hit \/ Press \/ Release
  BY <1>4 DEF CalibrateEnd, Top, ReleaseReset, Controls, SampleLo, SampleHi,
     Branch, NextSlot, Hit, Press, Release, Calibrating
<1>5. CASE AdjLoadLo \/ AdjLoadHi \/ AdjStoreHi \/ AdjStoreLo \/ SampleSe
  BY <1>5 DEF AdjLoadLo, AdjLoadHi, AdjStoreHi, AdjStoreLo, SampleSe, NextSlot,
     Calibrating
<1>6. CASE Tick
  BY <1>6, TickCases
<1>7. CASE UNCHANGED vars
  BY <1>7 DEF vars
<1> QED
  BY <1>1, <1>2, <1>3, <1>4, <1>5, <1>6, <1>7 DEF Next, MainStep

LEMMA BranchStep ==
  ASSUME TypeOK, AccountInv, [Next]_vars
  PROVE  BranchPart'
<1> USE DEF AccountInv, BranchPart, mainVars, flagVars, orderVars, playVars,
            isrVars, baseVars, raceVars
<1>1. CASE CalibratePad \/ CalibrateSePad \/ CalibrateEnd \/ EnterReCal
  BY <1>1 DEF CalibratePad, CalibrateSePad, CalibrateEnd, EnterReCal, Calibrating
<1>2. CASE Top \/ ReleaseReset \/ Controls \/ SampleLo \/ Hit
             \/ Press \/ Release
  BY <1>2 DEF Top, ReleaseReset, Controls, SampleLo, NextSlot, Hit, Press,
     Release
<1>3. CASE SampleHi
  BY <1>3 DEF SampleHi, Branch, NextSlot
<1>4. CASE AdjLoadLo \/ AdjLoadHi \/ AdjStoreHi \/ AdjStoreLo \/ SampleSe
  BY <1>4 DEF AdjLoadLo, AdjLoadHi, AdjStoreHi, AdjStoreLo, SampleSe, NextSlot
<1>5. CASE Tick
  BY <1>5, TickCases
<1>6. CASE UNCHANGED vars
  BY <1>6 DEF vars
<1> QED
  BY <1>1, <1>2, <1>3, <1>4, <1>5, <1>6 DEF Next, MainStep

LEMMA AccountInt ==
  ASSUME TypeOK, NEW p \in Diff
  PROVE  AtRest(p) \in Int /\ HYSTERISIS_ADJUST(p) \in Int /\ Account(p) \in Int
BY DEF TypeOK, TypeTables, AtRest, Account, HYSTERISIS_ADJUST, STANDBY_ADJUST,
       ANTI_STICKY_ADJUST

\* What the four byte steps of main compute, as long as nobody interferes.
LEMMA BytesOfAdjust ==
  ASSUME TypeOK, AdjustPart, Undisturbed(pad), pc \in Adjusting
  PROVE  /\ OldThreshold \in Int /\ Account(pad) \in Int
         /\ pc = "AdjStoreHi" => Adjusted = Account(pad)
         /\ pc = "AdjStoreLo" =>
              Join(HiByte(init_val[pad]), LoByte(Adjusted)) = Account(pad)
<1>1. pad \in Diff
  BY DEF TypeOK, TypeScalars
<1>2. /\ OldThreshold \in Int /\ Account(pad) \in Int
      /\ Account(pad) = OldThreshold
           + (IF velocity_sent[pad] THEN - HYSTERISIS_ADJUST(pad)
                                    ELSE HYSTERISIS_ADJUST(pad))
  BY <1>1, AccountInt DEF OldThreshold, Account
<1>3. ASSUME pc = "AdjStoreHi" PROVE Adjusted = Account(pad)
  <2>1. hi = HiByte(OldThreshold) /\ lo = LoByte(OldThreshold)
    BY <1>3 DEF AdjustPart
  <2>2. Join(hi, lo) = OldThreshold
    BY <1>2, <2>1, SplitJoin
  <2> QED
    BY <1>2, <2>2 DEF Adjusted
<1>4. ASSUME pc = "AdjStoreLo"
      PROVE  Join(HiByte(init_val[pad]), LoByte(Adjusted)) = Account(pad)
  BY <1>2, <1>4, SplitJoin DEF AdjustPart
<1> QED
  BY <1>2, <1>3, <1>4

\* A step that moves no threshold and no flag of an account keeps the account,
\* if it does not start the adjustment of another pad.
LEMMA AccountFrame ==
  ASSUME AccountInv, pc \notin Calibrating,
         UNCHANGED <<init_val, velocity_sent, anti_sticky_applied, base,
                     thresholds_raised, drifts>>,
         pc \in Adjusting => pc' \in Adjusting /\ pad' = pad
  PROVE  ThresholdAccount'
BY DEF AccountInv, ThresholdAccount, Account, AtRest

LEMMA TickedAtRest ==
  ASSUME TypeOK, CalibratedPart, Tick, NEW p \in Diff,
         ~UNCHANGED <<init_val, thresholds_raised, drifts, torn>>
  PROVE  AtRest(p)' = AtRest(p) + (IF thresholds_raised THEN -100 ELSE 100)
<1>1. thresholds_raised' = ~thresholds_raised
      /\ UNCHANGED <<anti_sticky_applied, base>>
  BY TickCases
<1>2. thresholds_raised \in BOOLEAN /\ base[p] \in Int
  BY DEF TypeOK, TypeTables, TypeFlags
<1>3. CASE thresholds_raised = TRUE
  <2>1. thresholds_raised' = FALSE
    BY <1>1, <1>3
  <2> QED
    BY <1>1, <1>2, <1>3, <2>1 DEF AtRest, STANDBY_ADJUST, ANTI_STICKY_ADJUST
<1>4. CASE thresholds_raised = FALSE
  <2>1. thresholds_raised' = TRUE
    BY <1>1, <1>4
  <2> QED
    BY <1>1, <1>2, <1>4, <2>1 DEF AtRest, STANDBY_ADJUST, ANTI_STICKY_ADJUST
<1> QED
  BY <1>2, <1>3, <1>4

LEMMA AccountStep ==
  ASSUME TypeOK, AccountInv, [Next]_vars
  PROVE  ThresholdAccount'
<1> USE DEF mainVars, flagVars, orderVars, playVars, isrVars, baseVars, raceVars
<1>1. CASE CalibratePad \/ CalibrateSePad \/ EnterReCal
  BY <1>1 DEF CalibratePad, CalibrateSePad, EnterReCal, Calibrating,
     ThresholdAccount
<1>2. CASE CalibrateEnd
  <2>1. \A p \in Diff : p < cal
    BY <1>2, PadAssumption DEF CalibrateEnd, Diff
  <2>2. \A p \in Diff : drifts[p] = 0 => init_val[p] = base[p]
    BY <1>2, <2>1 DEF CalibrateEnd, AccountInv, CalibratedPart, Undisturbed
  <2>3. \A p \in Diff : ~velocity_sent'[p] /\ ~anti_sticky_applied'[p]
    BY <1>2 DEF CalibrateEnd, ClearFlags
  <2>4. ~thresholds_raised' /\ UNCHANGED <<init_val, base, drifts>>
    BY <1>2 DEF CalibrateEnd, AccountInv, CalibratedPart
  <2>5. \A p \in Diff : base[p] \in Int
    BY DEF TypeOK, TypeTables
  <2> QED
    BY <2>2, <2>3, <2>4, <2>5 DEF ThresholdAccount, Account, AtRest
<1>3. CASE Top \/ ReleaseReset \/ Controls \/ SampleLo \/ SampleSe
  BY <1>3, AccountFrame DEF Top, ReleaseReset, Controls, SampleLo, SampleSe,
     NextSlot, Calibrating, Adjusting, InAdjust
<1>4. CASE SampleHi
  BY <1>4 DEF SampleHi, Branch, NextSlot, Calibrating, Adjusting, InAdjust,
     AccountInv, ThresholdAccount, Account, AtRest
<1>5. CASE Hit
  BY <1>5 DEF Hit, TypeOK, TypeScalars, TypeTables, Calibrating, Adjusting,
     InAdjust, AccountInv, ThresholdAccount, Account, AtRest
<1>6. CASE Press
  <2>1. pad \in Diff /\ pc \notin Calibrating \cup Adjusting
        /\ UNCHANGED <<velocity_sent, base, thresholds_raised, drifts>>
    BY <1>6 DEF Press, TypeOK, TypeScalars, Calibrating, Adjusting, InAdjust
  <2>2. CASE UNCHANGED <<init_val, anti_sticky_applied>>
    BY <2>1, <2>2 DEF AccountInv, ThresholdAccount, Account, AtRest
  <2>3. CASE /\ ~anti_sticky_applied[pad]
             /\ init_val' = [init_val EXCEPT ![pad] = @ + ANTI_STICKY_ADJUST]
             /\ anti_sticky_applied' =
                  [anti_sticky_applied EXCEPT ![pad] = TRUE]
    BY <2>1, <2>3 DEF AccountInv, ThresholdAccount, Account, AtRest, TypeOK, TypeTables,
       ANTI_STICKY_ADJUST, HYSTERISIS_ADJUST, STANDBY_ADJUST
  <2> QED
    BY <1>6, <2>2, <2>3 DEF Press
<1>7. CASE Release
  <2>1. pad \in Diff /\ pc \notin Calibrating \cup Adjusting
        /\ pc' \in Adjusting
        /\ UNCHANGED <<pad, base, thresholds_raised, drifts>>
    BY <1>7 DEF Release, TypeOK, TypeScalars, Calibrating, Adjusting, InAdjust
  <2>2. \A p \in Diff : p # pad =>
          /\ init_val'[p] = init_val[p]
          /\ velocity_sent'[p] = velocity_sent[p]
          /\ anti_sticky_applied'[p] = anti_sticky_applied[p]
    BY <1>7, <2>1 DEF Release, TypeOK, TypeTables
  <2> QED
    BY <2>1, <2>2 DEF AccountInv, ThresholdAccount, Account, AtRest
<1>8. CASE AdjLoadLo \/ AdjLoadHi
  BY <1>8, AccountFrame DEF AdjLoadLo, AdjLoadHi, adjUnchanged, Calibrating,
     Adjusting, InAdjust
<1>9. CASE AdjStoreHi
  BY <1>9 DEF AdjStoreHi, adjUnchanged, Calibrating, Adjusting, InAdjust,
     AccountInv, ThresholdAccount, Account, AtRest, TypeOK, TypeTables, TypeScalars
<1>10. CASE AdjStoreLo
  <2>1. pad \in Diff /\ pc \in Adjusting /\ pc \notin Calibrating /\ pc' = "Top"
        /\ UNCHANGED <<pad, velocity_sent, anti_sticky_applied, base,
                       thresholds_raised, drifts>>
        /\ init_val' = [init_val EXCEPT ![pad] =
                          Join(HiByte(@), LoByte(Adjusted))]
    BY <1>10 DEF AdjStoreLo, NextSlot, adjUnchanged, TypeOK, TypeScalars,
       Calibrating, Adjusting, InAdjust
  <2>2. \A p \in Diff : p # pad => init_val'[p] = init_val[p]
    BY <2>1 DEF TypeOK, TypeTables
  <2>3. drifts[pad] = 0 => init_val'[pad] = Account(pad)
    <3> SUFFICES ASSUME drifts[pad] = 0
                 PROVE  init_val'[pad] = Account(pad)
      OBVIOUS
    <3>1. Join(HiByte(init_val[pad]), LoByte(Adjusted))
            = Account(pad)
      BY <1>10, <2>1, BytesOfAdjust DEF AccountInv, Undisturbed, AdjStoreLo
    <3> QED
      BY <2>1, <3>1 DEF TypeOK, TypeTables
  <2>4. \A p \in Diff : p # pad /\ drifts[p] = 0 =>
          init_val[p] = Account(p)
    BY <2>1 DEF AccountInv, ThresholdAccount
  <2>5. \A p \in Diff : drifts[p] = 0 =>
          init_val'[p] = Account(p)
    BY <2>2, <2>3, <2>4
  <2> QED
    BY <2>1, <2>5 DEF ThresholdAccount, Account, AtRest
<1>11. CASE Tick
  <2>1. CASE UNCHANGED <<init_val, thresholds_raised, drifts, torn>>
    BY <1>11, <2>1, TickCases DEF AccountInv, ThresholdAccount, Account, AtRest
  <2>2. CASE ~UNCHANGED <<init_val, thresholds_raised, drifts, torn>>
    <3>1. /\ Shift(IF thresholds_raised THEN -100 ELSE 100)
          /\ thresholds_raised' = ~thresholds_raised
          /\ pc \notin Calibrating
          /\ UNCHANGED <<pc, pad, velocity_sent, anti_sticky_applied, base>>
      BY <1>11, <2>2, TickCases DEF AccountInv
    <3>2. \A p \in Diff : init_val'[p] =
            init_val[p] + (IF thresholds_raised THEN -100 ELSE 100)
      BY <3>1 DEF Shift
    <3>3. \A p \in Diff : drifts'[p] = 0 => drifts[p] = 0
      BY <3>1, BoundAssumption DEF Shift, TypeOK, TypeTables
    <3>4. ASSUME NEW p \in Diff, drifts'[p] = 0, ~(pc \in Adjusting /\ p = pad)
          PROVE  init_val'[p] = Account(p)'
      <4>1. init_val[p] = Account(p)
        BY <3>1, <3>3, <3>4 DEF AccountInv, ThresholdAccount
      <4>2. thresholds_raised \in BOOLEAN /\ base[p] \in Int
            /\ HYSTERISIS_ADJUST(p) \in Int /\ init_val[p] \in Int
        BY DEF HYSTERISIS_ADJUST, TypeOK, TypeTables, TypeFlags
      <4>3. AtRest(p)' = AtRest(p) + (IF thresholds_raised THEN -100 ELSE 100)
        BY <1>11, <2>2, TickedAtRest DEF AccountInv
      <4>4. Account(p) = AtRest(p)
              - (IF velocity_sent[p] THEN HYSTERISIS_ADJUST(p) ELSE 0)
        BY DEF Account
      <4>5. Account(p)' = AtRest(p)'
              - (IF velocity_sent[p] THEN HYSTERISIS_ADJUST(p) ELSE 0)
        BY <3>1 DEF Account
      <4>6. init_val'[p] =
              init_val[p] + (IF thresholds_raised THEN -100 ELSE 100)
        BY <3>2
      <4> QED
        BY <4>1, <4>2, <4>3, <4>4, <4>5, <4>6, AccountInt
    <3> QED
      BY <3>1, <3>4 DEF ThresholdAccount
  <2> QED
    BY <2>1, <2>2
<1>12. CASE UNCHANGED vars
  BY <1>12 DEF vars, AccountInv, ThresholdAccount, Account, AtRest
<1> QED
  BY <1>1, <1>2, <1>3, <1>4, <1>5, <1>6, <1>7, <1>8, <1>9, <1>10, <1>11, <1>12
     DEF Next, MainStep

LEMMA AdjustStep ==
  ASSUME TypeOK, AccountInv, [Next]_vars
  PROVE  AdjustPart'
<1> USE DEF mainVars, flagVars, orderVars, playVars, isrVars, baseVars, raceVars
<1>1. CASE CalibratePad \/ CalibrateSePad \/ CalibrateEnd \/ EnterReCal
  BY <1>1 DEF CalibratePad, CalibrateSePad, CalibrateEnd, EnterReCal,
     Calibrating, Adjusting, InAdjust, AdjustPart
<1>2. CASE Top \/ ReleaseReset \/ Controls \/ SampleLo \/ Press \/ SampleSe
             \/ AdjStoreLo
  BY <1>2 DEF Top, ReleaseReset, Controls, SampleLo, NextSlot, Press, SampleSe,
     AdjStoreLo, Adjusting, InAdjust, AdjustPart
<1>3. CASE SampleHi
  BY <1>3 DEF SampleHi, Branch, NextSlot, Adjusting, InAdjust, AdjustPart
<1>4. CASE Hit
  <2>1. /\ pad \in Diff /\ ~velocity_sent[pad]
        /\ pc \notin Calibrating \cup Adjusting /\ pc' = "AdjLoadLo"
        /\ UNCHANGED <<pad, init_val, anti_sticky_applied, base,
                       thresholds_raised, drifts>>
        /\ velocity_sent'[pad]
    BY <1>4 DEF Hit, TypeOK, TypeScalars, TypeTables, AccountInv, BranchPart,
       Calibrating, Adjusting, InAdjust
  <2>2. drifts[pad] = 0 => init_val[pad] = AtRest(pad)
    BY <2>1, AccountInt DEF AccountInv, ThresholdAccount, Account
  <2>3. AtRest(pad)' = AtRest(pad)
    BY <2>1 DEF AtRest
  <2>4. OldThreshold' = AtRest(pad)
    BY <2>1, <2>3, AccountInt DEF OldThreshold
  <2> QED
    BY <2>1, <2>2, <2>4 DEF AdjustPart, Undisturbed
<1>5. CASE Release
  <2>1. /\ pad \in Diff /\ velocity_sent[pad]
        /\ pc \notin Calibrating \cup Adjusting /\ pc' = "AdjLoadLo"
        /\ UNCHANGED <<pad, base, thresholds_raised, drifts>>
        /\ ~velocity_sent'[pad]
    BY <1>5 DEF Release, TypeOK, TypeScalars, TypeTables, AccountInv, BranchPart,
       Calibrating, Adjusting, InAdjust
  <2>2. drifts[pad] = 0 => init_val[pad] = AtRest(pad) - HYSTERISIS_ADJUST(pad)
    BY <2>1 DEF AccountInv, ThresholdAccount, Account
  <2>3. init_val'[pad] - init_val[pad] = AtRest(pad)' - AtRest(pad)
        /\ AtRest(pad)' \in Int /\ init_val'[pad] \in Int
    <3>1. base[pad] \in Int /\ init_val[pad] \in Int
      BY <2>1 DEF TypeOK, TypeTables
    <3>2. CASE UNCHANGED <<init_val, anti_sticky_applied>>
      <4>1. AtRest(pad)' = AtRest(pad)
        BY <2>1, <3>2 DEF AtRest
      <4> QED
        BY <2>1, <3>1, <3>2, <4>1, AccountInt
    <3>3. CASE /\ anti_sticky_applied[pad] /\ ~anti_sticky_applied'[pad]
               /\ init_val'[pad] = init_val[pad] - ANTI_STICKY_ADJUST
      <4>1. AtRest(pad)' = AtRest(pad) - 50
        BY <2>1, <3>1, <3>3 DEF AtRest, STANDBY_ADJUST, ANTI_STICKY_ADJUST
      <4> QED
        BY <2>1, <3>1, <3>3, <4>1, AccountInt DEF ANTI_STICKY_ADJUST
    <3> QED
      BY <1>5, <2>1, <3>2, <3>3 DEF Release, TypeOK, TypeTables
  <2>4. OldThreshold' = AtRest(pad)' - HYSTERISIS_ADJUST(pad)
    BY <2>1 DEF OldThreshold, HYSTERISIS_ADJUST
  <2>5. init_val[pad] \in Int
    BY <2>1 DEF TypeOK, TypeTables
  <2>6. drifts[pad] = 0 => init_val'[pad] = OldThreshold'
    BY <2>1, <2>2, <2>3, <2>4, <2>5, AccountInt
  <2> QED
    BY <2>1, <2>6 DEF AdjustPart, Undisturbed
<1>6. CASE AdjLoadLo \/ AdjLoadHi
  <2>1. UNCHANGED <<pad, init_val, base, thresholds_raised, drifts,
                    velocity_sent, anti_sticky_applied>>
    BY <1>6 DEF AdjLoadLo, AdjLoadHi, adjUnchanged
  <2>2. OldThreshold' = OldThreshold
    BY <2>1 DEF OldThreshold, AtRest
  <2> QED
    BY <1>6, <2>1, <2>2 DEF AdjLoadLo, AdjLoadHi, Adjusting, InAdjust, AccountInv,
       AdjustPart, Undisturbed
<1>7. CASE AdjStoreHi
  <2>1. /\ UNCHANGED <<pad, base, thresholds_raised, drifts, lo, hi,
                       velocity_sent, anti_sticky_applied>>
        /\ pad \in Diff /\ pc' = "AdjStoreLo" /\ pc \in Adjusting
        /\ init_val'[pad] = Join(HiByte(Adjusted), LoByte(init_val[pad]))
        /\ init_val[pad] \in Int
    BY <1>7 DEF AdjStoreHi, adjUnchanged, TypeOK, TypeScalars, TypeTables,
       Adjusting, InAdjust
  <2>2. Account(pad)' = Account(pad) /\ Adjusted' = Adjusted
    BY <2>1 DEF Account, AtRest, Adjusted
  <2>3. drifts[pad] = 0 => Adjusted = Account(pad)
    BY <1>7, <2>1, BytesOfAdjust DEF AccountInv, AdjStoreHi, Undisturbed
  <2>4. drifts[pad] = 0 => HiByte(init_val'[pad]) = HiByte(Account(pad))
    <3>1. Account(pad) \in Int
      BY <2>1, AccountInt
    <3>2. HiByte(Account(pad)) \in Int /\ LoByte(init_val[pad]) \in 0 .. 255
      BY <2>1, <3>1, SplitJoin
    <3>3. HiByte(Join(HiByte(Account(pad)), LoByte(init_val[pad])))
            = HiByte(Account(pad))
      BY <3>2, JoinSplit
    <3> QED
      BY <2>1, <2>3, <3>3
  <2> QED
    BY <2>1, <2>2, <2>3, <2>4 DEF AdjustPart, Undisturbed
<1>8. CASE Tick
  <2>1. CASE UNCHANGED <<init_val, thresholds_raised, drifts, torn>>
    <3>1. UNCHANGED <<pc, pad, lo, hi, velocity_sent, anti_sticky_applied, base>>
      BY <1>8, TickCases DEF AccountInv
    <3>2. UNCHANGED <<OldThreshold, Account(pad), Adjusted>>
      BY <2>1, <3>1 DEF OldThreshold, Account, AtRest, Adjusted
    <3> QED
      BY <2>1, <3>1, <3>2 DEF AccountInv, AdjustPart, Undisturbed
  <2>2. CASE ~UNCHANGED <<init_val, thresholds_raised, drifts, torn>>
    <3>1. /\ Shift(IF thresholds_raised THEN -100 ELSE 100)
          /\ UNCHANGED <<pc, pad>>
      BY <1>8, <2>2, TickCases DEF AccountInv
    <3>2. CASE pc \in InAdjust
      <4>1. pad \in Diff /\ drifts[pad] \in Nat
        BY <3>2, BoundAssumption DEF TypeOK, TypeScalars, TypeTables, Adjusting
      <4>2. drifts'[pad] = drifts[pad] + 1
        BY <3>1, <3>2, <4>1 DEF Shift, TypeOK, TypeTables
      <4> QED
        BY <3>1, <4>1, <4>2 DEF AdjustPart, Undisturbed
    <3>3. CASE pc = "AdjLoadLo"
      <4>1. /\ pad \in Diff /\ drifts' = drifts
            /\ init_val'[pad] =
                 init_val[pad] + (IF thresholds_raised THEN -100 ELSE 100)
        BY <3>1, <3>3 DEF Shift, TypeOK, TypeScalars, Adjusting, InAdjust
      <4>2. AtRest(pad)' = AtRest(pad) + (IF thresholds_raised THEN -100 ELSE 100)
        <5>1. \A p \in Diff : AtRest(p)' =
                AtRest(p) + (IF thresholds_raised THEN -100 ELSE 100)
          BY <1>8, <2>2, TickedAtRest DEF AccountInv
        <5> QED
          BY <3>1, <4>1, <5>1 DEF AtRest
      <4>3. velocity_sent' = velocity_sent
        BY <1>8, TickCases DEF AccountInv
      <4>4. drifts[pad] = 0 => init_val[pad] = OldThreshold
        BY <3>3 DEF AccountInv, AdjustPart, Undisturbed, Adjusting
      <4>5. OldThreshold' = OldThreshold
                              + (IF thresholds_raised THEN -100 ELSE 100)
        BY <3>1, <4>1, <4>2, <4>3, AccountInt DEF OldThreshold, HYSTERISIS_ADJUST
      <4> QED
        BY <3>1, <3>3, <4>1, <4>4, <4>5 DEF AdjustPart, Undisturbed
    <3>4. CASE pc \notin Adjusting
      BY <3>1, <3>4 DEF AdjustPart
    <3> QED
      BY <3>2, <3>3, <3>4 DEF Adjusting
  <2> QED
    BY <2>1, <2>2
<1>9. CASE UNCHANGED vars
  <2>1. UNCHANGED <<OldThreshold, Account(pad), Adjusted>>
    BY <1>9 DEF vars, OldThreshold, Account, AtRest, Adjusted
  <2> QED
    BY <1>9, <2>1 DEF vars, AccountInv, AdjustPart, Undisturbed
<1> QED
  BY <1>1, <1>2, <1>3, <1>4, <1>5, <1>6, <1>7, <1>8, <1>9 DEF Next, MainStep

LEMMA AccountInvStep == TypeOK /\ AccountInv /\ [Next]_vars => AccountInv'
  BY CalibratedStep, BranchStep, AdjustStep, AccountStep DEF AccountInv

\* Every threshold accounts for exactly the adjustments whose flags are set, on
\* every pad that no interrupted adjustment and no failed calibration has
\* disturbed, however main and the timer interrupt interleave.
THEOREM AccountCorrect == Spec => []ThresholdAccount
<1>1. TypeOK /\ AccountInv /\ [Next]_vars => AccountInv'
  BY AccountInvStep
<1>2. AccountInv => ThresholdAccount
  BY DEF AccountInv
<1> QED
  BY TypeInit, TypeCorrect, AccountInit, <1>1, <1>2, PTL DEF Spec

-----------------------------------------------------------------------------
(* A strike is compared with the threshold as it is.                       *)

\* Main's first byte belongs to the threshold main is about to use.
LoadedPart == pc = "SampleHi" /\ ~torn => lo = LoByte(init_val[pad])

LEMMA LoadedStep ==
  ASSUME TypeOK, AccountInv, LoadedPart, [Next]_vars
  PROVE  LoadedPart'
<1> USE DEF LoadedPart, mainVars, flagVars, orderVars, playVars, isrVars, baseVars,
            raceVars
<1>1. CASE CalibratePad \/ CalibrateSePad \/ CalibrateEnd \/ EnterReCal
  BY <1>1 DEF CalibratePad, CalibrateSePad, CalibrateEnd, EnterReCal, Calibrating
<1>2. CASE Top \/ ReleaseReset \/ Controls \/ SampleLo \/ Hit \/ Press \/ Release
  BY <1>2 DEF Top, ReleaseReset, Controls, SampleLo, NextSlot, Hit, Press, Release
<1>3. CASE SampleHi
  BY <1>3 DEF SampleHi, Branch, NextSlot
<1>4. CASE AdjLoadLo \/ AdjLoadHi \/ AdjStoreHi \/ AdjStoreLo \/ SampleSe
  BY <1>4 DEF AdjLoadLo, AdjLoadHi, AdjStoreHi, AdjStoreLo, SampleSe, NextSlot
<1>5. CASE Tick
  BY <1>5, TickCases DEF AccountInv, Shift
<1>6. CASE UNCHANGED vars
  BY <1>6 DEF vars
<1> QED
  BY <1>1, <1>2, <1>3, <1>4, <1>5, <1>6 DEF Next, MainStep

\* A strike is never a phantom: on an undisturbed pad, and unless the interrupt
\* moves the threshold between the two byte loads, the reading exceeds the
\* threshold with every adjustment in force.
THEOREM NoPhantomStrikeCorrect == Spec => NoPhantomStrike
<1> DEFINE Strike == (pc = "SampleHi" /\ pc' = "Hit" /\ ~torn /\ drifts[pad] = 0)
                       => reading > AtRest(pad)
<1>1. Init => LoadedPart
  BY DEF Init, LoadedPart
<1>2. TypeOK /\ AccountInv /\ LoadedPart /\ [Next]_vars => LoadedPart'
  BY LoadedStep
<1>3. ASSUME TypeOK, AccountInv, LoadedPart, [Next]_vars
      PROVE  [Strike]_vars
  <2> SUFFICES ASSUME pc = "SampleHi", pc' = "Hit", ~torn, drifts[pad] = 0
               PROVE  reading > AtRest(pad)
    OBVIOUS
  <2>1. SampleHi
    BY <1>3, TickCases DEF Next, MainStep, vars, AccountInv, Calibrating,
       CalibratePad, CalibrateSePad, CalibrateEnd, Top, EnterReCal, ReleaseReset,
       Controls, SampleLo, Hit, Press, Release, AdjLoadLo, AdjLoadHi, AdjStoreHi,
       AdjStoreLo, SampleSe
  <2>2. /\ reading - Join(HiByte(init_val[pad]), lo) > 0 /\ ~velocity_sent[pad]
        /\ pad \in Diff /\ init_val[pad] \in Int /\ reading \in Int
    BY <1>3, <2>1 DEF SampleHi, Branch, NextSlot, TypeOK, TypeScalars, TypeTables
  <2>3. Join(HiByte(init_val[pad]), lo) = init_val[pad]
    BY <1>3, <2>2, SplitJoin DEF LoadedPart
  <2>4. init_val[pad] = AtRest(pad)
    BY <1>3, <2>2, AccountInt
       DEF AccountInv, ThresholdAccount, Account, Calibrating, Adjusting, InAdjust
  <2> QED
    BY <2>2, <2>3, <2>4
<1>4. TypeOK /\ AccountInv /\ [Next]_vars => AccountInv'
  BY AccountInvStep
<1> QED
  BY TypeInit, TypeCorrect, AccountInit, <1>1, <1>2, <1>3, <1>4, PTL
     DEF Spec, NoPhantomStrike

-----------------------------------------------------------------------------
(* The R2R ladder and the pad it is set for.                               *)

LadderInv ==
  /\ pc \in Calibrating => \A p \in Diff : p < cal => r2r_val[p] = r2r_found[p]
  /\ pc \notin Calibrating =>
       /\ \A i \in Diff : r2r_val[i] = r2r_found[pad_order[i]]
       /\ \A i \in Se : pad_order[i] = i
  /\ pc \in {"Controls"} \cup Sampling \cup Adjusting /\ ~resumed
       => pad = pad_order[slot]
  /\ LadderMatchesPad

LEMMA LadderStep ==
  ASSUME TypeOK, LadderInv, [Next]_vars
  PROVE  LadderInv'
<1> USE DEF LadderInv, LadderMatchesPad, Calibrating, Sampling, Adjusting, InAdjust,
            mainVars, flagVars, orderVars, playVars, isrVars, baseVars, raceVars
<1>1. CASE CalibratePad
  <2>1. /\ cal \in Diff /\ cal' = cal + 1 /\ pc' = pc /\ pc \in Calibrating
        /\ \A p \in Diff : p < cal' => p < cal \/ p = cal
    BY <1>1, PadAssumption DEF CalibratePad, Diff
  <2>2. r2r_val'[cal] = r2r_found'[cal]
    BY <1>1, <2>1, PadSets DEF CalibratePad, TypeOK, TypeTables
  <2>3. \A p \in Diff : p # cal => r2r_val'[p] = r2r_val[p]
                                  /\ r2r_found'[p] = r2r_found[p]
    BY <1>1, <2>1, PadSets
       DEF CalibratePad, SearchFails, SearchFinds, TypeOK, TypeTables
  <2> QED
    BY <2>1, <2>2, <2>3
<1>2. CASE CalibrateSePad
  <2>1. \A p \in Diff : p < cal
    BY <1>2, PadAssumption DEF CalibrateSePad, Diff, Se
  <2> QED
    BY <1>2, <2>1 DEF CalibrateSePad
<1>3. CASE CalibrateEnd
  <2>1. PICK order : Sorted(order) /\ Permute(order)
    BY <1>3 DEF CalibrateEnd
  <2>2. \A p \in Diff : p < cal
    BY <1>3, PadAssumption DEF CalibrateEnd, Diff
  <2>3. \A i \in Diff : r2r_val'[i] = r2r_found[pad_order'[i]]
    BY <1>3, <2>1, <2>2, PadSets DEF CalibrateEnd, Sorted, Permute
  <2>4. \A i \in Se : pad_order'[i] = i
    BY <2>1 DEF Sorted, Permute
  <2> QED
    BY <1>3, <2>3, <2>4 DEF CalibrateEnd
<1>4. CASE EnterReCal
  <2>1. \A p \in Diff : ~(p < 0)
    BY DEF Diff
  <2> QED
    BY <1>4, <2>1 DEF EnterReCal
<1>5. CASE Controls
  <2>1. pad \in Diff /\ ~resumed => slot \in Diff
    BY <1>5, PadSets DEF Controls, TypeOK, TypeScalars
  <2> QED
    BY <1>5, <2>1 DEF Controls
<1>6. CASE Top \/ ReleaseReset \/ SampleLo \/ Hit \/ Press \/ Release
  BY <1>6 DEF Top, ReleaseReset, SampleLo, NextSlot, Hit, Press, Release
<1>7. CASE SampleHi
  BY <1>7 DEF SampleHi, Branch, NextSlot
<1>8. CASE AdjLoadLo \/ AdjLoadHi \/ AdjStoreHi \/ AdjStoreLo \/ SampleSe
  BY <1>8 DEF AdjLoadLo, AdjLoadHi, AdjStoreHi, AdjStoreLo, SampleSe, NextSlot,
     adjUnchanged
<1>9. CASE Tick
  BY <1>9 DEF Tick
<1>10. CASE UNCHANGED vars
  BY <1>10 DEF vars
<1> QED
  BY <1>1, <1>2, <1>3, <1>4, <1>5, <1>6, <1>7, <1>8, <1>9, <1>10 DEF Next, MainStep

\* While a differential pad is sampled, the R2R ladder carries the value that
\* calibration found for that very pad, though pads and values are sorted.
THEOREM LadderCorrect == Spec => []LadderMatchesPad
<1>1. TypeOK /\ Init => LadderInv
  <2>1. ASSUME Init PROVE LadderInv
    <3>1. \A p \in Diff : ~(p < 0)
      BY DEF Diff
    <3> QED
      BY <2>1, <3>1 DEF Init, LadderInv, LadderMatchesPad, Calibrating, Sampling,
         Adjusting, InAdjust
  <2> QED
    BY <2>1
<1>2. TypeOK /\ LadderInv /\ [Next]_vars => LadderInv'
  BY LadderStep
<1>3. LadderInv => LadderMatchesPad
  BY DEF LadderInv
<1> QED
  BY TypeInit, TypeCorrect, <1>1, <1>2, <1>3, PTL DEF Spec

-----------------------------------------------------------------------------
(* The single-ended pads.                                                  *)

SeInv ==
  /\ pc \in Calibrating =>
       \A p \in Se : p < cal => init_val_se[p] = base_se[p]
  /\ SeAccount

LEMMA SeStep ==
  ASSUME TypeOK, SeInv, [Next]_vars
  PROVE  SeInv'
<1> USE DEF SeInv, SeAccount, Calibrating, mainVars, flagVars, orderVars, playVars,
            isrVars, baseVars, raceVars
<1>1. CASE CalibratePad
  <2>1. \A p \in Se : ~(p < cal')
    BY <1>1, PadAssumption DEF CalibratePad, Diff, Se
  <2> QED
    BY <1>1, <2>1 DEF CalibratePad
<1>2. CASE CalibrateSePad
  <2>1. /\ cal \in Se /\ cal' = cal + 1 /\ pc' = pc /\ pc \in Calibrating
        /\ \A p \in Se : p < cal' => p < cal \/ p = cal
    BY <1>2, PadAssumption DEF CalibrateSePad, Se
  <2>2. init_val_se'[cal] = base_se'[cal]
    BY <1>2, <2>1 DEF CalibrateSePad, TypeOK, TypeTables
  <2>3. \A p \in Se : p # cal => init_val_se'[p] = init_val_se[p]
                                /\ base_se'[p] = base_se[p]
    BY <1>2, <2>1 DEF CalibrateSePad, TypeOK, TypeTables
  <2> QED
    BY <2>1, <2>2, <2>3
<1>3. CASE CalibrateEnd
  <2>1. \A p \in Se : p < cal /\ base_se[p] \in Int
    BY <1>3, PadAssumption DEF CalibrateEnd, Se, TypeOK, TypeTables
  <2>2. \A p \in Se : hysterisis_applied'[p] = FALSE /\ being_played'[p] = FALSE
    BY <1>3, PadSets DEF CalibrateEnd, ClearFlags
  <2>3. \A p \in Se : init_val_se'[p] = base_se'[p] /\ base_se'[p] \in Int
    BY <1>3, <2>1 DEF CalibrateEnd
  <2>4. pc' \notin Calibrating
    BY <1>3 DEF CalibrateEnd
  <2>5. \A p \in Se : init_val_se'[p] = base_se'[p]
          + (IF hysterisis_applied'[p] THEN HYSTERISIS_ADJUST_OVER_39 ELSE 0)
    BY <2>2, <2>3
  <2>6. \A p \in Se : hysterisis_applied'[p] = being_played'[p]
    BY <2>2
  <2> QED
    BY <2>4, <2>5, <2>6
<1>4. CASE EnterReCal
  <2>1. \A p \in Se : ~(p < 0)
    BY PadAssumption DEF Se
  <2> QED
    BY <1>4, <2>1 DEF EnterReCal
<1>5. CASE Top \/ ReleaseReset \/ Controls \/ SampleLo
  BY <1>5 DEF Top, ReleaseReset, Controls, SampleLo
<1>6. CASE Hit \/ Press \/ Release
  <2>1. pad \in Diff /\ pc \notin Calibrating /\ pc' \notin Calibrating
        /\ UNCHANGED <<init_val_se, base_se, hysterisis_applied>>
    BY <1>6 DEF Hit, Press, Release, NextSlot, TypeOK, TypeScalars
  <2>2. \A p \in Se : being_played'[p] = being_played[p]
    BY <1>6, <2>1, PadSets DEF Hit, Press, Release, TypeOK, TypeTables
  <2> QED
    BY <2>1, <2>2
<1>7. CASE SampleHi
  BY <1>7 DEF SampleHi, Branch, NextSlot
<1>8. CASE AdjLoadLo \/ AdjLoadHi \/ AdjStoreHi \/ AdjStoreLo
  BY <1>8 DEF AdjLoadLo, AdjLoadHi, AdjStoreHi, AdjStoreLo, NextSlot, adjUnchanged
<1>9. CASE SampleSe
  <2>1. pad \in Se /\ pad \in Pads /\ pc \notin Calibrating /\ pc' = "Top"
        /\ UNCHANGED base_se /\ base_se[pad] \in Int
    BY <1>9, PadSets DEF SampleSe, NextSlot, TypeOK, TypeTables
  <2>2. \A p \in Se : p # pad => /\ init_val_se'[p] = init_val_se[p]
                                /\ hysterisis_applied'[p] = hysterisis_applied[p]
                                /\ being_played'[p] = being_played[p]
    BY <1>9, <2>1, PadSets DEF SampleSe, TypeOK, TypeTables
  <2>3. /\ hysterisis_applied'[pad] = being_played'[pad]
        /\ init_val_se'[pad] = base_se[pad]
             + (IF hysterisis_applied'[pad] THEN HYSTERISIS_ADJUST_OVER_39 ELSE 0)
    <3>1. /\ init_val_se[pad] = base_se[pad]
               + (IF hysterisis_applied[pad] THEN HYSTERISIS_ADJUST_OVER_39 ELSE 0)
          /\ init_val_se \in [Se -> Int] /\ hysterisis_applied \in [Se -> BOOLEAN]
          /\ being_played \in [Pads -> BOOLEAN]
      BY <2>1 DEF TypeOK, TypeTables
    <3>2. CASE UNCHANGED <<init_val_se, hysterisis_applied>>
               /\ being_played'[pad] = hysterisis_applied[pad]
      BY <2>1, <3>1, <3>2
    <3>3. CASE /\ ~hysterisis_applied[pad]
               /\ hysterisis_applied'[pad] = TRUE /\ being_played'[pad] = TRUE
               /\ init_val_se'[pad] = init_val_se[pad] + 10
      <4>1. init_val_se[pad] = base_se[pad]
        BY <2>1, <3>1, <3>3 DEF HYSTERISIS_ADJUST_OVER_39
      <4>2. init_val_se'[pad] = base_se[pad]
              + (IF hysterisis_applied'[pad] THEN HYSTERISIS_ADJUST_OVER_39 ELSE 0)
        BY <2>1, <3>3, <4>1 DEF HYSTERISIS_ADJUST_OVER_39
      <4>3. hysterisis_applied'[pad] = being_played'[pad]
        BY <3>3
      <4> QED
        BY <4>2, <4>3
    <3>4. CASE /\ hysterisis_applied[pad]
               /\ hysterisis_applied'[pad] = FALSE /\ being_played'[pad] = FALSE
               /\ init_val_se'[pad] = init_val_se[pad] - 10
      <4>1. init_val_se[pad] = base_se[pad] + 10
        BY <2>1, <3>1, <3>4 DEF HYSTERISIS_ADJUST_OVER_39
      <4>2. init_val_se'[pad] = base_se[pad]
              + (IF hysterisis_applied'[pad] THEN HYSTERISIS_ADJUST_OVER_39 ELSE 0)
        BY <2>1, <3>4, <4>1 DEF HYSTERISIS_ADJUST_OVER_39
      <4>3. hysterisis_applied'[pad] = being_played'[pad]
        BY <3>4
      <4> QED
        BY <4>2, <4>3
    <3> QED
      BY <1>9, <2>1, <3>1, <3>2, <3>3, <3>4
         DEF SampleSe, HYSTERISIS_ADJUST_OVER_39
  <2> QED
    BY <2>1, <2>2, <2>3
<1>10. CASE Tick
  BY <1>10 DEF Tick
<1>11. CASE UNCHANGED vars
  BY <1>11 DEF vars
<1> QED
  BY <1>1, <1>2, <1>3, <1>4, <1>5, <1>6, <1>7, <1>8, <1>9, <1>10, <1>11
     DEF Next, MainStep

\* A single-ended pad is held exactly when its hysteresis is in its threshold.
THEOREM SeCorrect == Spec => []SeAccount
<1>1. TypeOK /\ Init => SeInv
  <2>1. ASSUME Init PROVE SeInv
    <3>1. \A p \in Se : ~(p < 0)
      BY PadAssumption DEF Se
    <3> QED
      BY <2>1, <3>1 DEF Init, SeInv, SeAccount, Calibrating
  <2> QED
    BY <2>1
<1>2. TypeOK /\ SeInv /\ [Next]_vars => SeInv'
  BY SeStep
<1>3. SeInv => SeAccount
  BY DEF SeInv
<1> QED
  BY TypeInit, TypeCorrect, <1>1, <1>2, <1>3, PTL DEF Spec
=============================================================================
