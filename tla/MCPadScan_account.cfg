SPECIFICATION Spec
CONSTANTS
  LAST_PAD = 1
  FIRST_SE = 1
  UNDER_16 = 1
  UNDER_8 = 1
  STANDBY_TICKS = 2
  STICKY_TIMEOUT = 1
  ADC_VALUES <- MCAdcValues
  SE_VALUES <- MCSeValues
  R2R_VALUES <- MCOneR2RValue
  MAX_DRIFTS = 1
INVARIANTS TypeOK ThresholdAccount SeAccount
PROPERTIES NoPhantomStrike StandbyEnds StandbyStarts
