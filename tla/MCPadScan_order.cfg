SPECIFICATION Spec
CONSTANTS
  LAST_PAD = 2
  FIRST_SE = 2
  UNDER_16 = 1
  UNDER_8 = 1
  STANDBY_TICKS = 1
  STICKY_TIMEOUT = 1
  ADC_VALUES <- MCTwoAdcValues
  SE_VALUES <- MCSeValues
  R2R_VALUES <- MCR2RValues
  MAX_DRIFTS = 0
INVARIANTS LadderMatchesPad
