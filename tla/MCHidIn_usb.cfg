SPECIFICATION Spec
CONSTANTS
  PADS <- MCNone
  LAST_PAD = 47
  DIALS <- MCOneDial
  PRESSURES <- MCPressures
  VELOCITIES <- MCVelocities
  BUTTONS <- MCButtons
  MESSAGES <- MCOneMessage
  MAX_TURNS = 2
  MAX_CONFIGS = 1
INVARIANTS TypeOK DialsConserved
PROPERTIES ReportRefinement QueueDrains
