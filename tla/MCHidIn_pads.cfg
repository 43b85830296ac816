SPECIFICATION Spec
CONSTANTS
  PADS <- MCEdgePads
  LAST_PAD = 47
  DIALS <- MCNone
  PRESSURES <- MCStrike
  VELOCITIES <- MCVelocities
  BUTTONS <- MCNone
  MESSAGES <- MCNone
  MAX_TURNS = 0
  MAX_CONFIGS = 0
PROPERTIES ReportRefinement ReportedStatesWereReal
