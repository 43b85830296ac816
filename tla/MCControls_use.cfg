SPECIFICATION FairSpec
CONSTANTS
  PRESSED <- MCPressed
  TURNED <- MCTurned
  BYTE = 3
INVARIANTS TypeOK ClickPerStep
PROPERTIES PressReadOnce UseIsSeen
