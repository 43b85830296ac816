SPECIFICATION Spec
CONSTANTS
  BITS = 2
  COLOURS <- MCColours
  setting <- MCSetting
  MAX_NESTED = 2
INVARIANTS TypeOK ShownAsAsked
