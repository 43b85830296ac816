SPECIFICATION Spec
CONSTANTS
  COLOURS <- MCColours
  SLOTS <- MCSlots
  CHANGES <- MCChanges
  SUMS <- MCSums
  GARBAGE <- MCGarbage
INVARIANTS TypeOK TablesWithinLimit ColoursScaled
PROPERTIES RoundWithinLimit
