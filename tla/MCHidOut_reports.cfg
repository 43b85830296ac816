SPECIFICATION FairSpec
CONSTANTS
  REPORTS = 2
  HALVES <- MCHalves
  MAX_NESTED = 2
INVARIANTS TypeOK ReportsInOrder MidiInOrder
PROPERTIES BankIsFreed ReportsArrive
