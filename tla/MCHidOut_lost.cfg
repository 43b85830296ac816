SPECIFICATION Spec
CONSTANTS
  REPORTS = 2
  HALVES <- MCLedOnly
  MAX_NESTED = 2
INVARIANTS EveryReportProcessed
