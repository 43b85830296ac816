SPECIFICATION FairSpec
CONSTANTS
  FILES <- MCFiles
  LIMIT = 6
  SEGMENT = 2
  BYTES <- MCBytes
  BLOCK = 2
  CODE_SIZES <- MCCodeSizes
  SIXTEEN = 6
  VALUES <- MCValues
  ERASED = 255
  TORN <- MCTorn
  OLD <- MCOld
  COMMAND_STARTAPPLICATION = 5
  DEVICE_ID = "03EB:2067"
  REBOOT_WORD = 4
  KEEP <- MCKeep
INVARIANTS TypeOK ImageIsFile ProgrammedAsFile
PROPERTIES UpdateRefinement StartCommandRuns LoaderEnds
