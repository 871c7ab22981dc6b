CONSTANTS
  MaxBytes = 3
  MaxEvents = 3
  Events = 4
  Faults = TRUE
SPECIFICATION FairSpec
INVARIANTS
  TypeOK
  KeepsLatest
  ShowsFile
  TellsEach
  ToldAtMostTwice
PROPERTY CatchesUp
