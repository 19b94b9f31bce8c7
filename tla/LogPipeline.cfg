\* Three files of one line around a cutover, one fault or deploy.
SPECIFICATION FairSpec
CONSTANTS
  Old = Old
  New = New
  None = None
  Faint <- FaintLine
  BackfillBudget = 1
  BatchSize = 2
  MaxFiles = 3
  MaxLines = 1
  MaxFaults = 1
  DaySeconds = 8
  Quarter = 4
  MaxGap = 3
INVARIANTS
  TypeOK
  FilesInOrder
  NothingSkipped
PROPERTIES
  KeepsThePromise
  TablesCatchUp
CHECK_DEADLOCK FALSE
