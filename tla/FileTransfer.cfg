CONSTANTS
  Name = {f}
  Chat = {a, b}
  NoRow = NoRow
  MaxRows = 3
  MaxSent = 2
  MaxAccepted = 2
SPECIFICATION FairSpec
CHECK_DEADLOCK FALSE
INVARIANTS TypeOK RowsMatchTasks UploadHoldsItsRow
PROPERTIES UploadsOnceInOrder UploadEnds
