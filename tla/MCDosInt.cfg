SPECIFICATION Spec

CONSTANTS
  Requests <- SomeRequests
  NewRecords <- SomeRecords
  Errnos <- SomeErrnos
  MaxDepth = 2

INVARIANTS
  TypeOK
  CarryTruthful
  LastErrorReported
  NoOtherStop

\* the program may stop
CHECK_DEADLOCK FALSE
