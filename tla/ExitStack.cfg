SPECIFICATION Spec

CONSTANTS
  Size = 3
  Word = 6
  MaxRegs = 6
  MaxDepth = 2
  MaxCexits = 2

INVARIANTS
  TypeOK
  FailsOnlyAfterCexit
  EachCalledOnce

PROPERTIES
  NewestFirst
  ExitEndsProgram

\* exit and _exit end the program
CHECK_DEADLOCK FALSE
