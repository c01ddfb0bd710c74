SPECIFICATION Spec

CONSTANTS
  NPages = 7
  PageSize = 2
  Word = 8
  Half = 3
  Sizes = {1, 3, 9}
  MaxBlocks = 3

INVARIANTS
  TypeOK
  PagesAccounted
  BlocksFindable

PROPERTIES
  FailureChangesNothing
  ImplementsMemSpec

\* the program may stop
CHECK_DEADLOCK FALSE
