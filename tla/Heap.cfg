SPECIFICATION Spec

CONSTANTS
  NSlots = 9
  SizeWord = 4
  CmpWord = 8
  Third = 3
  Sizes = {0, 1, 3}
  MaxBlocks = 3

INVARIANTS
  TypeOK
  ChunksAccounted
  HeadersTrue
  BlocksFindable

PROPERTY
  ImplementsMemSpec

\* the program may stop
CHECK_DEADLOCK FALSE
