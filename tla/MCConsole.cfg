SPECIFICATION Spec

CONSTANTS
  p1 = p1
  p2 = p2
  Procs = {p1, p2}
  Word = 8
  NewLine = 2
  Bytes = {2, 7}
  Ints <- SomeInts
  Texts <- SomeTexts
  UserModes <- Cooked
  MaxPending = 2

SYMMETRY Programs

INVARIANTS
  TypeOK
  ModeAsPromised

PROPERTY
  ImplementsConsoleSpec
