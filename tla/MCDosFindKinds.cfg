SPECIFICATION Spec

CONSTANTS
  Static = Static
  f1 = f1
  f2 = f2
  Dtas = {Static}
  StaticDta = Static
  Files = {f1, f2}
  Kinds <- EveryAnswer
  SearchAttrs <- DirSearches
  GlobErrnos <- SomeErrnos
  MaxAbandoned = 1

INVARIANTS
  TypeOK
  VectorInBounds
  IntErrorReported

PROPERTIES
  ImplementsFindSpec
  CallReturns
