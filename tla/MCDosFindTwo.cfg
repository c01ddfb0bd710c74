SPECIFICATION Spec

CONSTANTS
  Static = Static
  Own = Own
  f1 = f1
  f2 = f2
  Dtas = {Static, Own}
  StaticDta = Static
  Files = {f1, f2}
  Kinds <- PresentOrAbsent
  SearchAttrs <- NormalSearches
  GlobErrnos <- UnmatchedOnly
  MaxAbandoned = 1

INVARIANTS
  CurrentDtaIsUsers
  VectorsAccounted
  AbortsOnlyAfterFailedFindfirst

PROPERTY
  ImplementsFindSpec
