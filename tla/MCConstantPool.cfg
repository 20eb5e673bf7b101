CONSTANTS
  s1 = s1
  s2 = s2
  long = long
  one = one
  NoEntry = NoEntry
  NoData = NoData
  Strings = {s1, s2, long}
  LongStrings = {long}
  Owners = {s1, s2}
  Signatures <- SignaturesInUse
  Numbers = {one}
  Tags = {"Long", "Class", "MethodRef", "Dynamic", "MethodHandle"}
  HandleTargets = {2}
  MaxIndex = 6
  RawPools <- FlatPools
SPECIFICATION Spec
INVARIANTS TypeOK WriterAccepts FindResolves RollbackRestores
PROPERTIES AddsNoDuplicate Interns
