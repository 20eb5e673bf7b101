CONSTANTS
  A = "A"
  B = "B"
  C = "C"
  S = "S"
  T = "T"
  X = "X"
  Object = "java/lang/Object"
  NoClass = "none"
  Throwable = "java/lang/Throwable"
  ThisClass = "T"
  Arrays = {"[I"}
  Classes = {"A", "B", "C", "S", "T", "X", "[I", "java/lang/Object", "java/lang/Throwable"}
  Codes <- Longs
  Resolvers <- AllResolvers
SPECIFICATION Spec
INVARIANT WrittenFramesHold
CHECK_DEADLOCK FALSE
