CONSTANTS
  A = "A"
  B = "B"
  C = "C"
  S = "S"
  T = "T"
  X = "X"
  Object = "java/lang/Object"
  NoClass = "none"
  Throwable = "java/lang/Throwable"
  ThisClass = "T"
  Arrays = {"[I"}
  Classes = {"A", "B", "C", "S", "T", "X", "[I", "java/lang/Object", "java/lang/Throwable"}
  Codes <- AllCodes
  Resolvers <- AllResolvers
SPECIFICATION FairSpec
INVARIANTS FramesAreJoins FramesDescribeRuns LimitsHold
PROPERTIES FramesOnlyGrow Terminates
CHECK_DEADLOCK FALSE
