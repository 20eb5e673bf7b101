CONSTANTS
  NoCode = NoCode
  Codes <- CodesRead
  Shortest <- Sizes
  Matchers <- MatchersUsed
  Patterns <- PatternsUsed
  Snippets <- SnippetsUsed
  Redirected <- StringsReplaced
  MaxEdits = 2
  MaxChanges = 3
SPECIFICATION Spec
INVARIANTS WrittenCodeIsWritable EditsAreExact
PROPERTIES PlacesFollow FramesOfShortFormsHold AttributesKept RoundTripIsExact
CHECK_DEADLOCK FALSE
