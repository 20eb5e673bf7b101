CONSTANTS
  NoCode = NoCode
  NoClass = NoClass
  Same = Same
  Requests <- PatchRequests
  Edits <- PythonEdits
  Deepest = 2
SPECIFICATION Spec
INVARIANT LabelsPlacedOnce
CHECK_DEADLOCK FALSE
