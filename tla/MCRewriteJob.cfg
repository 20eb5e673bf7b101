CONSTANTS
  NoCode = NoCode
  NoClass = NoClass
  Same = Same
  Requests <- SafeRequests
  Edits <- PythonEdits
  Deepest = 2
SPECIFICATION Spec
INVARIANTS TraceKept CompiledSaysTheSame RulesAndSpecsAgree ErrorsKeepTheFile
PROPERTIES ReportSaysWhatChanged CountsAreEdits RoundsShrink
CHECK_DEADLOCK FALSE
