CONSTANTS
  methods = methods
  a = a
  b = b
  Lists = {methods}
  Names = {a, b}
  Handles = {x, y}
  Models = {m0, m1, m2}
  Outer = m0
  StartNames <- TwoMethods
  Pipelines = {p, q}
  NoHandle = NoHandle
  NoModel = NoModel
  Unused = Unused
  Gone = Gone
  MaxMembers = 1
  MaxGeneration = 1
  MaxApplies = 2
  MaxSteps = 2
SYMMETRY Symmetry
SPECIFICATION Spec
INVARIANTS RefsTrue ContentsInOnePlace CallbackModelsDie
PROPERTY ErrorsReachTheCaller
