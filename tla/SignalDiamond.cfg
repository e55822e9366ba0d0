SPECIFICATION Spec
CONSTANTS
  c = c
  r = r
  a = a
  b = b
  out = out
  Signals = {c, a, b, out}
  Type <- DiamondTypes
  TimeDep = {a, b, out}
  Inputs <- DiamondInputs
  DepArgs <- DiamondInputs
  Kind <- TimeKind
  Period <- Period1
  AllChildren = {}
  ByCopy = {}
  MayThrow = {}
  Roots = {c, a, b, out}
  Forced = {}
  SetWhen = "betweenTicks"
  MaxTime = 3
  MaxVersion = 2
INVARIANTS
  TypeOK
  Fresh
PROPERTIES
  NoNeedlessRun
