SPECIFICATION Spec
CONSTANTS
  c = c
  r = r
  a = a
  b = b
  out = out
  Signals = {c, r, a, b, out}
  Type <- KindsTypes
  TimeDep = {a, b, out}
  Inputs <- KindsInputs
  DepArgs <- KindsInputs
  Kind <- KindsKind
  Period <- KindsPeriod
  AllChildren = {a}
  ByCopy = {b}
  MayThrow = {a}
  Roots = {b, out}
  Forced = {b}
  SetWhen = "betweenTicks"
  MaxTime = 3
  MaxVersion = 1
INVARIANTS
  NoReentry
PROPERTIES
  OncePerPeriod
  AllInputsNew
