SPECIFICATION FairSpec
CONSTANTS
  c = c
  r = r
  a = a
  b = b
  out = out
  Signals = {c, r, a, out}
  Type <- ChainTypes
  TimeDep = {a, out}
  Inputs <- ChainInputs
  DepArgs <- ChainInputs
  Kind <- TimeKind
  Period <- Period1
  AllChildren = {}
  ByCopy = {}
  MayThrow = {}
  Roots = {out}
  Forced = {}
  SetWhen = "anytime"
  MaxTime = 3
  MaxVersion = 2
INVARIANTS
  Fresh
PROPERTIES
  EvaluationEnds
