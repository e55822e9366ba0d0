SPECIFICATION Spec
CONSTANTS
  p1 = p1
  p2 = p2
  deriv = deriv
  other = other
  Signals = {p1, p2, deriv, other}
  Pointers = {p1, p2}
  Holds <- Types
  Derived <- DerivedFrom
  Changing = {p1, deriv}
  Defaulted = {p1}
INVARIANTS
  TypeOK
  PointsToInput
  ObserversAgree
  NothingUnset
  DefaultServes
