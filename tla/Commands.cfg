SPECIFICATION Spec
CONSTANTS
  Types = {"INT", "MATRIX4D"}
  Data = {1, 2}
  Cells = {1, 2, 3, 4, 5, 6}
  Vars = {"x", "y"}
  Names = {"f", "g"}
  Offered <- Some
INVARIANTS
  TypeOK
  OwnershipExact
  ParametersKept
  CallsAsGiven
