SPECIFICATION Spec
CONSTANTS
  Types = {"Vector", "Matrix", "double"}
  Reader <- Readers
  Addresses = {"lib1", "lib2"}
  Home <- Homes
  Texts <- TextsOf
  KeepReference = {"Vector"}
  ComparesNames = TRUE
INVARIANTS
  TypeOK
  ReadExact
PROPERTIES
  CastKept
