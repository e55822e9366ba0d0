SPECIFICATION Spec
CONSTANTS
  Addresses = {e1, e2}
  Names = {a, b}
  Classes = {C, D}
  SignalName <- Named
  DEFAULT_SIZE = 2
  MaxArray = 3
SYMMETRY Alike
INVARIANTS
  TypeOK
  PoolEntriesLive
  NoOrphan
  ArrayWhole
PROPERTIES
  RegistrationsKept
