SPECIFICATION Spec
CONSTANTS
  Signals = {"a.out", "b.out"}
  Given = {"", "no/f"}
  shortName <- Short
  Unwritable = {"no/f"}
  Width <- Widths
  BufferSizes = {3}
  MaxSignals = 2
  MaxStrays = 1
  MaxNames = 3
  MaxTime = 2
  MaxCells = 3
INVARIANTS
  NamesAsAsked
