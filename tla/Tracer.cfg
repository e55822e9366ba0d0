SPECIFICATION Spec
CONSTANTS
  Signals = {"a.out", "b.out"}
  Given = {"", "no/f"}
  shortName <- Short
  Unwritable = {"no/f"}
  Width <- Widths
  BufferSizes <- NegativeToo
  MaxSignals = 2
  MaxStrays = 1
  MaxNames = 2
  MaxTime = 1
  MaxCells = 3
INVARIANTS
  TypeOK
  FilesMatchSignals
  FilesWhole
