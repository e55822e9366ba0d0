SPECIFICATION Spec
CONSTANTS
  w1 = w1
  w2 = w2
  s1 = s1
  s2 = s2
  N = 3
  Writers = {w1, w2}
  Streams = {s1}
  MaxEntries = 4
  MaxLen = 1
  OneWriterAtATime = FALSE
INVARIANTS
  BackSlotFree
