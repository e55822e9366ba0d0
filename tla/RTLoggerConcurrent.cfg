SPECIFICATION Spec
CONSTANTS
  w1 = w1
  w2 = w2
  s1 = s1
  s2 = s2
  N = 2
  Writers = {w1, w2}
  Streams = {s1}
  MaxEntries = 3
  MaxLen = 1
  OneWriterAtATime = FALSE
INVARIANTS
  WriterAlone
  OssOnBackSlot
PROPERTIES
  NeverBlocking
