SPECIFICATION FairSpec
CONSTANTS
  w1 = w1
  w2 = w2
  s1 = s1
  s2 = s2
  N = 2
  Writers = {w1}
  Streams = {s1, s2}
  MaxEntries = 3
  MaxLen = 2
  OneWriterAtATime = TRUE
INVARIANTS
  TypeOK
  SlotExclusion
  RingHoldsUnread
  DeliveredIntact
  StreamsInOrder
  ShutdownDrains
PROPERTIES
  QueueSpec
  EventuallyDrained
  ShutdownEnds
