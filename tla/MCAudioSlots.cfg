SPECIFICATION AudioSpec
CONSTANTS
  SlotCount = 2
  RawCount = 1
  DynamicBase = 1
  Frames = 2
  Lengths = {2, 4}
  Threads = {t1, t2}
  MaxCalls = 4
INVARIANTS AudioTypeOK FreeIsSilent
PROPERTIES ReadsInside FallsSilent
CHECK_DEADLOCK FALSE
