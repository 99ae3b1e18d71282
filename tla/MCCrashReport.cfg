SPECIFICATION FairSpec
CONSTANTS
  t1 = t1
  t2 = t2
  t3 = t3
  None = None
  Threads = {t1, t2, t3}
  Sigs = {"segv", "bus"}
  ReadSigs = {"segv", "bus"}
  Pieces = 3
  Reading = {2, 3}
INVARIANTS NoBraiding ReportWhole
PROPERTIES CrashEnds
CHECK_DEADLOCK FALSE
