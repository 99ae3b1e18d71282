SPECIFICATION FairSpec
CONSTANTS
  p1 = p1
  p2 = p2
  mine = mine
  mod = mod
  None = None
  Torn = Torn
  NRoots = 2
  Payloads = {p1, p2}
  OtherData = {mine, mod}
  Foreign = {mod}
  TxIds = {1, 2}
  SizeOf <- MCSizeOf
  Adoptable = {p1, mine}
  IdenticalRoots = TRUE
INVARIANTS TypeOK OriginalKept JournalRunsAhead MarkerHonest
PROPERTIES StagedWorkPreserved ImportIsAtomic ImportCompletes
