SPECIFICATION SpecAlone
CONSTANTS
  p1 = p1
  p2 = p2
  mine = mine
  mod = mod
  None = None
  Torn = Torn
  NRoots = 3
  Payloads = {p1}
  OtherData = {mine}
  Foreign = {}
  TxIds = {1, 2}
  SizeOf <- MCSizeOf
  Adoptable = {p1}
  IdenticalRoots = FALSE
INVARIANTS AtRestWhole
