SPECIFICATION LauncherSpec
CONSTANTS
  p1 = p1
  None = None
  Torn = Torn
  NRoots = 3
  Payloads = {p1}
  OtherData = {}
  Foreign = {}
  TxIds = {1, 2}
  SizeOf <- MCSizeOf
  Adoptable = {p1}
  IdenticalRoots = FALSE
  TestedRoots = {1, 2}
PROPERTIES GameSeesWholeImport
