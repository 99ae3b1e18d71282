SPECIFICATION FairSpec
CONSTANTS
  p1 = p1
  p2 = p2
  p3 = p3
  None = None
  Garbage = Garbage
  NFiles = 3
  Packages = {p1, p2, p3}
  PlanOf <- MCPlanOf
  Summed <- MCSummed
INVARIANTS TypeOK ResumeIsSound StageIsExact
PROPERTIES WorkKept StagingCompletes
