SPECIFICATION MCSpec
CONSTANTS
  PageSize = 4
  MemTop = 32
  PhysMax = 24
  ExtraSpace = 4
  Requests = {}
  Mmaps <- MCMmaps
  Loads <- MCLoads
INVARIANTS
  TypeOK
  ModulesIntact
  CmdlinesIntact
  MovedLayout
  HaltsBeforeCopying
PROPERTIES
  WritesStayInBlock
  ImplementsPlacement
