SPECIFICATION StartSpec
CONSTANTS
  PageSize = 4
  MemTop = 160
  PhysMax = 160
  ExtraSpace = 4
  Requests = {}
  Mmaps <- MCMmaps
  Loads <- MCLoads
  CodeAddr = 4
  MbiAddr = 4096
  InfoAddr = 8192
  HeaderBytes = 16
  PhSize <- MCPhSize
  Files <- MCFiles
INVARIANTS
  HandoverIsIntact
