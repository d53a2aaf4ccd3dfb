SPECIFICATION SearchSpec
CONSTANTS
  PageSize = 4
  Mmaps <- MCMmaps
  Requests <- MCRequests
INVARIANTS
  BlockIsFree
  HighestBlock
  MissMeansNoBlock
