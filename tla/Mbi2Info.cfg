SPECIFICATION MCSpec
CONSTANTS
  PhysAddrs = {4096}
  Lengths = {6, 24, 28, 36, 40, 48, 56, 64, 72, 88, 104, 120, 136, 152, 168, 184, 200, 232, 280}
  Null = Null
  ByteSize = 256
  End = 4
  Ranges <- MCRanges
  Paragraphs <- MCParagraphs
  Mbis <- MCMbis
INVARIANTS
  BuiltInsideArea
  SizesAddUp
  KernelReadsWhatLoaderTold
  KernelStaysInside
  HaltsOnlyIfTight
  RsdpIsFirst
