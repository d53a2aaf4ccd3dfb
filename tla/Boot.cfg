SPECIFICATION Spec
CONSTANTS
  MemTop = 104
  CodeAddr = 8
  MbiAddr = 4096
  InfoAddr = 8192
  HeaderBytes = 16
  PhSize <- MCPhSize
  Kernels <- MCKernels
INVARIANTS
  SegmentsArrive
  OnlySegmentsWritten
  StaysOnCourse
  KernelGetsItsProtocol
