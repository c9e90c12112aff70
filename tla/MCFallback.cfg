SPECIFICATION Spec
CONSTANTS
  Kernels <- AllKernels
  Processes <- AllProcesses
  NoSize = NoSize
  Sizes <- MCSizes
  PageSize = 4
INVARIANT FallbackRecords
