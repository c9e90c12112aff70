SPECIFICATION Spec
CONSTANTS
  Kernels <- AllKernels
  Processes <- AllProcesses
  NoSize = NoSize
  Sizes <- MCSizes
  PageSize = 4
INVARIANTS
  HooksCoveredOnce
  EveryFailureHasACause
PROPERTIES
  StopIsHonoured
