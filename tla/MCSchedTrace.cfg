CONSTANTS
  Thread = {t1, t2, wperf}
  Idle = Idle
  Disk = Disk
  IoKey = {}
  FutexOp = {"FUTEX_WAIT"}
  None = None
  NsPerMs = 2
  FUTEX_CORRELATION_WINDOW_NS = 2
  spurious_threshold_ns = 2
  MaxEvents = 4
  MaxTs = 4
  Cpu = {c1, c2}
  SelfThread = {wperf}
  SleepState = {1}
  MaxLost = 1
SPECIFICATION TraceSpec
SYMMETRY TraceSymmetry
INVARIANTS TableMirrorsKernel EdgesAreTheWaits EveryEdgeHasItsWakeup
CHECK_DEADLOCK FALSE
