CONSTANTS
  Thread = {t1, t2}
  Idle = Idle
  Disk = Disk
  IoKey = {}
  FutexOp = {}
  None = None
  NsPerMs = 2
  FUTEX_CORRELATION_WINDOW_NS = 1
  spurious_threshold_ns = 2
  MaxEvents = 5
  MaxTs = 5
  Cpu = {c1, c2}
  SelfThread = {}
  SleepState = {1, 32768}
  MaxLost = 1
SPECIFICATION TraceSpec
SYMMETRY TraceSymmetry
INVARIANT SleepersAreTracked
CHECK_DEADLOCK FALSE
