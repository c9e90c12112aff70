CONSTANTS
  Thread = {t1, t2, wperf}
  Idle = Idle
  Disk = Disk
  IoKey = {k1, k2}
  FutexOp = {}
  None = None
  NsPerMs = 2
  FUTEX_CORRELATION_WINDOW_NS = 1
  spurious_threshold_ns = 2
  MaxEvents = 5
  MaxTs = 5
  Rq = {r1, r2, r3}
  Kthread = {kworker}
  SelfThread = {wperf}
  MaxPending = 2
  MaxLost = 1
SPECIFICATION IoSpec
SYMMETRY IoSymmetry
INVARIANTS PendingIsInFlight IoEdgesAreRequests PairingsAgree
CHECK_DEADLOCK FALSE
