CONSTANTS
  Thread = {t1, t2}
  Idle = Idle
  Disk = Disk
  IoKey = {k1}
  FutexOp = {"FUTEX_WAIT", "FUTEX_LOCK_PI"}
  None = None
  NsPerMs = 2
  FUTEX_CORRELATION_WINDOW_NS = 1
  spurious_threshold_ns = 2
  MaxEvents = 5
  MaxTs = 3
SPECIFICATION Spec
SYMMETRY ThreadSymmetry
INVARIANTS TypeOK OffCpuOrDeferred WaitConservation WaitsOfAThreadDisjoint IoConservation NothingLeftBehind
PROPERTY DeferredEdgeFate
CHECK_DEADLOCK FALSE
