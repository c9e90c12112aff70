CONSTANTS
  t1 = t1
  t2 = t2
  t3 = t3
  Thread = {t1, t2, t3}
  KernelThread = {t2, t3}
  Disk = Disk
  None = None
  MaxMs = 2
  MaxEdges = 4
  max_depth = 3
SPECIFICATION AnalysisSpec
SYMMETRY MCSymmetry
INVARIANTS
  SweepIsPointwise
  PropagatedFitsWait
  UnscaledIsExact
  ClosureEdgesInert
  ToposortSucceeds
  CriticalPathIsLongest
  KnotsAreTraps
  IoRatioMeetsGate
CHECK_DEADLOCK FALSE
