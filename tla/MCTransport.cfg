SPECIFICATION TransportSpec
CONSTANTS
  Context = {c1, c2, c3}
  RingCap = 2
  MaxFired = 4
  None = None
  window_ns = 1
  MaxTs = 3
  MaxEvents = 4
  NumCpus = 2
  BufCap = 2
  NoEvent = NoEvent
INVARIANTS
  EveryEventAccounted ContextOrder FooterIsTrue
  InWindowMeansSorted HeldOrHandedOn PerfEventsAccounted
PROPERTIES StopEndsRecording RingIsDrained
CHECK_DEADLOCK FALSE
