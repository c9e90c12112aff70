CONSTANTS
  Base = 8
  Missing = Missing
  Files <- MCFiles
  Graphs <- MCGraphs
  PipeCap = 2
  MaxOut = 4
  MaxErr = 3
SPECIFICATION Spec
INVARIANTS
  ReportIsReproducible
  ReportedIsRecorded
  OutcomeIsTrue
PROPERTY
  ReportEnds
CHECK_DEADLOCK FALSE
