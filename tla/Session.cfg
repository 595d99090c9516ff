SPECIFICATION Spec
CONSTANTS
  MaxRuns = 2
  MaxQueue = 2
INVARIANT VerdictIsOwn
INVARIANT OneRunAtATime
PROPERTY StopEndsTheRun
PROPERTY OrphanStops
CHECK_DEADLOCK FALSE
