\* Two threads, of one execution or two, three calls, two namespaces of two
\* checkpoints, two connections, one lock of each, one crash.
SPECIFICATION Spec
CONSTANTS
  x = x  y = y  a1 = a1  a2 = a2
  Namespaces = {1, 2}
  Ids = {1, 2}
  NoId = 0
  Tasks = {x, y}
  Actors = {a1, a2}
  Executions <- MCExecutions
  Lockers <- MCLockers
  NoActor = NoActor
  PoolSize = 2
  MaxCheckpoints = 1
  MaxCalls <- MCCalls
  WriteTargets <- MCWriteTargets
  MaxCrashes = 1
  DeleteRaces = FALSE
INVARIANTS VersionsOrdered FlushSeesItsSnapshot ReadsItsOwnPuts
PROPERTIES ImplementsStore AllOrNothing OperationsEnd
