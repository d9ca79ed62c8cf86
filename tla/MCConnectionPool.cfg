\* Four threads, two connections, two failures of the factory.  After two failed connects
\* the pool is at a halt.
SPECIFICATION FairSpec
CONSTANTS
  Clients = {c1, c2, c3, c4}
  PoolSize = 2
  MaxFaults = 2
INVARIANTS ConnectionsBounded
PROPERTIES AcquireEndsWithoutFaults
CHECK_DEADLOCK FALSE
