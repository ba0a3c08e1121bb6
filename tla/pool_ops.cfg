\* Tasks may exec while destroy waits, and threads may fail to start: the system
\* can stop.
SPECIFICATION FairSpec
CONSTANTS
  Main = main
  Clients = {c1}
  Workers = {w1, w2, w3}
  Tasks = {k1, k2, k3}
  None = none
  SpawnMayFail = TRUE
INVARIANTS TypeOK MutualExclusion MutexHeldInside TasksConserved CountsRunning NoUseAfterDestroy DrainedStaysEmpty
PROPERTIES ImplementsTaskPool DestroyEnds AcceptedFinish
CHECK_DEADLOCK FALSE
