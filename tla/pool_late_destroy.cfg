\* Destroy is called while a task is running that calls exectask.
SPECIFICATION FairSpec
CONSTANTS
  Main = main
  Clients = {}
  Workers = {w1}
  Tasks = {k1, k2}
  None = none
  SpawnMayFail = FALSE
PROPERTY DestroyReturns
CHECK_DEADLOCK FALSE
