SPECIFICATION FairSpec
CONSTANTS
  Workers = {w1, w2}
  NQueues = 2
  Costs = {0}
  MaxTasks = 3
  MaxThrows = 1
  MaxSpurious = 1
  NoTask = NoTask
INVARIANTS
  TypeOK
  EveryTaskAccountedFor
  NoSleeperBesideATask
  ExceptionBeforeItsResult
  NothingLeftAtKill
PROPERTIES
  CallsReturn
  TasksAnswered
