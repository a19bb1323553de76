SPECIFICATION FairSpec
CONSTANTS
  Threads = {t1, t2, t3}
  MaxAd = 3
  Conducts <- Collision
  MaxJobs = 1
  Nobody = Nobody
INVARIANTS
  TypeOK
  CountersAgree
  BarrierTasksComplete
  NoMatchLeft
PROPERTIES
  BarrierPromise
  LoopEnds
CHECK_DEADLOCK FALSE
