SPECIFICATION Spec
CONSTANTS
  Threads = {t1, t2}
  MaxAd = 1
  Conducts <- Either
  MaxJobs = 1
  Nobody = Nobody
INVARIANTS
  EveryonesDone
CHECK_DEADLOCK FALSE
