SPECIFICATION Spec
CONSTANTS
  Threads = {t1, t2, t3}
  MaxAd = 2
  Conducts <- Either
  MaxJobs = 1
  Nobody = Nobody
INVARIANTS
  WindDownTerminates
CHECK_DEADLOCK FALSE
