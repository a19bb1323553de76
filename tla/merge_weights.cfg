SPECIFICATION Spec
CONSTANTS
  t1 = t1
  t2 = t2
  Threads = {t1, t2}
  Main = t1
  PAGE_DATA_SIZE = 18
  Matrices <- Brink
  Readers <- ReadersOf
  MERGE_LEVEL_MAX = 3
  cbound_incr = 8
  target_density = 3
  WeightMod = 4096
INVARIANTS
  WeightsExact
