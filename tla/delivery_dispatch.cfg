\* Two clients are enough for a stale comparison of the pending times.
SPECIFICATION Spec
CONSTANTS
  Threads = {t1, t2}
  Nobody = Nobody
  Orders <- MCOneMeal
  LongWait = 30
  MaxQuantity = 2
  Env = {}
CHECK_DEADLOCK FALSE
PROPERTIES
  LeastLoaded
