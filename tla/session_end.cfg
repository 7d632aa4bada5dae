\* One client of hw3_client.c.
SPECIFICATION SessionSpec
CONSTANTS
  Threads = {t1}
  Nobody = Nobody
  Orders <- MCThreeMeals
  LongWait = 4
  MaxQuantity = 4
  Env = {"hangup"}
CHECK_DEADLOCK FALSE
INVARIANTS
  LastIsArrival
