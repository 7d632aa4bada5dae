\* One client that orders up to four items, answers as it likes and may go away.
SPECIFICATION SessionSpec
CONSTANTS
  Threads = {t1}
  Nobody = Nobody
  Orders <- MCThreeMeals
  LongWait = 4
  MaxQuantity = 4
  Env = {"hangup"}
\* The client and its thread end.
CHECK_DEADLOCK FALSE
INVARIANTS
  SessionIInv
  BillMatchesBasket
  InStep
  WaitedForArrival
PROPERTIES
  WaitIsOver
