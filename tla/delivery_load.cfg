\* Three clients of two shops: both delivery men busy, clients asked to wait.
SPECIFICATION Spec
CONSTANTS
  Threads = {t1, t2, t3}
  Nobody = Nobody
  Orders <- MCNearAndFar
  LongWait = 7
  MaxQuantity = 1
  Env = {}
SYMMETRY MCSymmetry
\* All three clients may be served.
CHECK_DEADLOCK FALSE
INVARIANTS
  UnaskedWaitBounded
  TimeLedger
  CustomerBook
  IncomeBook
PROPERTIES
  ImplementsBooks
