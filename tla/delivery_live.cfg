\* Two clients that may go away at any moment, taking the process with them.
SPECIFICATION Spec
CONSTANTS
  Threads = {t1, t2}
  Nobody = Nobody
  Orders <- MCOneItem
  LongWait = 5
  MaxQuantity = 2
  Env = {"hangup"}
\* Both clients may be served.
CHECK_DEADLOCK FALSE
PROPERTIES
  ConfirmedServed
  AnsweredServed
