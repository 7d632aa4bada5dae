\* Two clients that may go away, Ctrl-C at every moment, a main that may fail.
SPECIFICATION Spec
CONSTANTS
  Threads = {t1, t2}
  Nobody = Nobody
  Orders <- MCOneCookie
  LongWait = 4
  MaxQuantity = 2
  Env = {"sigint", "fopen", "accept", "hangup"}
SYMMETRY MCSymmetry
\* A server that has exited does nothing.
CHECK_DEADLOCK FALSE
INVARIANTS
  IInv
  ReportCoversDue
  ReportSurvives
