SPECIFICATION Spec
CONSTANTS
  Clients <- MCClients
  Operation <- MCOperation
  Amount <- MCAmount
  Times <- MCTimes
  IntMax = 7
\* Every client may have ended and every connection be closed.
CHECK_DEADLOCK FALSE
INVARIANTS
  IInv
  Ledger
  PostedOnce
PROPERTIES
  StatementAddsUp
  SentIsPosted
