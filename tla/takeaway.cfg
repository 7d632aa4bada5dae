SPECIFICATION Spec
CONSTANTS
  Clients = {c1, c2}
  Nobody = Nobody
  Lines <- MCLines
  MaxLines = 3
SYMMETRY MCSymmetry
\* Every user may have left, or wait for an answer that does not come.
CHECK_DEADLOCK FALSE
INVARIANTS
  IInv
  BillMatchesOrders
  OrderShown
