SPECIFICATION Spec
CONSTANTS
  Clients = {c1, c2, c3}
  Trains = {t1, t2, t3}
  MaxOpen = 2
  MaxQueue = 2
  Terminal = Terminal
INVARIANTS IInv NoneForgotten OneTrainEach
PROPERTIES Collected AcceptedInTheEnd
CHECK_DEADLOCK FALSE
