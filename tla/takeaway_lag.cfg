\* One user who types two lines.
SPECIFICATION Spec
CONSTANTS
  Clients = {c1}
  Nobody = Nobody
  Lines <- MCLines
  MaxLines = 2
CHECK_DEADLOCK FALSE
INVARIANTS
  ResponseAnswersRequest
