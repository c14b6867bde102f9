SPECIFICATION Spec
CONSTANTS
  a = a  b = b  r1 = r1  r2 = r2  j1 = j1  old = old  c1 = c1  c2 = c2
  None = None
  Clients = {a, b}
  Runs = {r1, r2}
  Jobs = {j1, old}
  Legacy = {old}
  CRs = {c1, c2}
  Requests <- MCRequests
SYMMETRY Symmetry
CHECK_DEADLOCK FALSE
INVARIANTS IdentitiesAreUnique TablesAgree
PROPERTIES LifecycleKeepsHistory AnswersStayTrue
