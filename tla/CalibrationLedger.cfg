\* Two processes, two attempts, one of the processes killed at any point.
SPECIFICATION Spec
CONSTANTS
  p1 = p1  p2 = p2  r1 = r1  a1 = a1  a2 = a2
  e1 = e1  e2 = e2  e3 = e3  e4 = e4  e5 = e5  b1 = b1
  Procs = {p1, p2}
  Preregs = {r1}
  Attempts = {a1, a2}
  Manifests <- Two
  Metrics <- GoodOrFlat
  Time = {1, 2}
  MinNewValidation = 1
  MinNewTotal = 2
  MaxUpsets = 1
SYMMETRY Symmetry
CHECK_DEADLOCK FALSE
INVARIANT VerdictsEarned
INVARIANT TestReadOnce
INVARIANT LedgerInOrder
