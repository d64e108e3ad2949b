SPECIFICATION Spec
CONSTANTS
  n1 = n1
  n2 = n2
  l1 = l1
  l2 = l2
  l3 = l3
  k1 = k1
  p1 = p1
  p2 = p2
  Nothing = Nothing
  Nodes = {n1, n2}
  Logins = {l1, l2, l3}
  Lookups = {k1}
  LastVersion = 1
  Presents <- MCPresents
  KindOf <- MCKindOf
  PasswordAt <- MCPasswordAt
  Faults = {"statement", "crash"}
SYMMETRY Symmetry
INVARIANTS
  TypeOK
  ReplacedForGood
  RowsCrossed
  TokenIsKnown
  RefusedByTheRecord
CHECK_DEADLOCK FALSE
