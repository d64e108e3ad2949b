SPECIFICATION FairSpec
CONSTANTS
  r1 = r1  r2 = r2  r3 = r3  c1 = c1  c2 = c2  s1 = s1  s2 = s2  n1 = n1  n2 = n2
  Absent = Absent
  Free = Free
  Nodes = {n1, n2}
  Requests = {r1, r2, r3}
  NodeOf <- MCNodeOf
  Teams = {c1, c2}
  Settings = {s1, s2}
  Faults <- AllFaults
CHECK_DEADLOCK FALSE
INVARIANTS TypeOK Coherent NeverStale LockedLookup
PROPERTIES RequestsEnd ImplementsMirror
