SPECIFICATION Spec
CONSTANTS
  q1 = q1
  q2 = q2
  o1 = o1
  o2 = o2
  Requests <- MCRequests
  Owners <- MCOwners
  Ids <- MCIds
  MaxItems <- MCMaxItems
CHECK_DEADLOCK FALSE
SYMMETRY Symmetry
INVARIANT TypeOK
PROPERTIES OnePrimaryLeft LastWordCounts OneDefaultLeft
