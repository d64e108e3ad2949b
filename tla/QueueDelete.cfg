SPECIFICATION Spec
CONSTANTS
  e1 = e1  e2 = e2  e3 = e3  e4 = e4
  Events = {e1, e2, e3, e4}
  EntityOf <- MCEntityOf
  OpOf <- MCOpOf
  Faults <- NoFaults
CHECK_DEADLOCK FALSE
INVARIANT DeleteTold
