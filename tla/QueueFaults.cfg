SPECIFICATION FairSpec
CONSTANTS
  e1 = e1  e2 = e2  e3 = e3  e4 = e4
  Events = {e1, e2, e3, e4}
  EntityOf <- MCEntityOf
  OpOf <- MCOpOf
  Faults <- AllFaults
CHECK_DEADLOCK FALSE
INVARIANTS TypeOK ItemsHaveOwners NoLostUpdate
PROPERTIES EventuallyShown ImplementsChanges
