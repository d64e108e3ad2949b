SPECIFICATION FairSpec
CONSTANTS
  j1 = j1
  j2 = j2
  t1 = t1
  h1 = h1
  e1 = e1
  e2 = e2
  c1 = c1
  c2 = c2
  Requests <- MCRequests
  Kind <- MCKind
  Batches <- MCBatches
  Connections <- MCConnections
  Nobody = Nobody
CHECK_DEADLOCK FALSE
INVARIANTS TypeOK OnlyJobsKeep LentOnce NoHalves AnswersAreTrue
PROPERTY RequestsEnd
