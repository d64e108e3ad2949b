SPECIFICATION FairSpec
CONSTANTS
  m1 = m1  m2 = m2
  t1 = t1  t2 = t2  t3 = t3
  c1 = c1  c2 = c2  d1 = d1  d2 = d2  n1 = n1  n2 = n2
  None = None
  Nodes = {n1}
  Schedulers = {n1}
  Threads = {t1}
  Messages = {m1}
  Teams = {c1}
  Databases = {d1}
  NodeOf <- MCNodeOf
  TeamOf <- MCTeamOf
  DbOf <- MCDbOf
  MaxAttempts = 2
  Faults <- OnlyConfig
PROPERTY FailedIsResent
