SPECIFICATION Spec
CONSTANTS
  m1 = m1  m2 = m2
  t1 = t1  t2 = t2  t3 = t3
  c1 = c1  c2 = c2  d1 = d1  d2 = d2  n1 = n1  n2 = n2
  None = None
  Nodes = {n1, n2}
  Schedulers = {n1}
  Threads = {t1, t2, t3}
  Messages = {m1, m2}
  Teams = {c1, c2}
  Databases = {d1, d2}
  NodeOf <- MCNodeOf
  TeamOf <- MCTeamOf
  DbOf <- MCDbOf
  MaxAttempts = 2
  Faults <- NoAnswerLost
SYMMETRY Symmetry
INVARIANTS TypeOK OneOwner AtMostOnce SentWasReceived
PROPERTIES SentIsFinal ImplementsOutbox
