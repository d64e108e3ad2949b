SPECIFICATION Spec
CONSTANTS
  c1 = c1  c2 = c2  u1 = u1  u2 = u2  s1 = s1  s2 = s2  r1 = r1  r2 = r2
  Users = {u1, u2}
  HasContact = {u1, u2}
  Contacts = {c1, c2}
  Statuses = {s1, s2}
  Given <- MCGiven
  Requests = {r1}
  MaxLate = 1
  Nobody = Nobody
  NoRole = NoRole
INVARIANTS TypeOK RolesAgree ShownIsCustomer StatusIsLogged
PROPERTY UpdateKeepsOnePrimary
SYMMETRY Symmetry
