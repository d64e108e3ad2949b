SPECIFICATION Spec
CONSTANTS
  c1 = c1  c2 = c2  u1 = u1  u2 = u2  s1 = s1  s2 = s2  r1 = r1  r2 = r2
  Users = {u1}
  HasContact = {u1}
  Contacts = {c1, c2}
  Statuses = {s1}
  Given <- MCRecruiter
  Requests = {r1, r2}
  MaxLate = 0
  Nobody = Nobody
  NoRole = NoRole
INVARIANT OneShown
