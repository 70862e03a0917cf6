SPECIFICATION Spec
CONSTANTS
  t1 = t1
  t2 = t2
  p1 = p1
  p2 = p2
  u1 = u1
  u2 = u2
  g = g
  None = None
  Names = {t1, t2}
  Slugs = {p1, p2}
  Users = {u1, u2}
  Groups = {g}
  Values = {"x", "y"}
  MaxKeys = 2
  Workloads <- MCWorkloads
INVARIANTS PlanSound Enforced MembersMatchGrants
PROPERTIES SyncIdempotent OrphansFrozen ProjectsKeepIdentity
