SPECIFICATION Spec
CONSTANTS
  p1 = p1
  p2 = p2
  k1 = k1
  k2 = k2
  k3 = k3
  t1 = t1
  t2 = t2
  m = m
  a = a
  rule = rule
  ProjectIds = {p1, p2}
  Slugs = {"s", "z"}
  Keys = {k1, k2, k3}
  Teams = {t1, t2}
  Users = {m, a}
  Rules = {rule}
  Requests = {1, 2}
  Managers = {m}
  Workloads <- MCWorkloads
  Clients = {1}
  Envelopes <- MCEnvelopes
  RuleTags <- MCRuleTags
  OptedIn = {m, a}
  Slots = 1
  MaxItems = 3
  MaxAttempts = 2
INVARIANTS ProjectsConsistent AcknowledgedIsStored
PROPERTIES EveryChannelTried OnlyMoveReassigns NotificationsEnd
CHECK_DEADLOCK FALSE
