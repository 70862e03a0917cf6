SPECIFICATION Spec
CONSTANTS
    a1 = a1
    a2 = a2
    e1 = e1
    e2 = e2
    p1 = p1
    None = None
    UserIds = {a1, a2}
    Emails = {e1, e2}
    EmailOf <- Two
    TeamIds = {t1}
    Tokens = {k1}
    Passwords = {p1, p2}
    Requests = {r1, r2}
    AdminUsers = {}
    OidcEnabled = FALSE
    Workloads <- Local
SYMMETRY Symmetry
INVARIANTS InviteUsedOnce
PROPERTIES OwnerRemains
CHECK_DEADLOCK FALSE
