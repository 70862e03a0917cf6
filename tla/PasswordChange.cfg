SPECIFICATION Spec
CONSTANTS
    a1 = a1
    a2 = a2
    e1 = e1
    e2 = e2
    p1 = p1
    None = None
    UserIds = {a1}
    Emails = {e1}
    EmailOf <- One
    TeamIds = {}
    Tokens = {}
    Passwords = {p1, p2}
    Requests = {r1, r2}
    AdminUsers = {}
    OidcEnabled = FALSE
    Workloads <- Passwording
SYMMETRY Symmetry
INVARIANTS PasswordChangeEndsSessions
CHECK_DEADLOCK FALSE
