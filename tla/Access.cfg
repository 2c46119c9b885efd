SPECIFICATION MCSpec
CONSTANTS
    Users = {alice, bob}
    Calls = {c1, c2}
    Assignable = {"USER", "ADMIN"}
    Suspended = {bob}
    MaxTokens = 1
    Emails = {e1, e2}
    Watched = {e1}
    Ids = {i1}
    Tasks = {t1, t2}
INVARIANTS AuthorisedByStoredRole
PROPERTIES SignInMethodKept
SYMMETRY Symmetry
CHECK_DEADLOCK FALSE
