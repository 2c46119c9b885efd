SPECIFICATION Spec
CONSTANTS
    Handlers = {h1, h2}
    Users = {u1}
    NoUser = NoUser
    Decisions = {"APPROVED"}
    MaxApps = 1
    MaxUploads = 1
    MaxFaults = 0
CHECK_DEADLOCK FALSE
SYMMETRY MCSymmetry
INVARIANT RejectedStaysUser
