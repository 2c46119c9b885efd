SPECIFICATION MCSpec
CONSTANTS
    Handlers = {h1, h2}
    Users = {u1}
    NoUser = NoUser
    Decisions = {"APPROVED"}
    MaxApps = 2
    MaxUploads = 3
    MaxFaults = 2
    MaxWrites = 2
CHECK_DEADLOCK FALSE
SYMMETRY MCSymmetry
INVARIANT TypeOK
INVARIANT CompletedIsSeller
INVARIANT NoneLeftProcessing
INVARIANT ReviewIsOfDocument
INVARIANT AnswersCurrent
