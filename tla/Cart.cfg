SPECIFICATION MCSpec
CONSTANTS
    Handlers = {h1, h2}
    CartIds = {c1, c2, c3}
    Products = {p1}
    MaxQty = 2
    Ops = {"get", "add", "update", "remove", "clear", "checkout", "merge", "expire", "fail"}
    NoCart = NoCart
    MaxRequests = 3
CHECK_DEADLOCK FALSE
SYMMETRY MCSymmetry
INVARIANT TypeOK
INVARIANT ActiveCartsBounded
INVARIANT QuantityWithinLimit
INVARIANT CacheOwner
INVARIANT OrderedCartCompleted
