SPECIFICATION Spec
CHECK_DEADLOCK FALSE
CONSTANTS
    Handlers = {h1, h2, h3}
    Products = {p1}
    OrderIds = {o1}
    Carts = {k1}
    Baskets <- MCBaskets
    CartBasket <- MCCartBasket
    InitialStock <- MCInitialStock
    MaxTotal = 2
    MaxStock = 2
    Ops = {"create", "checkout", "updateStatus", "cancel", "processPayment", "updateShipping", "remove", "updateStock", "toggleActive", "fail"}
    NoOrder = NoOrder
    NoCart = NoCart
SYMMETRY MCSymmetry
INVARIANT TypeOK
INVARIANT StampsInOrder
INVARIANT CartCompletedWithOrder
