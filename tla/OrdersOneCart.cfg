SPECIFICATION Spec
CHECK_DEADLOCK FALSE
CONSTANTS
    Handlers = {h1, h2}
    Products = {p1}
    OrderIds = {o1, o2}
    Carts = {k1}
    Baskets <- MCBaskets
    CartBasket <- MCCartBasket
    InitialStock <- MCInitialStock
    MaxTotal = 2
    MaxStock = 3
    Ops = {"checkout"}
    NoOrder = NoOrder
    NoCart = NoCart
SYMMETRY MCSymmetry
INVARIANT OneOrderPerCart
