SPECIFICATION Spec
CHECK_DEADLOCK FALSE
CONSTANTS
    Handlers = {h1, h2, h3}
    Products = {p1, p2}
    OrderIds = {o1, o2, o3, o4}
    Carts = {k1, k2}
    Baskets <- MCBaskets
    CartBasket <- MCCartBasket
    InitialStock <- MCInitialStock
    MaxTotal = 2
    MaxStock = 1
    Ops = {"create", "checkout"}
    NoOrder = NoOrder
    NoCart = NoCart
SYMMETRY MCSymmetry
INVARIANT StockConserved
INVARIANT OversellBounded
