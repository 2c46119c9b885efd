------------------------------- MODULE Orders -------------------------------
(***************************************************************************)
(* Orders, their payments and the stock they draw on (OrdersService, and   *)
(* the two product operations that write what it reads).                   *)
(*                                                                         *)
(* A handler is one HTTP request being served.  It runs one operation,     *)
(* split at its awaits: what it read is in job[h] while other handlers     *)
(* move on.  A $transaction of the code is one step.  Ops is the traffic:  *)
(* the operations that clients, and failures, may bring about.             *)
(*                                                                         *)
(* A basket gives, for each product, the largest quantity on one of its    *)
(* lines and the total over its lines.  The code compares each line with   *)
(* the stock and deducts them all, and the request body may list a product *)
(* twice, so these are the two numbers that matter.  Who may call what is  *)
(* left out, and so are the amounts of money.                              *)
(***************************************************************************)
EXTENDS Integers, FiniteSets, FiniteSetsExt

CONSTANTS
    Handlers,       \* requests that are served at the same time
    Products,
    OrderIds,
    Carts,
    Baskets,        \* the item lists that clients send
    CartBasket,     \* what each cart holds: lines of distinct products
    InitialStock,
    MaxTotal,       \* bound: units of one product in one basket
    MaxStock,       \* bound: units of one product in stock
    Ops,
    NoOrder, NoCart

AllOps == {"create", "checkout", "updateStatus", "cancel", "processPayment",
           "updateShipping", "remove", "updateStock", "toggleActive", "fail"}

Statuses == {"PENDING", "CONFIRMED", "PROCESSING", "SHIPPED", "DELIVERED",
             "CANCELLED", "REFUNDED"}

Basket == [Products -> [most : 0 .. MaxTotal, total : 0 .. MaxTotal]]

\* Lines have a quantity of at least 1 (OrderItemDto).
WellFormed(b) ==
    \A p \in Products : /\ b[p].most <= b[p].total
                        /\ b[p].most = 0 <=> b[p].total = 0

NoLines == [p \in Products |-> [most |-> 0, total |-> 0]]

ASSUME BoundsAssumption == MaxTotal \in Nat /\ MaxStock \in Nat
ASSUME HandlersFinite == IsFiniteSet(Handlers)
ASSUME BasketsAssumption ==
    /\ \A b \in Baskets : b \in Basket /\ WellFormed(b)
    /\ CartBasket \in [Carts -> Basket]
    /\ \A c \in Carts, p \in Products : CartBasket[c][p].most = CartBasket[c][p].total
ASSUME StockAssumption == InitialStock \in [Products -> 0 .. MaxStock]
ASSUME OpsAssumption == Ops \subseteq AllOps

Order == [status : Statuses, basket : Basket, cart : Carts \cup {NoCart},
          paid : BOOLEAN, shippedAt : BOOLEAN, deliveredAt : BOOLEAN]

ASSUME SentinelsAssumption == NoOrder \notin Order /\ NoOrder \notin OrderIds /\ NoCart \notin Carts

VARIABLES
    stock,      \* Product.stock
    active,     \* the products with isActive
    orders,     \* the orders table, each row with its items and payment
    completed,  \* the carts whose status is COMPLETED; the others are ACTIVE
    at,         \* where each handler is
    job         \* what it has read

vars == <<stock, active, orders, completed, at, job>>

IdleJob == [order |-> NoOrder, basket |-> NoLines, cart |-> NoCart,
            to |-> "PENDING", todo |-> {}]

Init ==
    /\ stock = InitialStock
    /\ active = Products
    /\ orders = [o \in OrderIds |-> NoOrder]
    /\ completed = {}
    /\ at = [h \in Handlers |-> "idle"]
    /\ job = [h \in Handlers |-> IdleJob]

Placed(o) == orders[o] # NoOrder

Lines(b) == {p \in Products : b[p].total > 0}

-----------------------------------------------------------------------------
Begin(h, op, label, j) ==
    /\ op \in Ops
    /\ at[h] = "idle"
    /\ at' = [at EXCEPT ![h] = label]
    /\ job' = [job EXCEPT ![h] = j]

Goto(h, from, to) ==
    /\ at[h] = from
    /\ at' = [at EXCEPT ![h] = to]

Finish(h, from) ==
    /\ Goto(h, from, "idle")
    /\ job' = [job EXCEPT ![h] = IdleJob]

\* The row that create and createOrderFromCart insert, with its payment.
NewOrder(b, c) ==
    [status |-> "PENDING", basket |-> b, cart |-> c, paid |-> FALSE,
     shippedAt |-> FALSE, deliveredAt |-> FALSE]

InStock_Unchecked(b) == TRUE    \* mutant: no comparison with the stock

InStock(b) == \A p \in Lines(b) : stock[p] >= b[p].most

Deduct_OneLine(b) ==    \* mutant: deducts one line of each product
    stock' = [p \in Products |-> stock[p] - b[p].most]

Deduct(b) == stock' = [p \in Products |-> stock[p] - b[p].total]

-----------------------------------------------------------------------------
\* create: the products are read and each line is compared with the stock.
CreateValidate(h, b) ==
    /\ InStock(b)
    /\ Begin(h, "create", "creating", [IdleJob EXCEPT !.basket = b])
    /\ UNCHANGED <<stock, active, orders, completed>>

\* create: order, items and payment are inserted.
CreateInsert(h, o) ==
    /\ ~Placed(o)
    /\ Goto(h, "creating", "deducting")
    /\ orders' = [orders EXCEPT ![o] = NewOrder(job[h].basket, NoCart)]
    /\ UNCHANGED <<stock, active, completed, job>>

\* create: the stock is decremented, in a transaction of its own.
CreateDeduct(h) ==
    /\ Finish(h, "deducting")
    /\ Deduct(job[h].basket)
    /\ UNCHANGED <<active, orders, completed>>

\* createOrderFromCart: the cart is read with its products and validated.
CheckoutValidate(h, c) ==
    /\ c \notin completed
    /\ Lines(CartBasket[c]) # {}
    /\ Lines(CartBasket[c]) \subseteq active
    /\ InStock(CartBasket[c])
    /\ Begin(h, "checkout", "checkingOut",
             [IdleJob EXCEPT !.basket = CartBasket[c], !.cart = c])
    /\ UNCHANGED <<stock, active, orders, completed>>

CheckoutCommit_CartKept(h, o) ==    \* mutant: the cart is not completed
    /\ ~Placed(o)
    /\ Finish(h, "checkingOut")
    /\ orders' = [orders EXCEPT ![o] = NewOrder(job[h].basket, job[h].cart)]
    /\ Deduct(job[h].basket)
    /\ UNCHANGED <<active, completed>>

\* createOrderFromCart: one transaction inserts, decrements and completes.
CheckoutCommit(h, o) ==
    /\ ~Placed(o)
    /\ Finish(h, "checkingOut")
    /\ orders' = [orders EXCEPT ![o] = NewOrder(job[h].basket, job[h].cart)]
    /\ Deduct(job[h].basket)
    /\ completed' = completed \cup {job[h].cart}
    /\ UNCHANGED active

-----------------------------------------------------------------------------
\* isValidStatusTransition
ValidTransitions ==
    [PENDING    |-> {"CONFIRMED", "CANCELLED"},
     CONFIRMED  |-> {"PROCESSING", "CANCELLED"},
     PROCESSING |-> {"SHIPPED", "CANCELLED"},
     SHIPPED    |-> {"DELIVERED"},
     DELIVERED  |-> {"REFUNDED"},
     CANCELLED  |-> {},
     REFUNDED   |-> {}]

\* updateStatus: the order is read and the transition checked.
UpdateStatusRead(h, o, s) ==
    /\ Placed(o)
    /\ s \in ValidTransitions[orders[o].status]
    /\ Begin(h, "updateStatus", "settingStatus", [IdleJob EXCEPT !.order = o, !.to = s])
    /\ UNCHANGED <<stock, active, orders, completed>>

\* updateStatus: the status is written, with its time stamp.
UpdateStatusWrite(h) ==
    LET o == job[h].order
        s == job[h].to
    IN  /\ Finish(h, "settingStatus")
        /\ orders' = [orders EXCEPT
                ![o].status = s,
                ![o].shippedAt = @ \/ s = "SHIPPED",
                ![o].deliveredAt = @ \/ s = "DELIVERED"]
        /\ UNCHANGED <<stock, active, completed>>

\* cancel: the order is read and must still be open.
CancelRead(h, o) ==
    /\ Placed(o)
    /\ orders[o].status \notin {"SHIPPED", "DELIVERED", "CANCELLED"}
    /\ Begin(h, "cancel", "cancelling",
             [IdleJob EXCEPT !.order = o, !.basket = orders[o].basket,
                             !.todo = Lines(orders[o].basket)])
    /\ UNCHANGED <<stock, active, orders, completed>>

\* cancel: the stock of one item is given back, one update per item.
CancelRestore(h, p) ==
    /\ at[h] = "cancelling"
    /\ p \in job[h].todo
    /\ stock[p] + job[h].basket[p].total <= MaxStock
    /\ stock' = [stock EXCEPT ![p] = @ + job[h].basket[p].total]
    /\ job' = [job EXCEPT ![h].todo = @ \ {p}]
    /\ UNCHANGED <<active, orders, completed, at>>

\* cancel: when every item is given back the order is CANCELLED.
CancelWrite(h) ==
    /\ job[h].todo = {}
    /\ Finish(h, "cancelling")
    /\ orders' = [orders EXCEPT ![job[h].order].status = "CANCELLED"]
    /\ UNCHANGED <<stock, active, completed>>

PaymentRead_NotFound(h, o) ==    \* mutant: a missing order is not an error
    /\ Placed(o) => ~orders[o].paid
    /\ Begin(h, "processPayment", "paying", [IdleJob EXCEPT !.order = o])
    /\ UNCHANGED <<stock, active, orders, completed>>

\* processPayment: the order's payment is read and must not be PAID.
PaymentRead(h, o) ==
    /\ Placed(o)
    /\ ~orders[o].paid
    /\ Begin(h, "processPayment", "paying", [IdleJob EXCEPT !.order = o])
    /\ UNCHANGED <<stock, active, orders, completed>>

\* processPayment: the payment is marked PAID.
PaymentMark(h) ==
    /\ Goto(h, "paying", "confirmingPayment")
    /\ orders' = [orders EXCEPT ![job[h].order].paid = TRUE]
    /\ UNCHANGED <<stock, active, completed, job>>

\* processPayment: the order goes to PROCESSING.
PaymentConfirm(h) ==
    /\ Finish(h, "confirmingPayment")
    /\ orders' = [orders EXCEPT ![job[h].order].status = "PROCESSING"]
    /\ UNCHANGED <<stock, active, completed>>

UpdateShipping_NoStamp(o) ==    \* mutant: forgets shippedAt
    /\ "updateShipping" \in Ops
    /\ Placed(o)
    /\ orders' = [orders EXCEPT ![o].status = "SHIPPED"]
    /\ UNCHANGED <<stock, active, completed, at, job>>

\* updateShipping
UpdateShipping(o) ==
    /\ "updateShipping" \in Ops
    /\ Placed(o)
    /\ orders' = [orders EXCEPT ![o].status = "SHIPPED", ![o].shippedAt = TRUE]
    /\ UNCHANGED <<stock, active, completed, at, job>>

\* remove
Remove(o) ==
    /\ "remove" \in Ops
    /\ Placed(o)
    /\ orders' = [orders EXCEPT ![o].status = "CANCELLED"]
    /\ UNCHANGED <<stock, active, completed, at, job>>

-----------------------------------------------------------------------------
\* ProductsService.updateStock
UpdateStock(p, q) ==
    /\ "updateStock" \in Ops
    /\ stock' = [stock EXCEPT ![p] = q]
    /\ UNCHANGED <<active, orders, completed, at, job>>

\* ProductsService.toggleActive
ToggleActive(p) ==
    /\ "toggleActive" \in Ops
    /\ active' = IF p \in active THEN active \ {p} ELSE active \cup {p}
    /\ UNCHANGED <<stock, orders, completed, at, job>>

\* A statement of h fails, or its process dies: the request ends where it is.
Fail(h) ==
    /\ "fail" \in Ops
    /\ at[h] # "idle"
    /\ Finish(h, at[h])
    /\ UNCHANGED <<stock, active, orders, completed>>

Place(h) ==
    \/ \E b \in Baskets : CreateValidate(h, b)
    \/ \E o \in OrderIds : CreateInsert(h, o)
    \/ CreateDeduct(h)
    \/ \E c \in Carts : CheckoutValidate(h, c)
    \/ \E o \in OrderIds : CheckoutCommit(h, o)

Manage(h) ==
    \/ \E o \in OrderIds, s \in Statuses : UpdateStatusRead(h, o, s)
    \/ UpdateStatusWrite(h)
    \/ \E o \in OrderIds : CancelRead(h, o)
    \/ \E p \in Products : CancelRestore(h, p)
    \/ CancelWrite(h)
    \/ \E o \in OrderIds : PaymentRead(h, o)
    \/ PaymentMark(h)
    \/ PaymentConfirm(h)

Next ==
    \/ \E h \in Handlers : Place(h) \/ Manage(h) \/ Fail(h)
    \/ \E o \in OrderIds : UpdateShipping(o) \/ Remove(o)
    \/ \E p \in Products : ToggleActive(p) \/ \E q \in 0 .. MaxStock : UpdateStock(p, q)

Spec == Init /\ [][Next]_vars

-----------------------------------------------------------------------------
Labels == {"idle", "creating", "deducting", "checkingOut", "settingStatus",
           "cancelling", "paying", "confirmingPayment"}

Job == [order : OrderIds \cup {NoOrder}, basket : Basket, cart : Carts \cup {NoCart},
        to : Statuses, todo : SUBSET Products]

\* Every variable has its type; a handler that works on an order, or on a
\* cart, holds one that exists.
TypeOK ==
    /\ stock \in [Products -> Int]
    /\ active \in SUBSET Products
    /\ orders \in [OrderIds -> Order \cup {NoOrder}]
    /\ completed \in SUBSET Carts
    /\ at \in [Handlers -> Labels]
    /\ job \in [Handlers -> Job]
    /\ \A h \in Handlers :
        /\ at[h] \in {"settingStatus", "cancelling", "paying", "confirmingPayment"} =>
                job[h].order \in OrderIds /\ orders[job[h].order] # NoOrder
        /\ at[h] = "checkingOut" => job[h].cart \in Carts

(***************************************************************************)
(* Units of a product are neither lost nor made up: whenever no request is *)
(* being served, the stock and the orders that are not cancelled account   *)
(* for what there was at first.                                            *)
(***************************************************************************)
Quiescent == \A h \in Handlers : at[h] = "idle"
Live == {o \in OrderIds : Placed(o) /\ orders[o].status # "CANCELLED"}
Units(p) == [o \in Live |-> orders[o].basket[p].total]

StockConserved ==
    Quiescent =>
        \A p \in Products :
            stock[p] = InitialStock[p] - MapThenSumSet(LAMBDA o : Units(p)[o], Live)

(***************************************************************************)
(* create and createOrderFromCart compare the stock with the lines, await, *)
(* and decrement without comparing again, so the stock can fall below      *)
(* zero.  It falls no further than the requests that are served at the     *)
(* same time can carry it, however many orders are placed one after the    *)
(* other, and whatever stock an administrator sets meanwhile.              *)
(***************************************************************************)
OversellBounded ==
    \A p \in Products : stock[p] >= -(MaxTotal * Cardinality(Handlers))

(***************************************************************************)
(* The time stamps that getTracking turns into a history are in order,     *)
(* although updateStatus decides on a status that may be stale and         *)
(* updateShipping, processPayment and remove overwrite any status: an      *)
(* order that was delivered was shipped, one that is refunded was          *)
(* delivered.                                                              *)
(***************************************************************************)
StampsInOrder ==
    \A o \in OrderIds : Placed(o) =>
        /\ orders[o].deliveredAt => orders[o].shippedAt
        /\ orders[o].status = "SHIPPED" => orders[o].shippedAt
        /\ orders[o].status \in {"DELIVERED", "REFUNDED"} => orders[o].deliveredAt

(***************************************************************************)
(* The transaction of createOrderFromCart: wherever a request fails, a     *)
(* cart is COMPLETED exactly when an order was made of it.                 *)
(***************************************************************************)
CartCompletedWithOrder ==
    \A c \in Carts :
        c \in completed <=> \E o \in OrderIds : Placed(o) /\ orders[o].cart = c

\* A checkout converts a cart into one order.
OneOrderPerCart ==
    \A o1, o2 \in OrderIds :
        Placed(o1) /\ Placed(o2) /\ orders[o1].cart # NoCart =>
            (orders[o1].cart = orders[o2].cart => o1 = o2)

\* An order that has been shipped is not cancelled any more.
ShippedNotCancelled ==
    [][\A o \in OrderIds :
         Placed(o) /\ orders[o].status \in {"SHIPPED", "DELIVERED"} =>
            orders'[o].status # "CANCELLED"]_vars

=============================================================================
