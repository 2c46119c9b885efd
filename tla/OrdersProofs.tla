---------------------------- MODULE OrdersProofs ----------------------------
(***************************************************************************)
(* What Orders keeps for any number of concurrent requests, products,      *)
(* orders and carts, and for any traffic.                                  *)
(***************************************************************************)
EXTENDS Orders, Sums, FiniteSetTheorems, TLAPS

Placing == {"creating", "deducting", "checkingOut"}

\* The requests that have compared their lines of p with the stock and have
\* yet to deduct them.
InFlight(p) == {h \in Handlers : at[h] \in Placing /\ job[h].basket[p].total > 0}

\* The stock may be short by what the other requests have deducted.
Shortfall(p) == MaxTotal * (Cardinality(Handlers) - Cardinality(InFlight(p)))

Slack == \A p \in Products : stock[p] >= -Shortfall(p)

\* What a pending updateStatus has seen is still stamped when it writes.
PendingStamps ==
    \A h \in Handlers : at[h] = "settingStatus" =>
        /\ job[h].to = "DELIVERED" => orders[job[h].order].shippedAt
        /\ job[h].to = "REFUNDED" => orders[job[h].order].deliveredAt

-----------------------------------------------------------------------------
\* Facts about the constants that the steps below use.
LEMMA BasketFacts ==
    /\ NoLines \in Basket
    /\ IdleJob \in Job
    /\ \A c \in Carts : CartBasket[c] \in Basket
    /\ \A b \in Baskets : b \in Basket
    /\ \A b \in Basket, c \in Carts \cup {NoCart} : NewOrder(b, c) \in Order
<1>1. NoLines \in Basket
  BY BoundsAssumption DEF NoLines, Basket
<1>2. IdleJob \in Job
  BY <1>1 DEF IdleJob, Job, Statuses
<1> QED
  BY <1>1, <1>2, BasketsAssumption DEF NewOrder, Order, Statuses

\* The row that updateStatus writes.
Stamped(row, s) ==
    [row EXCEPT !.status = s, !.shippedAt = @ \/ s = "SHIPPED", !.deliveredAt = @ \/ s = "DELIVERED"]

\* It has the status; its cart stays, and its stamps are only ever set.
LEMMA StampedFacts ==
    ASSUME NEW row \in Order, NEW s \in Statuses
    PROVE  /\ Stamped(row, s) \in Order /\ Stamped(row, s).status = s
           /\ Stamped(row, s).cart = row.cart
           /\ Stamped(row, s).shippedAt = (row.shippedAt \/ s = "SHIPPED")
           /\ Stamped(row, s).deliveredAt = (row.deliveredAt \/ s = "DELIVERED")
<1> DEFINE shipped == row.shippedAt \/ s = "SHIPPED"
           delivered == row.deliveredAt \/ s = "DELIVERED"
           t == [row EXCEPT !.status = s, !.shippedAt = shipped, !.deliveredAt = delivered]
<1>1. shipped \in BOOLEAN /\ delivered \in BOOLEAN /\ Stamped(row, s) = t
  BY DEF Stamped, Order
<1> HIDE DEF shipped, delivered
<1>2. /\ t \in Order /\ t.status = s /\ t.cart = row.cart
      /\ t.shippedAt = shipped /\ t.deliveredAt = delivered
  BY <1>1 DEF Order
<1> HIDE DEF t
<1>3. QED
  BY <1>1, <1>2 DEF shipped, delivered

\* updateStatus writes that row, of an order that exists.
LEMMA UpdateStatusWritten ==
    ASSUME TypeOK, NEW h \in Handlers, UpdateStatusWrite(h)
    PROVE  /\ job[h].order \in OrderIds /\ job[h].to \in Statuses /\ at[h] = "settingStatus"
           /\ orders[job[h].order] \in Order /\ orders[job[h].order] # NoOrder
           /\ orders' = [orders EXCEPT ![job[h].order] = Stamped(orders[job[h].order], job[h].to)]
           /\ completed' = completed
<1>1. at[h] = "settingStatus" /\ completed' = completed
  BY DEF UpdateStatusWrite, Finish, Goto
<1>2. /\ job[h].order \in OrderIds /\ orders[job[h].order] \in Order
      /\ orders[job[h].order] # NoOrder
  BY <1>1 DEF TypeOK
<1>3. job[h].to \in Statuses
  BY DEF TypeOK, Job
<1>4. orders' = [orders EXCEPT ![job[h].order] = Stamped(orders[job[h].order], job[h].to)]
  BY <1>2 DEF UpdateStatusWrite, Stamped, TypeOK
<1>5. QED
  BY <1>1, <1>2, <1>3, <1>4

\* The types are right at the start.
LEMMA TypeInit == Init => TypeOK
  BY BasketFacts, StockAssumption, BoundsAssumption
     DEF Init, TypeOK, Labels

\* A handler's step to another label keeps at and job typed.
LEMMA TypeNext == TypeOK /\ [Next]_vars => TypeOK'
<1> SUFFICES ASSUME TypeOK, [Next]_vars PROVE TypeOK'
  OBVIOUS
<1> USE DEF TypeOK, Placed
<1>1. ASSUME NEW h \in Handlers, NEW b \in Baskets, CreateValidate(h, b) PROVE TypeOK'
  <2>1. [IdleJob EXCEPT !.basket = b] \in Job
    BY BasketFacts DEF IdleJob, Job
  <2> QED
    BY <1>1, <2>1 DEF CreateValidate, Begin, Labels
<1>2. ASSUME NEW h \in Handlers, NEW o \in OrderIds, CreateInsert(h, o) PROVE TypeOK'
  <2>1. NewOrder(job[h].basket, NoCart) \in Order
    BY BasketFacts DEF Job
  <2>2. NewOrder(job[h].basket, NoCart) # NoOrder
    BY <2>1, SentinelsAssumption
  <2> QED
    BY <1>2, <2>1, <2>2 DEF CreateInsert, Goto, Labels
<1>3. ASSUME NEW h \in Handlers, CreateDeduct(h) PROVE TypeOK'
  <2>1. stock' \in [Products -> Int]
    BY <1>3, BoundsAssumption DEF CreateDeduct, Deduct, Job, Basket
  <2> QED
    BY <1>3, <2>1, BasketFacts DEF CreateDeduct, Finish, Goto, Labels
<1>4. ASSUME NEW h \in Handlers, NEW c \in Carts, CheckoutValidate(h, c) PROVE TypeOK'
  <2>1. [IdleJob EXCEPT !.basket = CartBasket[c], !.cart = c] \in Job
    BY BasketFacts DEF IdleJob, Job
  <2>2. [IdleJob EXCEPT !.basket = CartBasket[c], !.cart = c].cart = c
    BY DEF IdleJob
  <2> QED
    BY <1>4, <2>1, <2>2 DEF CheckoutValidate, Begin, Labels
<1>5. ASSUME NEW h \in Handlers, NEW o \in OrderIds, CheckoutCommit(h, o) PROVE TypeOK'
  <2>1. stock' \in [Products -> Int]
    BY <1>5, BoundsAssumption DEF CheckoutCommit, Deduct, Job, Basket
  <2>2. NewOrder(job[h].basket, job[h].cart) \in Order
    BY BasketFacts DEF Job
  <2>3. NewOrder(job[h].basket, job[h].cart) # NoOrder
    BY <2>2, SentinelsAssumption
  <2>4. job[h].cart \in Carts
    BY <1>5 DEF CheckoutCommit, Finish, Goto
  <2> QED
    BY <1>5, <2>1, <2>2, <2>3, <2>4, BasketFacts DEF CheckoutCommit, Finish, Goto, Labels
<1>6. ASSUME NEW h \in Handlers, NEW o \in OrderIds, NEW s \in Statuses,
             UpdateStatusRead(h, o, s)
      PROVE TypeOK'
  <2>1. /\ [IdleJob EXCEPT !.order = o, !.to = s] \in Job
        /\ [IdleJob EXCEPT !.order = o, !.to = s].order = o
    BY BasketFacts DEF IdleJob, Job
  <2> QED
    BY <1>6, <2>1 DEF UpdateStatusRead, Begin, Labels
<1> DEFINE Rewritten(o) ==
             /\ orders[o] # NoOrder
             /\ \E r \in Order : orders' = [orders EXCEPT ![o] = r]
<1>a. ASSUME NEW o \in OrderIds, Rewritten(o)
      PROVE  /\ orders' \in [OrderIds -> Order \cup {NoOrder}]
             /\ \A q \in OrderIds : orders[q] # NoOrder => orders'[q] # NoOrder
  BY <1>a, SentinelsAssumption
<1>7. ASSUME NEW h \in Handlers, UpdateStatusWrite(h) PROVE TypeOK'
  <2>1. job[h].order \in OrderIds /\ Rewritten(job[h].order)
    BY <1>7, UpdateStatusWritten, StampedFacts
  <2>2. /\ orders' \in [OrderIds -> Order \cup {NoOrder}]
        /\ \A q \in OrderIds : orders[q] # NoOrder => orders'[q] # NoOrder
    BY <2>1, <1>a
  <2>3. /\ at' = [at EXCEPT ![h] = "idle"] /\ job' = [job EXCEPT ![h] = IdleJob]
        /\ UNCHANGED <<stock, active, completed>>
    BY <1>7 DEF UpdateStatusWrite, Finish, Goto
  <2> QED
    BY <2>2, <2>3, BasketFacts DEF Labels
<1>8. ASSUME NEW h \in Handlers, NEW o \in OrderIds, CancelRead(h, o) PROVE TypeOK'
  <2>1. orders[o].basket \in Basket /\ Lines(orders[o].basket) \in SUBSET Products
    BY <1>8 DEF CancelRead, Order, Lines
  <2> DEFINE j == [IdleJob EXCEPT !.order = o, !.basket = orders[o].basket,
                                  !.todo = Lines(orders[o].basket)]
  <2>2. j \in Job /\ j.order = o
    BY <2>1, BasketFacts DEF IdleJob, Job
  <2> QED
    BY <1>8, <2>2 DEF CancelRead, Begin, Labels
<1>9. ASSUME NEW h \in Handlers, NEW p \in Products, CancelRestore(h, p) PROVE TypeOK'
  <2>1. stock' \in [Products -> Int]
    BY <1>9, BoundsAssumption DEF CancelRestore, Job, Basket
  <2>2. /\ job' \in [Handlers -> Job]
        /\ \A k \in Handlers : job'[k].order = job[k].order /\ job'[k].cart = job[k].cart
    BY <1>9 DEF CancelRestore, Job
  <2> QED
    BY <1>9, <2>1, <2>2 DEF CancelRestore
<1>10. ASSUME NEW h \in Handlers, CancelWrite(h) PROVE TypeOK'
  <2>1. job[h].order \in OrderIds /\ orders[job[h].order] \in Order
    BY <1>10 DEF CancelWrite, Finish, Goto
  <2>2. Rewritten(job[h].order)
    BY <1>10, <2>1, SentinelsAssumption DEF CancelWrite, Order, Statuses
  <2> QED
    BY <1>10, <2>1, <2>2, <1>a, BasketFacts DEF CancelWrite, Finish, Goto, Labels
<1>11. ASSUME NEW h \in Handlers, NEW o \in OrderIds, PaymentRead(h, o) PROVE TypeOK'
  <2>1. /\ [IdleJob EXCEPT !.order = o] \in Job
        /\ [IdleJob EXCEPT !.order = o].order = o
    BY BasketFacts DEF IdleJob, Job
  <2> QED
    BY <1>11, <2>1 DEF PaymentRead, Begin, Labels
<1>12. ASSUME NEW h \in Handlers, PaymentMark(h) PROVE TypeOK'
  <2>1. job[h].order \in OrderIds /\ orders[job[h].order] \in Order
    BY <1>12 DEF PaymentMark, Goto
  <2>2. Rewritten(job[h].order)
    BY <1>12, <2>1, SentinelsAssumption DEF PaymentMark, Order
  <2> QED
    BY <1>12, <2>1, <2>2, <1>a DEF PaymentMark, Goto, Labels
<1>13. ASSUME NEW h \in Handlers, PaymentConfirm(h) PROVE TypeOK'
  <2>1. job[h].order \in OrderIds /\ orders[job[h].order] \in Order
    BY <1>13 DEF PaymentConfirm, Finish, Goto
  <2>2. Rewritten(job[h].order)
    BY <1>13, <2>1, SentinelsAssumption DEF PaymentConfirm, Order, Statuses
  <2> QED
    BY <1>13, <2>1, <2>2, <1>a, BasketFacts DEF PaymentConfirm, Finish, Goto, Labels
<1>14. ASSUME NEW h \in Handlers, Fail(h) PROVE TypeOK'
  BY <1>14, BasketFacts DEF Fail, Finish, Goto, Labels
<1>15. ASSUME NEW o \in OrderIds, UpdateShipping(o) PROVE TypeOK'
  <2>1. Rewritten(o)
    BY <1>15 DEF UpdateShipping, Order, Statuses
  <2> QED
    BY <1>15, <2>1, <1>a DEF UpdateShipping
<1>16. ASSUME NEW o \in OrderIds, Remove(o) PROVE TypeOK'
  <2>1. Rewritten(o)
    BY <1>16 DEF Remove, Order, Statuses
  <2> QED
    BY <1>16, <2>1, <1>a DEF Remove
<1>17. ASSUME NEW p \in Products, ToggleActive(p) PROVE TypeOK'
  BY <1>17 DEF ToggleActive
<1>18. ASSUME NEW p \in Products, NEW q \in 0 .. MaxStock, UpdateStock(p, q) PROVE TypeOK'
  BY <1>18, BoundsAssumption DEF UpdateStock
<1>19. CASE UNCHANGED vars
  BY <1>19 DEF vars
<1> QED
  BY <1>1, <1>2, <1>3, <1>4, <1>5, <1>6, <1>7, <1>8, <1>9, <1>10, <1>11, <1>12,
     <1>13, <1>14, <1>15, <1>16, <1>17, <1>18, <1>19
     DEF Next, Place, Manage

-----------------------------------------------------------------------------
(***************************************************************************)
(* The stock.                                                              *)
(***************************************************************************)

\* The requests in flight are among the handlers, so there is always room for
\* a shortfall of at least nothing.
LEMMA InFlightFacts ==
  ASSUME NEW p
  PROVE  /\ IsFiniteSet(InFlight(p))
         /\ Cardinality(InFlight(p)) \in Nat
         /\ Cardinality(Handlers) \in Nat
         /\ Cardinality(InFlight(p)) <= Cardinality(Handlers)
<1>1. InFlight(p) \subseteq Handlers
  BY DEF InFlight
<1> QED
  BY <1>1, HandlersFinite, FS_Subset, FS_CardinalityType

\* Multiples of a natural number.
LEMMA ScaleFacts ==
  ASSUME NEW m \in Nat, NEW k \in Nat
  PROVE  /\ m * k >= 0
         /\ m * (k + 1) = m * k + m
         /\ \A j \in Nat : j <= k => m * j <= m * k
<1>1. ASSUME NEW j \in Nat, j <= k PROVE m * j <= m * k
  <2>1. PICK d \in Nat : k = j + d
    <3>1. k - j \in Nat /\ k = j + (k - j)
      BY <1>1
    <3> QED
      BY <3>1
  <2>2. m * k = m * j + m * d /\ m * d \in Nat /\ m * j \in Nat
    BY <2>1
  <2> QED
    BY <2>2
<1> QED
  BY <1>1

\* The three ways in which a step leaves the shortfall of p covered.
LEMMA SlackKept ==
  ASSUME NEW p \in Products, TypeOK, TypeOK', stock[p] >= -Shortfall(p),
         \/ stock'[p] >= 0
         \/ stock'[p] >= stock[p] /\ InFlight(p)' \subseteq InFlight(p)
         \/ /\ stock'[p] >= stock[p] - MaxTotal
            /\ \E h \in InFlight(p) : InFlight(p)' = InFlight(p) \ {h}
  PROVE  stock'[p] >= -Shortfall(p)'
<1> DEFINE n == Cardinality(Handlers)
           v == Cardinality(InFlight(p))
           w == Cardinality(InFlight(p)')
<1>1. /\ n \in Nat /\ v \in Nat /\ w \in Nat /\ v <= n /\ w <= n
      /\ IsFiniteSet(InFlight(p))
      /\ stock[p] \in Int /\ stock'[p] \in Int /\ MaxTotal \in Nat
  <2>1. w \in Nat /\ w <= n
    <3>1. InFlight(p)' \subseteq Handlers
      BY DEF InFlight
    <3> QED
      BY <3>1, HandlersFinite, FS_Subset, FS_CardinalityType
  <2> QED
    BY <2>1, InFlightFacts, BoundsAssumption DEF TypeOK
<1>2. n - v \in Nat /\ n - w \in Nat
  BY <1>1
<1>3. stock[p] >= -(MaxTotal * (n - v))
  BY DEF Shortfall
<1>4. SUFFICES stock'[p] >= -(MaxTotal * (n - w))
  BY DEF Shortfall
<1>5. CASE stock'[p] >= 0
  <2>1. MaxTotal * (n - w) >= 0 /\ MaxTotal * (n - w) \in Int
    BY <1>1, <1>2, ScaleFacts
  <2> HIDE DEF n, v, w
  <2> QED
    BY <1>1, <1>5, <2>1
<1>6. CASE stock'[p] >= stock[p] /\ InFlight(p)' \subseteq InFlight(p)
  <2>1. w <= v
    BY <1>1, <1>6, FS_Subset
  <2> HIDE DEF n, v, w
  <2>2. n - v <= n - w
    BY <1>1, <2>1
  <2>3. MaxTotal * (n - v) <= MaxTotal * (n - w)
    BY <1>1, <1>2, <2>2, ScaleFacts
  <2>4. MaxTotal * (n - v) \in Int /\ MaxTotal * (n - w) \in Int
    BY <1>1, <1>2
  <2> QED
    BY <1>1, <1>3, <1>6, <2>3, <2>4
<1>7. ASSUME stock'[p] >= stock[p] - MaxTotal,
             NEW h \in InFlight(p), InFlight(p)' = InFlight(p) \ {h}
      PROVE  stock'[p] >= -(MaxTotal * (n - w))
  <2>1. w = v - 1
    BY <1>1, <1>7, FS_RemoveElement, ZenonT(60)
  <2> HIDE DEF n, v, w
  <2>2. n - w = (n - v) + 1
    BY <1>1, <2>1
  <2>3. MaxTotal * (n - w) = MaxTotal * (n - v) + MaxTotal
    BY <1>1, <1>2, <2>2, ScaleFacts
  <2>4. MaxTotal * (n - v) \in Int /\ MaxTotal * (n - w) \in Int
    BY <1>1, <1>2
  <2> QED
    BY <1>1, <1>3, <1>7, <2>3, <2>4
<1> QED
  BY <1>5, <1>6, <1>7

\* The slack is there at the start.
LEMMA SlackInit == Init => Slack
<1> SUFFICES ASSUME Init, NEW p \in Products PROVE stock[p] >= -Shortfall(p)
  BY DEF Slack
<1>1. stock[p] \in Nat
  BY StockAssumption, BoundsAssumption DEF Init
<1>2. Cardinality(Handlers) - Cardinality(InFlight(p)) \in Nat
  BY InFlightFacts
<1>3. Shortfall(p) \in Int /\ Shortfall(p) >= 0
  BY <1>2, ScaleFacts, BoundsAssumption DEF Shortfall
<1> QED
  BY <1>1, <1>3

\* A step in which no request starts or stops placing, and none gains lines,
\* leaves the requests in flight as they are.
LEMMA InFlightSame ==
  ASSUME \A h \in Handlers : /\ at'[h] \in Placing => at[h] \in Placing
                             /\ at'[h] \in Placing => job'[h].basket = job[h].basket
  PROVE  \A p \in Products : InFlight(p)' \subseteq InFlight(p)
  BY DEF InFlight

\* Where no unit leaves the stock and no request begins to place an order,
\* the shortfall stays covered.
LEMMA SlackBystander ==
  ASSUME TypeOK, TypeOK', Slack,
         \A h \in Handlers : /\ at'[h] \in Placing => at[h] \in Placing
                             /\ at'[h] \in Placing => job'[h].basket = job[h].basket,
         \A p \in Products : stock'[p] >= stock[p] \/ stock'[p] >= 0
  PROVE  Slack'
<1> SUFFICES ASSUME NEW p \in Products PROVE stock'[p] >= -Shortfall(p)'
  BY DEF Slack
<1>1. InFlight(p)' \subseteq InFlight(p)
  BY InFlightSame
<1>2. stock[p] >= -Shortfall(p)
  BY DEF Slack
<1> QED
  BY <1>1, <1>2, SlackKept

\* A request whose lines are all in stock may begin.
LEMMA SlackValidated ==
  ASSUME TypeOK, TypeOK', Slack, NEW h \in Handlers, NEW b \in Basket,
         \A p \in Products : b[p].total > 0 => b[p].most > 0,
         InStock(b), stock' = stock,
         at'[h] \in Placing, job'[h].basket = b, at[h] = "idle",
         \A k \in Handlers \ {h} : at'[k] = at[k] /\ job'[k] = job[k]
  PROVE  Slack'
<1> SUFFICES ASSUME NEW p \in Products PROVE stock'[p] >= -Shortfall(p)'
  BY DEF Slack
<1>1. stock[p] >= -Shortfall(p) /\ stock[p] \in Int
  BY DEF Slack, TypeOK
<1>2. CASE b[p].total > 0
  <2>1. stock[p] >= b[p].most /\ b[p].most \in Nat /\ b[p].most > 0
    BY <1>2, BoundsAssumption DEF InStock, Lines, Basket
  <2>2. stock'[p] >= 0
    BY <1>1, <2>1
  <2> QED
    BY <1>1, <2>2, SlackKept
<1>3. CASE ~(b[p].total > 0)
  <2>1. InFlight(p)' \subseteq InFlight(p)
    BY <1>3 DEF InFlight
  <2>2. stock'[p] >= stock[p]
    BY <1>1
  <2> QED
    BY <1>1, <2>1, <2>2, SlackKept
<1> QED
  BY <1>2, <1>3

\* A request that was in flight may deduct its lines.
LEMMA SlackDeducted ==
  ASSUME TypeOK, TypeOK', Slack, NEW h \in Handlers,
         at[h] \in Placing, at'[h] = "idle", Deduct(job[h].basket),
         \A k \in Handlers \ {h} : at'[k] = at[k] /\ job'[k] = job[k]
  PROVE  Slack'
<1> SUFFICES ASSUME NEW p \in Products PROVE stock'[p] >= -Shortfall(p)'
  BY DEF Slack
<1> DEFINE t == job[h].basket[p].total
<1>1. stock[p] >= -Shortfall(p) /\ stock[p] \in Int
  BY DEF Slack, TypeOK
<1>2. t \in 0 .. MaxTotal /\ stock'[p] = stock[p] - t
  BY DEF Deduct, TypeOK, Job, Basket
<1>3. InFlight(p)' = InFlight(p) \ {h}
  BY DEF InFlight, Placing
<1>4. CASE t > 0
  <2>1. h \in InFlight(p)
    BY <1>4 DEF InFlight
  <2>2. stock'[p] >= stock[p] - MaxTotal
    BY <1>1, <1>2, BoundsAssumption
  <2> QED
    BY <1>1, <1>3, <2>1, <2>2, SlackKept
<1>5. CASE ~(t > 0)
  <2>1. stock'[p] >= stock[p]
    BY <1>1, <1>2, <1>5, BoundsAssumption
  <2> QED
    BY <1>1, <1>3, <2>1, SlackKept
<1> QED
  BY <1>4, <1>5

\* Every step keeps the slack.
LEMMA SlackNext == TypeOK /\ TypeOK' /\ Slack /\ [Next]_vars => Slack'
<1> SUFFICES ASSUME TypeOK, TypeOK', Slack, [Next]_vars PROVE Slack'
  OBVIOUS
<1>a. \A p \in Products : stock[p] \in Int /\ stock[p] >= stock[p]
  BY DEF TypeOK
<1>1. ASSUME NEW h \in Handlers, NEW b \in Baskets, CreateValidate(h, b) PROVE Slack'
  <2>1. b \in Basket /\ \A p \in Products : b[p].total > 0 => b[p].most > 0
    BY BasketsAssumption DEF WellFormed, Basket
  <2>2. /\ at'[h] \in Placing /\ job'[h].basket = b /\ at[h] = "idle"
        /\ \A k \in Handlers \ {h} : at'[k] = at[k] /\ job'[k] = job[k]
    BY <1>1 DEF CreateValidate, Begin, Placing, TypeOK, IdleJob
  <2>3. InStock(b) /\ stock' = stock
    BY <1>1 DEF CreateValidate
  <2> QED
    BY <2>1, <2>2, <2>3, SlackValidated
<1>2. ASSUME NEW h \in Handlers, NEW o \in OrderIds, CreateInsert(h, o) PROVE Slack'
  BY <1>2, <1>a, SlackBystander DEF CreateInsert, Goto, Placing, TypeOK
<1>3. ASSUME NEW h \in Handlers, CreateDeduct(h) PROVE Slack'
  <2>1. /\ at[h] \in Placing /\ at'[h] = "idle" /\ Deduct(job[h].basket)
        /\ \A k \in Handlers \ {h} : at'[k] = at[k] /\ job'[k] = job[k]
    BY <1>3 DEF CreateDeduct, Finish, Goto, Placing, TypeOK
  <2> QED
    BY <2>1, SlackDeducted
<1>4. ASSUME NEW h \in Handlers, NEW c \in Carts, CheckoutValidate(h, c) PROVE Slack'
  <2> DEFINE b == CartBasket[c]
  <2>1. b \in Basket /\ \A p \in Products : b[p].total > 0 => b[p].most > 0
    BY BasketsAssumption DEF Basket
  <2>2. /\ at'[h] \in Placing /\ job'[h].basket = b /\ at[h] = "idle"
        /\ \A k \in Handlers \ {h} : at'[k] = at[k] /\ job'[k] = job[k]
    BY <1>4 DEF CheckoutValidate, Begin, Placing, TypeOK, IdleJob
  <2>3. InStock(b) /\ stock' = stock
    BY <1>4 DEF CheckoutValidate
  <2> QED
    BY <2>1, <2>2, <2>3, SlackValidated
<1>5. ASSUME NEW h \in Handlers, NEW o \in OrderIds, CheckoutCommit(h, o) PROVE Slack'
  <2>1. /\ at[h] \in Placing /\ at'[h] = "idle" /\ Deduct(job[h].basket)
        /\ \A k \in Handlers \ {h} : at'[k] = at[k] /\ job'[k] = job[k]
    BY <1>5 DEF CheckoutCommit, Finish, Goto, Placing, TypeOK
  <2> QED
    BY <2>1, SlackDeducted
<1>6. ASSUME NEW h \in Handlers, Manage(h) PROVE Slack'
  <2>1. \A k \in Handlers : /\ at'[k] \in Placing => at[k] \in Placing
                            /\ at'[k] \in Placing => job'[k].basket = job[k].basket
    <3>1. \/ \E label \in Labels \ Placing : at' = [at EXCEPT ![h] = label]
          \/ at' = at /\ at[h] \notin Placing
      BY <1>6 DEF Manage, UpdateStatusRead, UpdateStatusWrite, CancelRead, CancelRestore,
         CancelWrite, PaymentRead, PaymentMark, PaymentConfirm, Begin, Goto, Finish,
         Placing, Labels
    <3>2. job' = job \/ \E j : job' = [job EXCEPT ![h] = j]
      BY <1>6 DEF Manage, UpdateStatusRead, UpdateStatusWrite, CancelRead, CancelRestore,
         CancelWrite, PaymentRead, PaymentMark, PaymentConfirm, Begin, Finish
    <3> QED
      BY <3>1, <3>2 DEF TypeOK
  <2>2. \A p \in Products : stock'[p] >= stock[p]
    <3>1. ASSUME NEW p \in Products, CancelRestore(h, p)
          PROVE \A q \in Products : stock'[q] >= stock[q]
      BY <3>1, BoundsAssumption DEF CancelRestore, TypeOK, Job, Basket
    <3>2. CASE stock' = stock
      BY <3>2, <1>a
    <3>3. stock' = stock \/ \E p \in Products : CancelRestore(h, p)
      BY <1>6, Zenon DEF Manage, UpdateStatusRead, UpdateStatusWrite, CancelRead,
         CancelWrite, PaymentRead, PaymentMark, PaymentConfirm
    <3> QED
      BY <3>1, <3>2, <3>3
  <2> QED
    BY <2>1, <2>2, SlackBystander
<1>7. ASSUME NEW h \in Handlers, Fail(h) PROVE Slack'
  BY <1>7, <1>a, SlackBystander DEF Fail, Finish, Goto, Placing, TypeOK
<1>8. ASSUME NEW o \in OrderIds, UpdateShipping(o) \/ Remove(o) PROVE Slack'
  BY <1>8, <1>a, SlackBystander DEF UpdateShipping, Remove
<1>9. ASSUME NEW p \in Products, ToggleActive(p) PROVE Slack'
  BY <1>9, <1>a, SlackBystander DEF ToggleActive
<1>10. ASSUME NEW p \in Products, NEW q \in 0 .. MaxStock, UpdateStock(p, q) PROVE Slack'
  <2>1. \A r \in Products : stock'[r] >= stock[r] \/ stock'[r] >= 0
    BY <1>10, <1>a, BoundsAssumption DEF UpdateStock, TypeOK
  <2> QED
    BY <1>10, <2>1, SlackBystander DEF UpdateStock
<1>11. CASE UNCHANGED vars
  BY <1>11, <1>a, SlackBystander DEF vars
<1> QED
  BY <1>1, <1>2, <1>3, <1>4, <1>5, <1>6, <1>7, <1>8, <1>9, <1>10, <1>11 DEF Next, Place

-----------------------------------------------------------------------------
(***************************************************************************)
(* The time stamps and the carts.                                          *)
(***************************************************************************)

\* What the steps on orders have in common: one order is rewritten; its stamps
\* are only ever set, its cart stays, and its status has the stamps it needs.
Restamped(o) ==
    /\ orders[o] # NoOrder /\ orders'[o] # NoOrder
    /\ \A q \in OrderIds \ {o} : orders'[q] = orders[q]
    /\ orders'[o].cart = orders[o].cart
    /\ orders[o].shippedAt => orders'[o].shippedAt
    /\ orders[o].deliveredAt => orders'[o].deliveredAt
    /\ orders'[o].deliveredAt => orders'[o].shippedAt
    /\ orders'[o].status = "SHIPPED" => orders'[o].shippedAt
    /\ orders'[o].status \in {"DELIVERED", "REFUNDED"} => orders'[o].deliveredAt

Inserted(o, c) ==
    /\ orders[o] = NoOrder
    /\ \E b \in Basket : orders' = [orders EXCEPT ![o] = NewOrder(b, c)]

\* Each step leaves the orders alone, inserts one or restamps one.
LEMMA OrderSteps ==
  ASSUME TypeOK, TypeOK', StampsInOrder, PendingStamps, [Next]_vars
  PROVE  \/ orders' = orders /\ completed' = completed
         \/ \E o \in OrderIds : Restamped(o) /\ completed' = completed
         \/ \E o \in OrderIds : Inserted(o, NoCart) /\ completed' = completed
         \/ \E o \in OrderIds, c \in Carts : Inserted(o, c) /\ completed' = completed \cup {c}
<1> USE DEF Placed
<1>1. ASSUME NEW h \in Handlers, NEW o \in OrderIds, CreateInsert(h, o)
      PROVE  Inserted(o, NoCart) /\ completed' = completed
  BY <1>1 DEF CreateInsert, Inserted, TypeOK, Job
<1>2. ASSUME NEW h \in Handlers, NEW o \in OrderIds, CheckoutCommit(h, o)
      PROVE  \E c \in Carts : Inserted(o, c) /\ completed' = completed \cup {c}
  BY <1>2 DEF CheckoutCommit, Inserted, Finish, Goto, TypeOK, Job
<1>3. ASSUME NEW h \in Handlers, UpdateStatusWrite(h)
      PROVE  \E o \in OrderIds : Restamped(o) /\ completed' = completed
  <2> DEFINE o == job[h].order
             s == job[h].to
             r == Stamped(orders[o], s)
  <2>1. /\ o \in OrderIds /\ s \in Statuses /\ at[h] = "settingStatus"
        /\ orders[o] \in Order /\ orders[o] # NoOrder
        /\ orders' = [orders EXCEPT ![o] = r] /\ completed' = completed
    BY <1>3, UpdateStatusWritten
  <2>2. /\ s = "DELIVERED" => orders[o].shippedAt
        /\ s = "REFUNDED" => orders[o].deliveredAt
        /\ orders[o].deliveredAt => orders[o].shippedAt
    BY <2>1 DEF PendingStamps, StampsInOrder
  <2>3. orders'[o] = r /\ \A q \in OrderIds \ {o} : orders'[q] = orders[q]
    BY <2>1 DEF TypeOK
  <2> HIDE DEF o, s
  <2>4. /\ r \in Order /\ r.status = s /\ r.cart = orders[o].cart
        /\ r.shippedAt = (orders[o].shippedAt \/ s = "SHIPPED")
        /\ r.deliveredAt = (orders[o].deliveredAt \/ s = "DELIVERED")
    BY <2>1, StampedFacts
  <2> HIDE DEF r
  <2>5. r # NoOrder
    BY <2>4, SentinelsAssumption
  <2>6. Restamped(o)
    BY <2>1, <2>2, <2>3, <2>4, <2>5 DEF Restamped
  <2> QED
    BY <2>1, <2>6
<1>4. ASSUME NEW h \in Handlers, CancelWrite(h)
      PROVE  \E o \in OrderIds : Restamped(o) /\ completed' = completed
  <2> DEFINE o == job[h].order
  <2>1. o \in OrderIds /\ orders[o] \in Order /\ orders[o] # NoOrder
    BY <1>4 DEF CancelWrite, Finish, Goto, TypeOK
  <2>2. \E r \in Order : orders' = [orders EXCEPT ![o] = r]
    BY <1>4, <2>1 DEF CancelWrite, TypeOK, Order, Statuses
  <2>3. orders'[o] # NoOrder
    BY <2>1, <2>2, SentinelsAssumption DEF TypeOK
  <2>4. Restamped(o)
    BY <1>4, <2>1, <2>3 DEF CancelWrite, TypeOK, Order, Restamped, StampsInOrder
  <2> QED
    BY <1>4, <2>1, <2>4 DEF CancelWrite
<1>5. ASSUME NEW h \in Handlers, PaymentMark(h)
      PROVE  \E o \in OrderIds : Restamped(o) /\ completed' = completed
  <2> DEFINE o == job[h].order
  <2>1. o \in OrderIds /\ orders[o] \in Order /\ orders[o] # NoOrder
    BY <1>5 DEF PaymentMark, Goto, TypeOK
  <2>2. \E r \in Order : orders' = [orders EXCEPT ![o] = r]
    BY <1>5, <2>1 DEF PaymentMark, TypeOK, Order, Statuses
  <2>3. orders'[o] # NoOrder
    BY <2>1, <2>2, SentinelsAssumption DEF TypeOK
  <2>4. Restamped(o)
    BY <1>5, <2>1, <2>3 DEF PaymentMark, TypeOK, Order, Restamped, StampsInOrder
  <2> QED
    BY <1>5, <2>1, <2>4 DEF PaymentMark
<1>6. ASSUME NEW h \in Handlers, PaymentConfirm(h)
      PROVE  \E o \in OrderIds : Restamped(o) /\ completed' = completed
  <2> DEFINE o == job[h].order
  <2>1. o \in OrderIds /\ orders[o] \in Order /\ orders[o] # NoOrder
    BY <1>6 DEF PaymentConfirm, Finish, Goto, TypeOK
  <2>2. \E r \in Order : orders' = [orders EXCEPT ![o] = r]
    BY <1>6, <2>1 DEF PaymentConfirm, TypeOK, Order, Statuses
  <2>3. orders'[o] # NoOrder
    BY <2>1, <2>2, SentinelsAssumption DEF TypeOK
  <2>4. Restamped(o)
    BY <1>6, <2>1, <2>3 DEF PaymentConfirm, TypeOK, Order, Restamped, StampsInOrder
  <2> QED
    BY <1>6, <2>1, <2>4 DEF PaymentConfirm
<1>7. ASSUME NEW o \in OrderIds, UpdateShipping(o)
      PROVE  Restamped(o) /\ completed' = completed
  <2>1. orders[o] \in Order /\ orders[o] # NoOrder
    BY <1>7 DEF UpdateShipping, TypeOK
  <2> DEFINE r == [orders[o] EXCEPT !.status = "SHIPPED", !.shippedAt = TRUE]
  <2>2. r \in Order /\ orders' = [orders EXCEPT ![o] = r]
    BY <1>7, <2>1 DEF UpdateShipping, TypeOK, Order, Statuses
  <2>3. orders'[o] # NoOrder
    BY <2>1, <2>2, SentinelsAssumption DEF TypeOK
  <2> QED
    BY <1>7, <2>1, <2>3 DEF UpdateShipping, TypeOK, Order, Restamped, StampsInOrder
<1>8. ASSUME NEW o \in OrderIds, Remove(o)
      PROVE  Restamped(o) /\ completed' = completed
  <2>1. orders[o] \in Order /\ orders[o] # NoOrder
    BY <1>8 DEF Remove, TypeOK
  <2>2. \E r \in Order : orders' = [orders EXCEPT ![o] = r]
    BY <1>8, <2>1 DEF Remove, TypeOK, Order, Statuses
  <2>3. orders'[o] # NoOrder
    BY <2>1, <2>2, SentinelsAssumption DEF TypeOK
  <2> QED
    BY <1>8, <2>1, <2>3 DEF Remove, TypeOK, Order, Restamped, StampsInOrder
<1> DEFINE Kept == orders' = orders /\ completed' = completed
<1>9. ASSUME NEW h \in Handlers, Place(h)
      PROVE  \/ Kept
             \/ \E o \in OrderIds : CreateInsert(h, o)
             \/ \E o \in OrderIds : CheckoutCommit(h, o)
  BY <1>9 DEF Place, CreateValidate, CreateDeduct, CheckoutValidate
<1>10. ASSUME NEW h \in Handlers, Manage(h)
       PROVE  Kept \/ UpdateStatusWrite(h) \/ CancelWrite(h) \/ PaymentMark(h) \/ PaymentConfirm(h)
  BY <1>10 DEF Manage, UpdateStatusRead, CancelRead, CancelRestore, PaymentRead
<1>11. ASSUME NEW h \in Handlers, Fail(h) PROVE Kept
  BY <1>11 DEF Fail
<1>12. ASSUME NEW p \in Products, ToggleActive(p) PROVE Kept
  BY <1>12 DEF ToggleActive
<1>13. ASSUME NEW p \in Products, NEW q \in 0 .. MaxStock, UpdateStock(p, q) PROVE Kept
  BY <1>13 DEF UpdateStock
<1>14. CASE UNCHANGED vars
  BY <1>14 DEF vars
<1> QED
  BY <1>1, <1>2, <1>3, <1>4, <1>5, <1>6, <1>7, <1>8, <1>9, <1>10, <1>11, <1>12, <1>13, <1>14
     DEF Next

\* A row that was just inserted carries its cart and no stamps.
LEMMA InsertedFacts ==
  ASSUME TypeOK, NEW o \in OrderIds, NEW c \in Carts \cup {NoCart}, Inserted(o, c)
  PROVE  /\ orders'[o] # NoOrder /\ orders'[o].cart = c
         /\ orders'[o].status = "PENDING" /\ orders'[o].deliveredAt = FALSE
         /\ \A q \in OrderIds \ {o} : orders'[q] = orders[q]
<1>1. PICK b \in Basket : orders' = [orders EXCEPT ![o] = NewOrder(b, c)]
  BY DEF Inserted
<1>2. NewOrder(b, c) \in Order
  BY BasketFacts
<1> QED
  BY <1>1, <1>2, SentinelsAssumption DEF NewOrder, TypeOK

\* The order of the stamps survives every overwrite of a status.
LEMMA StampsNext ==
  TypeOK /\ TypeOK' /\ StampsInOrder /\ PendingStamps /\ [Next]_vars => StampsInOrder'
<1> SUFFICES ASSUME TypeOK, TypeOK', StampsInOrder, PendingStamps, [Next]_vars,
                    NEW q \in OrderIds, orders'[q] # NoOrder
             PROVE  /\ orders'[q].deliveredAt => orders'[q].shippedAt
                    /\ orders'[q].status = "SHIPPED" => orders'[q].shippedAt
                    /\ orders'[q].status \in {"DELIVERED", "REFUNDED"} => orders'[q].deliveredAt
  BY DEF StampsInOrder, Placed
<1>1. CASE orders'[q] = orders[q]
  BY <1>1 DEF StampsInOrder, Placed
<1>2. CASE Restamped(q)
  BY <1>2 DEF Restamped
<1>3. ASSUME NEW c \in Carts \cup {NoCart}, Inserted(q, c)
      PROVE  orders'[q].status = "PENDING" /\ orders'[q].deliveredAt = FALSE
  BY <1>3, InsertedFacts
<1>4. ASSUME NEW o \in OrderIds, o # q, Restamped(o) PROVE orders'[q] = orders[q]
  BY <1>4 DEF Restamped
<1>5. ASSUME NEW o \in OrderIds, o # q, NEW c \in Carts \cup {NoCart}, Inserted(o, c)
      PROVE  orders'[q] = orders[q]
  BY <1>5, InsertedFacts
<1> QED
  BY <1>1, <1>2, <1>3, <1>4, <1>5, OrderSteps

\* No step clears a stamp of an order that exists.
LEMMA StampsGrow ==
  ASSUME TypeOK, TypeOK', StampsInOrder, PendingStamps, [Next]_vars,
         NEW q \in OrderIds, orders[q] # NoOrder
  PROVE  /\ orders[q].shippedAt => orders'[q].shippedAt
         /\ orders[q].deliveredAt => orders'[q].deliveredAt
<1>1. ASSUME NEW o \in OrderIds, Restamped(o)
      PROVE  orders'[q] = orders[q] \/ Restamped(q)
  BY <1>1 DEF Restamped
<1>2. ASSUME NEW o \in OrderIds, NEW c \in Carts \cup {NoCart}, Inserted(o, c)
      PROVE  orders'[q] = orders[q]
  BY <1>2, InsertedFacts DEF Inserted
<1>3. orders'[q] = orders[q] \/ Restamped(q)
  BY <1>1, <1>2, OrderSteps
<1> QED
  BY <1>3 DEF Restamped

\* A step of a handler that does not begin updateStatus.
Elsewhere(h) ==
    /\ \/ \E label \in Labels \ {"settingStatus"} : at' = [at EXCEPT ![h] = label]
       \/ at' = at /\ at[h] # "settingStatus"
    /\ job' = job \/ \E j : job' = [job EXCEPT ![h] = j]

\* It leaves alone who is about to set a status.
LEMMA ElsewhereKeeps ==
  ASSUME TypeOK, NEW h \in Handlers, NEW k \in Handlers, at'[k] = "settingStatus", Elsewhere(h)
  PROVE  at[k] = "settingStatus" /\ job'[k] = job[k]
<1>1. h # k /\ at[k] = "settingStatus"
  BY DEF Elsewhere, TypeOK
<1> QED
  BY <1>1 DEF Elsewhere, TypeOK

\* Requests that place orders are such steps.
LEMMA PlaceElsewhere ==
  ASSUME NEW h, Place(h)
  PROVE  Elsewhere(h)
<1>1. "idle" \in Labels \ {"settingStatus"} /\ "creating" \in Labels \ {"settingStatus"}
      /\ "deducting" \in Labels \ {"settingStatus"} /\ "checkingOut" \in Labels \ {"settingStatus"}
  BY DEF Labels
<1>2. ASSUME NEW b \in Baskets, CreateValidate(h, b) PROVE Elsewhere(h)
  BY <1>1, <1>2, Zenon DEF CreateValidate, Begin, Elsewhere
<1>3. ASSUME NEW o \in OrderIds, CreateInsert(h, o) PROVE Elsewhere(h)
  BY <1>1, <1>3, Zenon DEF CreateInsert, Goto, Elsewhere
<1>4. CASE CreateDeduct(h)
  BY <1>1, <1>4, Zenon DEF CreateDeduct, Finish, Goto, Elsewhere
<1>5. ASSUME NEW c \in Carts, CheckoutValidate(h, c) PROVE Elsewhere(h)
  BY <1>1, <1>5, Zenon DEF CheckoutValidate, Begin, Elsewhere
<1>6. ASSUME NEW o \in OrderIds, CheckoutCommit(h, o) PROVE Elsewhere(h)
  BY <1>1, <1>6, Zenon DEF CheckoutCommit, Finish, Goto, Elsewhere
<1> QED
  BY <1>2, <1>3, <1>4, <1>5, <1>6 DEF Place

\* So are those that manage them, the first half of updateStatus excepted.
LEMMA ManageElsewhere ==
  ASSUME NEW h, Manage(h), ~\E o \in OrderIds, s \in Statuses : UpdateStatusRead(h, o, s)
  PROVE  Elsewhere(h)
<1>1. "idle" \in Labels \ {"settingStatus"} /\ "cancelling" \in Labels \ {"settingStatus"}
      /\ "paying" \in Labels \ {"settingStatus"} /\ "confirmingPayment" \in Labels \ {"settingStatus"}
  BY DEF Labels
<1>2. CASE UpdateStatusWrite(h)
  BY <1>1, <1>2, Zenon DEF UpdateStatusWrite, Finish, Goto, Elsewhere
<1>3. ASSUME NEW o \in OrderIds, CancelRead(h, o) PROVE Elsewhere(h)
  BY <1>1, <1>3, Zenon DEF CancelRead, Begin, Elsewhere
<1>4. ASSUME NEW p \in Products, CancelRestore(h, p) PROVE Elsewhere(h)
  BY <1>4 DEF CancelRestore, Elsewhere
<1>5. CASE CancelWrite(h)
  BY <1>1, <1>5, Zenon DEF CancelWrite, Finish, Goto, Elsewhere
<1>6. ASSUME NEW o \in OrderIds, PaymentRead(h, o) PROVE Elsewhere(h)
  BY <1>1, <1>6, Zenon DEF PaymentRead, Begin, Elsewhere
<1>7. CASE PaymentMark(h)
  BY <1>1, <1>7, Zenon DEF PaymentMark, Goto, Elsewhere
<1>8. CASE PaymentConfirm(h)
  BY <1>1, <1>8, Zenon DEF PaymentConfirm, Finish, Goto, Elsewhere
<1> QED
  BY <1>2, <1>3, <1>4, <1>5, <1>6, <1>7, <1>8 DEF Manage

\* What a pending updateStatus has seen stays stamped.
LEMMA PendingNext ==
  TypeOK /\ TypeOK' /\ StampsInOrder /\ PendingStamps /\ [Next]_vars => PendingStamps'
<1> SUFFICES ASSUME TypeOK, TypeOK', StampsInOrder, PendingStamps, [Next]_vars,
                    NEW k \in Handlers, at'[k] = "settingStatus"
             PROVE  /\ job'[k].to = "DELIVERED" => orders'[job'[k].order].shippedAt
                    /\ job'[k].to = "REFUNDED" => orders'[job'[k].order].deliveredAt
  BY DEF PendingStamps
<1>1. CASE at[k] = "settingStatus" /\ job'[k] = job[k]
  <2>1. job[k].order \in OrderIds /\ orders[job[k].order] # NoOrder
    BY <1>1 DEF TypeOK
  <2> QED
    BY <1>1, <2>1, StampsGrow DEF PendingStamps
<1>2. ASSUME NEW o \in OrderIds, NEW s \in Statuses, UpdateStatusRead(k, o, s)
      PROVE  /\ job'[k].to = "DELIVERED" => orders'[job'[k].order].shippedAt
             /\ job'[k].to = "REFUNDED" => orders'[job'[k].order].deliveredAt
  <2>1. job'[k].to = s /\ job'[k].order = o /\ orders' = orders
    BY <1>2 DEF UpdateStatusRead, Begin, IdleJob, TypeOK
  <2>2. orders[o] # NoOrder /\ s \in ValidTransitions[orders[o].status]
    BY <1>2 DEF UpdateStatusRead, Placed
  <2>3. orders[o].status \in Statuses
    BY <2>2 DEF TypeOK, Order
  <2>4. /\ s = "DELIVERED" => orders[o].status = "SHIPPED"
        /\ s = "REFUNDED" => orders[o].status = "DELIVERED"
    BY <2>2, <2>3 DEF ValidTransitions, Statuses
  <2>5. /\ orders[o].status = "SHIPPED" => orders[o].shippedAt
        /\ orders[o].status = "DELIVERED" => orders[o].deliveredAt
    BY <2>2 DEF StampsInOrder, Placed
  <2> QED
    BY <2>1, <2>4, <2>5
<1>3. \/ at[k] = "settingStatus" /\ job'[k] = job[k]
      \/ \E o \in OrderIds, s \in Statuses : UpdateStatusRead(k, o, s)
  <2>1. CASE at' = at /\ job' = job
    BY <2>1
  <2>2. ASSUME NEW h \in Handlers, Place(h) PROVE at[k] = "settingStatus" /\ job'[k] = job[k]
    BY <2>2, PlaceElsewhere, ElsewhereKeeps
  <2>3. ASSUME NEW h \in Handlers, Manage(h)
        PROVE  \/ at[k] = "settingStatus" /\ job'[k] = job[k]
               \/ \E o \in OrderIds, s \in Statuses : UpdateStatusRead(k, o, s)
    <3>1. ASSUME NEW o \in OrderIds, NEW s \in Statuses, UpdateStatusRead(h, o, s), h # k
          PROVE  at[k] = "settingStatus" /\ job'[k] = job[k]
      BY <3>1 DEF UpdateStatusRead, Begin, TypeOK
    <3> QED
      BY <2>3, <3>1, ManageElsewhere, ElsewhereKeeps
  <2>4. ASSUME NEW h \in Handlers, Fail(h) PROVE at[k] = "settingStatus" /\ job'[k] = job[k]
    BY <2>4 DEF Fail, Goto, Finish, TypeOK
  <2> QED
    BY <2>1, <2>2, <2>3, <2>4 DEF Next, UpdateShipping, Remove, ToggleActive, UpdateStock, vars
<1> QED
  BY <1>1, <1>2, <1>3

\* A cart is completed by the step that inserts its order.
LEMMA CartsNext ==
  TypeOK /\ TypeOK' /\ StampsInOrder /\ PendingStamps /\ CartCompletedWithOrder /\ [Next]_vars
    => CartCompletedWithOrder'
<1> SUFFICES ASSUME TypeOK, TypeOK', StampsInOrder, PendingStamps, CartCompletedWithOrder,
                    [Next]_vars, NEW k \in Carts
             PROVE  k \in completed' <=>
                      \E o \in OrderIds : orders'[o] # NoOrder /\ orders'[o].cart = k
  BY DEF CartCompletedWithOrder, Placed
<1>1. k \in completed <=> \E o \in OrderIds : orders[o] # NoOrder /\ orders[o].cart = k
  BY DEF CartCompletedWithOrder, Placed
<1>2. CASE orders' = orders /\ completed' = completed
  BY <1>1, <1>2
<1>3. ASSUME NEW o \in OrderIds, Restamped(o), completed' = completed
      PROVE  k \in completed' <=>
               \E q \in OrderIds : orders'[q] # NoOrder /\ orders'[q].cart = k
  BY <1>1, <1>3 DEF Restamped
<1>4. ASSUME NEW o \in OrderIds, NEW c \in Carts \cup {NoCart}, Inserted(o, c),
             completed' = completed \cup ({c} \ {NoCart})
      PROVE  k \in completed' <=>
               \E q \in OrderIds : orders'[q] # NoOrder /\ orders'[q].cart = k
  <2>1. /\ orders'[o] # NoOrder /\ orders'[o].cart = c /\ orders[o] = NoOrder
        /\ \A q \in OrderIds \ {o} : orders'[q] = orders[q]
    BY <1>4, InsertedFacts DEF Inserted
  <2>2. k # NoCart
    BY SentinelsAssumption
  <2> QED
    BY <1>1, <1>4, <2>1, <2>2
<1>5. \A c \in Carts : {c} \ {NoCart} = {c}
  BY SentinelsAssumption
<1> QED
  BY <1>2, <1>3, <1>4, <1>5, OrderSteps

-----------------------------------------------------------------------------
Inv == TypeOK /\ Slack /\ StampsInOrder /\ PendingStamps /\ CartCompletedWithOrder

\* The invariant holds at the start.
LEMMA InvInit == Init => Inv
<1> SUFFICES ASSUME Init PROVE Inv
  OBVIOUS
<1>1. StampsInOrder /\ PendingStamps /\ CartCompletedWithOrder
  BY DEF Init, StampsInOrder, PendingStamps, CartCompletedWithOrder, Placed
<1> QED
  BY <1>1, TypeInit, SlackInit DEF Inv

\* Every step keeps the invariant.
LEMMA InvNext == Inv /\ [Next]_vars => Inv'
  BY TypeNext, SlackNext, StampsNext, PendingNext, CartsNext DEF Inv

\* The variables keep their types, and no handler works on an order or a cart
\* that does not exist.
THEOREM TypeCorrect == Spec => []TypeOK
<1>1. Inv => TypeOK
  BY DEF Inv
<1> QED
  BY <1>1, InvInit, InvNext, PTL DEF Spec

\* However many orders are placed, overselling is bounded by what the requests
\* served at the same time can carry.
THEOREM OversellAlwaysBounded == Spec => []OversellBounded
<1>1. Inv => OversellBounded
  <2> SUFFICES ASSUME Inv, NEW p \in Products
               PROVE  stock[p] >= -(MaxTotal * Cardinality(Handlers))
    BY DEF OversellBounded
  <2> DEFINE n == Cardinality(Handlers)
             v == Cardinality(InFlight(p))
  <2>1. /\ n \in Nat /\ v \in Nat /\ v <= n /\ MaxTotal \in Nat
        /\ stock[p] \in Int /\ stock[p] >= -(MaxTotal * (n - v))
    BY InFlightFacts, BoundsAssumption DEF Inv, TypeOK, Slack, Shortfall
  <2> HIDE DEF n, v
  <2>2. n - v \in Nat /\ n - v <= n
    BY <2>1
  <2>3. MaxTotal * (n - v) <= MaxTotal * n
    BY <2>1, <2>2, ScaleFacts
  <2>4. MaxTotal * (n - v) \in Int /\ MaxTotal * n \in Int
    BY <2>1, <2>2
  <2>5. stock[p] >= -(MaxTotal * n)
    BY <2>1, <2>3, <2>4
  <2> QED
    BY <2>5 DEF n
<1> QED
  BY <1>1, InvInit, InvNext, PTL DEF Spec

\* Stale reads and unconditional overwrites of the status notwithstanding, a
\* delivered order was shipped and a refunded one delivered.
THEOREM StampsAlwaysInOrder == Spec => []StampsInOrder
<1>1. Inv => StampsInOrder
  BY DEF Inv
<1> QED
  BY <1>1, InvInit, InvNext, PTL DEF Spec

\* A cart is COMPLETED exactly when an order was made of it, wherever requests
\* fail.
THEOREM CartsAlwaysCompletedWithOrder == Spec => []CartCompletedWithOrder
<1>1. Inv => CartCompletedWithOrder
  BY DEF Inv
<1> QED
  BY <1>1, InvInit, InvNext, PTL DEF Spec

-----------------------------------------------------------------------------
(***************************************************************************)
(* The account of the stock.  It is kept by the traffic that places, pays  *)
(* and ships; cancel, remove, updateStatus, updateStock and failures break *)
(* it, each in its way.                                                    *)
(***************************************************************************)
Keeping == {"create", "checkout", "processPayment", "updateShipping", "toggleActive"}

\* What a request has inserted and has yet to deduct.
Owed(p) == [h \in Handlers |-> IF at[h] = "deducting" THEN job[h].basket[p].total ELSE 0]

Balanced(p) == stock[p] = InitialStock[p] - Total(Units(p), Live) + Total(Owed(p), Handlers)

\* No request is about to change a status to CANCELLED, or to give stock back.
NoneCancels == \A h \in Handlers : at[h] \notin {"settingStatus", "cancelling"}

Account == /\ TypeOK /\ NoneCancels /\ IsFiniteSet(Live)
           /\ \A p \in Products : Balanced(p)

\* The sums are over numbers.
Counted == \A p \in Products : /\ \A o \in Live : Units(p)[o] \in Nat
                               /\ \A h \in Handlers : Owed(p)[h] \in Nat

\* They are, because every variable has its type.
LEMMA AccountTypes == TypeOK => Counted
<1> SUFFICES ASSUME TypeOK, NEW p \in Products
             PROVE  /\ \A o \in Live : Units(p)[o] \in Nat
                    /\ \A h \in Handlers : Owed(p)[h] \in Nat
  BY DEF Counted
<1>1. \A b \in Basket : b[p].total \in Nat
  BY BoundsAssumption DEF Basket
<1>2. \A o \in Live : orders[o].basket \in Basket
  BY DEF Live, Placed, TypeOK, Order
<1>3. \A h \in Handlers : job[h].basket \in Basket
  BY DEF TypeOK, Job
<1>4. \A o \in Live : Units(p)[o] = orders[o].basket[p].total
  BY DEF Units
<1>5. \A h \in Handlers : Owed(p)[h] \in {job[h].basket[p].total, 0}
  BY DEF Owed
<1>6. QED
  BY <1>1, <1>2, <1>3, <1>4, <1>5

\* They are after a step.
LEMMA AccountTypesNext == TypeOK' => Counted'
BY AccountTypes, PTL

\* A step that leaves the orders' units as they are.
LEMMA SameUnits ==
  ASSUME IsFiniteSet(Live), Live' = Live, \A o \in Live : orders'[o].basket = orders[o].basket,
         NEW p \in Products
  PROVE  Total(Units(p)', Live') = Total(Units(p), Live)
<1>1. \A o \in Live : Units(p)'[o] = Units(p)[o]
  BY DEF Units
<1>2. QED
  BY <1>1, TotalSame

\* A new order adds its units.
LEMMA UnitsAdded ==
  ASSUME TypeOK, TypeOK', IsFiniteSet(Live), NEW o \in OrderIds, ~Placed(o),
         NEW b \in Basket, NEW c, orders' = [orders EXCEPT ![o] = NewOrder(b, c)],
         NewOrder(b, c) # NoOrder
  PROVE  /\ IsFiniteSet(Live')
         /\ \A p \in Products : /\ Total(Units(p), Live) \in Int
                                /\ Total(Units(p)', Live') = b[p].total + Total(Units(p), Live)
<1>1. /\ orders'[o] = NewOrder(b, c) /\ \A q \in OrderIds : q # o => orders'[q] = orders[q]
      /\ o \notin Live
  BY DEF TypeOK, Live
<1>2. NewOrder(b, c).status # "CANCELLED" /\ NewOrder(b, c).basket = b
  BY DEF NewOrder
<1>3. Live' = Live \cup {o}
  <2>1. \A q \in OrderIds : q \in Live' <=> q = o \/ q \in Live
    BY <1>1, <1>2 DEF Live, Placed
  <2>2. QED
    BY <2>1 DEF Live
<1>4. IsFiniteSet(Live')
  BY <1>3, FS_AddElement
<1>5. ASSUME NEW p \in Products
      PROVE  /\ Total(Units(p), Live) \in Int
             /\ Total(Units(p)', Live') = b[p].total + Total(Units(p), Live)
  <2> DEFINE f == Units(p)
             g == Units(p)'
             S == Live
  <2>1. \A q \in S : f[q] \in Int
    BY AccountTypes DEF Counted
  <2>2. \A q \in S \cup {o} : g[q] \in Int
    <3>1. \A q \in Live' : Units(p)'[q] \in Nat
      BY AccountTypesNext DEF Counted
    <3>2. QED
      BY <1>3, <3>1
  <2>3. g[o] = b[p].total
    BY <1>1, <1>2, <1>3 DEF Units
  <2>4. \A q \in S : g[q] = f[q]
    BY <1>1, <1>3 DEF Units
  <2>5. o \notin S /\ IsFiniteSet(S)
    BY <1>1
  <2>6. Live' = S \cup {o}
    BY <1>3
  <2> HIDE DEF f, g, S
  <2>7. Total(f, S) \in Int
    BY <2>1, <2>5, TotalType
  <2>8. Total(g, S \cup {o}) = g[o] + Total(g, S)
    BY <2>2, <2>5, TotalAdds
  <2>9. Total(g, S) = Total(f, S)
    BY <2>4, <2>5, TotalSame
  <2>10. QED
    BY <2>3, <2>6, <2>7, <2>8, <2>9 DEF f, g, S
<1>6. QED
  BY <1>4, <1>5

\* One request's debt changes.
LEMMA DebtChanges ==
  ASSUME TypeOK, TypeOK', NEW h \in Handlers,
         \A k \in Handlers : k # h => at'[k] = at[k] /\ job'[k] = job[k],
         NEW p \in Products
  PROVE  /\ Total(Owed(p), Handlers) \in Int /\ Total(Owed(p)', Handlers) \in Int
         /\ Total(Owed(p)', Handlers) - Total(Owed(p), Handlers) = Owed(p)'[h] - Owed(p)[h]
<1> DEFINE f == Owed(p)
           g == Owed(p)'
<1>1. \A k \in Handlers : f[k] \in Int
  BY AccountTypes DEF Counted
<1>2. \A k \in Handlers : g[k] \in Int
  <2>1. \A k \in Handlers : Owed(p)'[k] \in Nat
    BY AccountTypesNext DEF Counted
  <2>2. QED
    BY <2>1
<1>3. \A k \in Handlers \ {h} : f[k] = g[k]
  BY DEF Owed
<1> HIDE DEF f, g
<1>4. /\ Total(f, Handlers) \in Int /\ Total(g, Handlers) \in Int
      /\ Total(g, Handlers) - Total(f, Handlers) = g[h] - f[h]
  BY <1>1, <1>2, <1>3, HandlersFinite, TotalChanges
<1>5. QED
  BY <1>4 DEF f, g

\* A step that touches neither the stock, nor the orders' units, nor a debt.
LEMMA BalanceStays ==
  ASSUME Account, TypeOK', UNCHANGED stock,
         Live' = Live, \A o \in Live : orders'[o].basket = orders[o].basket,
         NoneCancels',
         \A p \in Products : \A k \in Handlers : Owed(p)'[k] = Owed(p)[k]
  PROVE  Account'
<1>1. ASSUME NEW p \in Products PROVE Balanced(p)'
  <2>1. Total(Units(p)', Live') = Total(Units(p), Live)
    BY SameUnits DEF Account
  <2>2. Total(Owed(p)', Handlers) = Total(Owed(p), Handlers)
    BY HandlersFinite, TotalSame
  <2>3. Balanced(p) /\ stock'[p] = stock[p]
    BY DEF Account
  <2>4. QED
    BY <2>1, <2>2, <2>3 DEF Balanced
<1>2. QED
  BY <1>1 DEF Account

\* A request moves on without having inserted, and so without a debt before or after.
LEMMA MovesOn ==
  ASSUME Account, TypeOK', NEW h \in Handlers, NEW label,
         at[h] # "deducting", label \notin {"deducting", "settingStatus", "cancelling"},
         at' = [at EXCEPT ![h] = label],
         \A k \in Handlers : k # h => job'[k] = job[k],
         UNCHANGED stock,
         Live' = Live, \A o \in Live : orders'[o].basket = orders[o].basket
  PROVE  Account'
<1>1. /\ at'[h] = label /\ \A k \in Handlers : k # h => at'[k] = at[k]
  BY DEF Account, TypeOK
<1>2. NoneCancels'
  BY <1>1 DEF Account, NoneCancels
<1>3. ASSUME NEW p \in Products, NEW k \in Handlers
      PROVE  Owed(p)'[k] = Owed(p)[k]
  <2>1. CASE k = h
    BY <1>1, <2>1 DEF Owed
  <2>2. CASE k # h
    BY <1>1, <2>2 DEF Owed
  <2>3. QED
    BY <2>1, <2>2
<1>4. QED
  BY <1>2, <1>3, BalanceStays

\* The orders that were live are live, with the same lines, when one row's payment, or a status
\* that is not CANCELLED, is written.
LEMMA RowWritten ==
  ASSUME TypeOK, NEW o \in OrderIds, Placed(o), NEW row \in Order,
         orders' = [orders EXCEPT ![o] = row], row.basket = orders[o].basket,
         row.status # "CANCELLED", orders[o].status # "CANCELLED"
  PROVE  Live' = Live /\ \A q \in Live : orders'[q].basket = orders[q].basket
<1>1. orders'[o] = row /\ \A q \in OrderIds : q # o => orders'[q] = orders[q]
  BY DEF TypeOK
<1>2. row # NoOrder
  BY SentinelsAssumption
<1>3. \A q \in OrderIds : q \in Live' <=> q \in Live
  BY <1>1, <1>2 DEF Live, Placed
<1>4. Live' = Live
  BY <1>3 DEF Live
<1>5. \A q \in Live : orders'[q].basket = orders[q].basket
  BY <1>1 DEF Live
<1>6. QED
  BY <1>4, <1>5

\* create inserts an order, and owes its units.
LEMMA InsertBalances ==
  ASSUME Account, TypeOK', NEW h \in Handlers, NEW o \in OrderIds, CreateInsert(h, o)
  PROVE  Account'
<1> DEFINE b == job[h].basket
<1>1. /\ ~Placed(o) /\ at[h] = "creating" /\ at' = [at EXCEPT ![h] = "deducting"]
      /\ orders' = [orders EXCEPT ![o] = NewOrder(b, NoCart)]
      /\ UNCHANGED <<stock, job>>
  BY DEF CreateInsert, Goto
<1>2. TypeOK /\ IsFiniteSet(Live) /\ b \in Basket
  BY DEF Account, TypeOK, Job
<1>3. NewOrder(b, NoCart) \in Order /\ NewOrder(b, NoCart) # NoOrder
  BY <1>2, BasketFacts, SentinelsAssumption
<1> HIDE DEF b
<1>4. /\ IsFiniteSet(Live')
      /\ \A p \in Products : /\ Total(Units(p), Live) \in Int
                             /\ Total(Units(p)', Live') = b[p].total + Total(Units(p), Live)
  BY <1>1, <1>2, <1>3, UnitsAdded
<1>5. at'[h] = "deducting" /\ \A k \in Handlers : k # h => at'[k] = at[k] /\ job'[k] = job[k]
  BY <1>1, <1>2 DEF TypeOK
<1>6. NoneCancels'
  BY <1>5 DEF Account, NoneCancels
<1>7. ASSUME NEW p \in Products PROVE Balanced(p)'
  <2> DEFINE u == Total(Units(p), Live)
             v == Total(Units(p)', Live')
             d == Total(Owed(p), Handlers)
             e == Total(Owed(p)', Handlers)
             q == b[p].total
  <2>1. u \in Int /\ v = q + u
    BY <1>4
  <2>2. Owed(p)[h] = 0 /\ Owed(p)'[h] = q
    BY <1>1, <1>5 DEF Owed, b
  <2>3. d \in Int /\ e \in Int /\ e - d = Owed(p)'[h] - Owed(p)[h]
    BY <1>2, <1>5, DebtChanges
  <2>4. q \in Int
    BY <1>2, BoundsAssumption DEF Basket
  <2>5. stock'[p] = stock[p] /\ stock[p] = InitialStock[p] - u + d
    BY <1>1 DEF Account, Balanced
  <2>6. InitialStock[p] \in Int
    BY StockAssumption, BoundsAssumption
  <2> HIDE DEF u, v, d, e, q
  <2>7. stock'[p] = InitialStock[p] - v + e
    BY <2>1, <2>2, <2>3, <2>4, <2>5, <2>6
  <2>8. QED
    BY <2>7 DEF Balanced, v, e
<1>8. QED
  BY <1>4, <1>6, <1>7 DEF Account

\* create pays what it owes to the stock.
LEMMA DeductBalances ==
  ASSUME Account, TypeOK', NEW h \in Handlers, CreateDeduct(h)
  PROVE  Account'
<1> DEFINE b == job[h].basket
<1>1. /\ at[h] = "deducting" /\ at' = [at EXCEPT ![h] = "idle"]
      /\ job' = [job EXCEPT ![h] = IdleJob] /\ UNCHANGED orders
      /\ \A p \in Products : stock'[p] = stock[p] - b[p].total
  BY DEF CreateDeduct, Finish, Goto, Deduct
<1>2. TypeOK /\ IsFiniteSet(Live) /\ b \in Basket
  BY DEF Account, TypeOK, Job
<1> HIDE DEF b
<1>3. Live' = Live
  BY <1>1 DEF Live, Placed
<1>4. \A q \in Live : orders'[q].basket = orders[q].basket
  BY <1>1
<1>5. at'[h] = "idle" /\ \A k \in Handlers : k # h => at'[k] = at[k] /\ job'[k] = job[k]
  BY <1>1, <1>2 DEF TypeOK
<1>6. NoneCancels'
  BY <1>5 DEF Account, NoneCancels
<1>7. ASSUME NEW p \in Products PROVE Balanced(p)'
  <2> DEFINE u == Total(Units(p), Live)
             v == Total(Units(p)', Live')
             d == Total(Owed(p), Handlers)
             e == Total(Owed(p)', Handlers)
             q == b[p].total
  <2>1. v = u
    BY <1>2, <1>3, <1>4, SameUnits
  <2>2. Owed(p)[h] = q /\ Owed(p)'[h] = 0
    BY <1>1, <1>5 DEF Owed, b
  <2>3. d \in Int /\ e \in Int /\ e - d = Owed(p)'[h] - Owed(p)[h]
    BY <1>2, <1>5, DebtChanges
  <2>4. q \in Int
    BY <1>2, BoundsAssumption DEF Basket
  <2>5. stock'[p] = stock[p] - q /\ stock[p] = InitialStock[p] - u + d
    BY <1>1 DEF Account, Balanced
  <2>6. InitialStock[p] \in Int
    BY StockAssumption, BoundsAssumption
  <2>7. u \in Int
    <3>1. \A o \in Live : Units(p)[o] \in Int
      BY <1>2, AccountTypes DEF Counted
    <3>2. QED
      BY <1>2, <3>1, TotalType
  <2> HIDE DEF u, v, d, e, q
  <2>8. stock'[p] = InitialStock[p] - v + e
    BY <2>1, <2>2, <2>3, <2>4, <2>5, <2>6, <2>7
  <2>9. QED
    BY <2>8 DEF Balanced, v, e
<1>8. QED
  BY <1>2, <1>3, <1>6, <1>7 DEF Account

\* The checkout inserts and deducts in one transaction, and owes nothing before or after.
LEMMA CommitBalances ==
  ASSUME Account, TypeOK', NEW h \in Handlers, NEW o \in OrderIds, CheckoutCommit(h, o)
  PROVE  Account'
<1> DEFINE b == job[h].basket
           c == job[h].cart
<1>1. /\ ~Placed(o) /\ at[h] = "checkingOut" /\ at' = [at EXCEPT ![h] = "idle"]
      /\ orders' = [orders EXCEPT ![o] = NewOrder(b, c)]
      /\ job' = [job EXCEPT ![h] = IdleJob]
      /\ \A p \in Products : stock'[p] = stock[p] - b[p].total
  BY DEF CheckoutCommit, Finish, Goto, Deduct
<1>2. TypeOK /\ IsFiniteSet(Live) /\ b \in Basket /\ c \in Carts \cup {NoCart}
  BY DEF Account, TypeOK, Job
<1>3. NewOrder(b, c) \in Order /\ NewOrder(b, c) # NoOrder
  BY <1>2, BasketFacts, SentinelsAssumption
<1> HIDE DEF b, c
<1>4. /\ IsFiniteSet(Live')
      /\ \A p \in Products : /\ Total(Units(p), Live) \in Int
                             /\ Total(Units(p)', Live') = b[p].total + Total(Units(p), Live)
  BY <1>1, <1>2, <1>3, UnitsAdded
<1>5. at'[h] = "idle" /\ \A k \in Handlers : k # h => at'[k] = at[k] /\ job'[k] = job[k]
  BY <1>1, <1>2 DEF TypeOK
<1>6. NoneCancels'
  BY <1>5 DEF Account, NoneCancels
<1>7. ASSUME NEW p \in Products PROVE Balanced(p)'
  <2> DEFINE u == Total(Units(p), Live)
             v == Total(Units(p)', Live')
             d == Total(Owed(p), Handlers)
             e == Total(Owed(p)', Handlers)
             q == b[p].total
  <2>1. u \in Int /\ v = q + u
    BY <1>4
  <2>2. Owed(p)[h] = 0 /\ Owed(p)'[h] = 0
    BY <1>1, <1>5 DEF Owed
  <2>3. d \in Int /\ e \in Int /\ e - d = Owed(p)'[h] - Owed(p)[h]
    BY <1>2, <1>5, DebtChanges
  <2>4. q \in Int
    BY <1>2, BoundsAssumption DEF Basket
  <2>5. stock'[p] = stock[p] - q /\ stock[p] = InitialStock[p] - u + d
    BY <1>1 DEF Account, Balanced
  <2>6. InitialStock[p] \in Int
    BY StockAssumption, BoundsAssumption
  <2> HIDE DEF u, v, d, e, q
  <2>7. stock'[p] = InitialStock[p] - v + e
    BY <2>1, <2>2, <2>3, <2>4, <2>5, <2>6
  <2>8. QED
    BY <2>7 DEF Balanced, v, e
<1>8. QED
  BY <1>4, <1>6, <1>7 DEF Account

\* No order is cancelled.
NoneCancelled == \A o \in OrderIds : Placed(o) => orders[o].status # "CANCELLED"

\* A new row, or another one for an order, that is not CANCELLED.
LEMMA NotCancelled ==
  ASSUME TypeOK, NoneCancelled, NEW o \in OrderIds, NEW row,
         orders' = [orders EXCEPT ![o] = row], row.status # "CANCELLED"
  PROVE  NoneCancelled'
<1>1. orders'[o] = row /\ \A q \in OrderIds : q # o => orders'[q] = orders[q]
  BY DEF TypeOK
<1>2. QED
  BY <1>1 DEF NoneCancelled, Placed

\* A payment or a status that is not CANCELLED, written to an order.
LEMMA WrittenBalances ==
  ASSUME Account, TypeOK', NoneCancelled, NEW o \in OrderIds, Placed(o), NEW row \in Order,
         orders' = [orders EXCEPT ![o] = row], row.basket = orders[o].basket,
         row.status # "CANCELLED", UNCHANGED stock,
         \/ UNCHANGED <<at, job>>
         \/ \E h \in Handlers, label \in {"idle", "confirmingPayment"} :
                /\ at[h] # "deducting" /\ at' = [at EXCEPT ![h] = label]
                /\ \A k \in Handlers : k # h => job'[k] = job[k]
  PROVE  Account' /\ NoneCancelled'
<1>1. TypeOK /\ orders[o].status # "CANCELLED"
  BY DEF Account, NoneCancelled
<1>2. Live' = Live /\ \A q \in Live : orders'[q].basket = orders[q].basket
  BY <1>1, RowWritten
<1>3. NoneCancelled'
  BY <1>1, NotCancelled
<1>4. CASE UNCHANGED <<at, job>>
  <2>1. NoneCancels'
    BY <1>4 DEF Account, NoneCancels
  <2>2. \A p \in Products : \A k \in Handlers : Owed(p)'[k] = Owed(p)[k]
    BY <1>4 DEF Owed
  <2>3. QED
    BY <1>2, <1>3, <2>1, <2>2, BalanceStays
<1>5. ASSUME NEW h \in Handlers, NEW label \in {"idle", "confirmingPayment"},
             at[h] # "deducting", at' = [at EXCEPT ![h] = label],
             \A k \in Handlers : k # h => job'[k] = job[k]
      PROVE  Account'
  <2>1. label \notin {"deducting", "settingStatus", "cancelling"}
    BY <1>5
  <2>2. QED
    BY <1>2, <1>5, <2>1, MovesOn
<1>6. QED
  BY <1>3, <1>4, <1>5

\* A request that only reads.
LEMMA ReadBalances ==
  ASSUME Account, TypeOK', NoneCancelled, NEW h \in Handlers, NEW op, NEW label, NEW j,
         Begin(h, op, label, j), label \in {"creating", "checkingOut", "paying"},
         UNCHANGED <<stock, orders>>
  PROVE  Account' /\ NoneCancelled'
<1>1. /\ at[h] = "idle" /\ at' = [at EXCEPT ![h] = label]
      /\ \A k \in Handlers : k # h => job'[k] = job[k]
  BY DEF Begin, Account, TypeOK
<1>2. Live' = Live /\ \A o \in Live : orders'[o].basket = orders[o].basket
  BY DEF Live, Placed
<1>3. label \notin {"deducting", "settingStatus", "cancelling"}
  OBVIOUS
<1>4. Account'
  BY <1>1, <1>2, <1>3, MovesOn
<1>5. NoneCancelled'
  BY DEF NoneCancelled, Placed
<1>6. QED
  BY <1>4, <1>5

\* The account at the start.
LEMMA AccountStarts == Init => Account /\ NoneCancelled
<1> SUFFICES ASSUME Init PROVE Account /\ NoneCancelled
  OBVIOUS
<1>1. TypeOK
  BY TypeInit
<1>2. /\ stock = InitialStock /\ \A o \in OrderIds : orders[o] = NoOrder
      /\ \A h \in Handlers : at[h] = "idle"
  BY DEF Init
<1>3. Live = {} /\ NoneCancelled
  BY <1>2 DEF Live, NoneCancelled, Placed
<1>4. ASSUME NEW p \in Products PROVE Balanced(p)
  <2>1. Total(Units(p), Live) = 0
    BY <1>3, TotalOfNone
  <2>2. \A h \in Handlers : Owed(p)[h] = 0
    BY <1>2 DEF Owed
  <2>3. Total(Owed(p), Handlers) = 0
    BY <2>2, HandlersFinite, TotalOfZeros
  <2>4. InitialStock[p] \in Int /\ stock[p] = InitialStock[p]
    BY <1>2, StockAssumption, BoundsAssumption
  <2>5. QED
    BY <2>1, <2>3, <2>4 DEF Balanced
<1>5. NoneCancels /\ IsFiniteSet(Live)
  BY <1>2, <1>3, FS_EmptySet DEF NoneCancels
<1>6. QED
  BY <1>1, <1>3, <1>4, <1>5 DEF Account

\* Every operation of the traffic that keeps the account keeps it.
LEMMA AccountKept ==
  ASSUME Ops \subseteq Keeping, Account, NoneCancelled, [Next]_vars
  PROVE  Account' /\ NoneCancelled'
<1>1. TypeOK /\ TypeOK'
  BY TypeNext DEF Account
<1>2. \A h \in Handlers : at[h] # "settingStatus" /\ at[h] # "cancelling"
  BY DEF Account, NoneCancels
<1>3. /\ "updateStatus" \notin Ops /\ "cancel" \notin Ops /\ "remove" \notin Ops
      /\ "updateStock" \notin Ops /\ "fail" \notin Ops
  BY DEF Keeping
<1>4. ASSUME NEW h \in Handlers, Place(h) PROVE Account' /\ NoneCancelled'
  <2>1. ASSUME NEW b \in Baskets, CreateValidate(h, b) PROVE Account' /\ NoneCancelled'
    BY <1>1, <2>1, ReadBalances DEF CreateValidate
  <2>2. ASSUME NEW o \in OrderIds, CreateInsert(h, o) PROVE Account' /\ NoneCancelled'
    <3>1. orders' = [orders EXCEPT ![o] = NewOrder(job[h].basket, NoCart)]
      BY <2>2 DEF CreateInsert
    <3>2. NewOrder(job[h].basket, NoCart).status # "CANCELLED"
      BY DEF NewOrder
    <3>3. QED
      BY <1>1, <2>2, <3>1, <3>2, InsertBalances, NotCancelled
  <2>3. ASSUME CreateDeduct(h) PROVE Account' /\ NoneCancelled'
    <3>1. NoneCancelled'
      BY <2>3 DEF CreateDeduct, NoneCancelled, Placed
    <3>2. QED
      BY <1>1, <2>3, <3>1, DeductBalances
  <2>4. ASSUME NEW c \in Carts, CheckoutValidate(h, c) PROVE Account' /\ NoneCancelled'
    BY <1>1, <2>4, ReadBalances DEF CheckoutValidate
  <2>5. ASSUME NEW o \in OrderIds, CheckoutCommit(h, o) PROVE Account' /\ NoneCancelled'
    <3>1. orders' = [orders EXCEPT ![o] = NewOrder(job[h].basket, job[h].cart)]
      BY <2>5 DEF CheckoutCommit
    <3>2. NewOrder(job[h].basket, job[h].cart).status # "CANCELLED"
      BY DEF NewOrder
    <3>3. QED
      BY <1>1, <2>5, <3>1, <3>2, CommitBalances, NotCancelled
  <2>6. QED
    BY <1>4, <2>1, <2>2, <2>3, <2>4, <2>5 DEF Place
<1>5. ASSUME NEW h \in Handlers, PaymentMark(h) PROVE Account' /\ NoneCancelled'
  <2> DEFINE o == job[h].order
             row == [orders[o] EXCEPT !.paid = TRUE]
  <2>1. /\ at[h] = "paying" /\ at' = [at EXCEPT ![h] = "confirmingPayment"]
        /\ UNCHANGED <<stock, job>> /\ orders' = [orders EXCEPT ![o] = row]
    BY <1>5 DEF PaymentMark, Goto
  <2>2. o \in OrderIds /\ Placed(o) /\ orders[o] \in Order
    BY <1>1, <2>1 DEF TypeOK, Placed
  <2>3. orders[o].status # "CANCELLED"
    BY <2>2 DEF NoneCancelled
  <2>4. row \in Order /\ row.basket = orders[o].basket /\ row.status # "CANCELLED"
    BY <2>2, <2>3 DEF Order
  <2>5. \A k \in Handlers : k # h => job'[k] = job[k]
    BY <2>1
  <2> HIDE DEF o, row
  <2>6. \E k \in Handlers, label \in {"idle", "confirmingPayment"} :
            /\ at[k] # "deducting" /\ at' = [at EXCEPT ![k] = label]
            /\ \A i \in Handlers : i # k => job'[i] = job[i]
    BY <2>1, <2>5
  <2>7. QED
    BY <1>1, <2>1, <2>2, <2>4, <2>6, WrittenBalances
<1>6. ASSUME NEW h \in Handlers, PaymentConfirm(h) PROVE Account' /\ NoneCancelled'
  <2> DEFINE o == job[h].order
             row == [orders[o] EXCEPT !.status = "PROCESSING"]
  <2>1. /\ at[h] = "confirmingPayment" /\ at' = [at EXCEPT ![h] = "idle"]
        /\ job' = [job EXCEPT ![h] = IdleJob]
        /\ UNCHANGED stock /\ orders' = [orders EXCEPT ![o] = row]
    BY <1>6 DEF PaymentConfirm, Finish, Goto
  <2>2. o \in OrderIds /\ Placed(o) /\ orders[o] \in Order
    BY <1>1, <2>1 DEF TypeOK, Placed
  <2>3. row \in Order /\ row.basket = orders[o].basket /\ row.status # "CANCELLED"
    BY <2>2 DEF Order, Statuses
  <2>4. \A k \in Handlers : k # h => job'[k] = job[k]
    BY <1>1, <2>1 DEF TypeOK
  <2> HIDE DEF o, row
  <2>5. \E k \in Handlers, label \in {"idle", "confirmingPayment"} :
            /\ at[k] # "deducting" /\ at' = [at EXCEPT ![k] = label]
            /\ \A i \in Handlers : i # k => job'[i] = job[i]
    BY <2>1, <2>4
  <2>6. QED
    BY <1>1, <2>1, <2>2, <2>3, <2>5, WrittenBalances
<1>7. ASSUME NEW h \in Handlers, Manage(h) PROVE Account' /\ NoneCancelled'
  <2>1. ASSUME NEW o \in OrderIds, PaymentRead(h, o) PROVE Account' /\ NoneCancelled'
    BY <1>1, <2>1, ReadBalances DEF PaymentRead
  <2>2. at[h] # "settingStatus" /\ at[h] # "cancelling"
    BY <1>2
  <2>3. ~UpdateStatusWrite(h)
    BY <2>2 DEF UpdateStatusWrite, Finish, Goto
  <2>4. ~CancelWrite(h)
    BY <2>2 DEF CancelWrite, Finish, Goto
  <2>5. \A p \in Products : ~CancelRestore(h, p)
    BY <2>2 DEF CancelRestore
  <2>6. \A op, label, j : Begin(h, op, label, j) => op \in Ops
    BY DEF Begin
  <2>7. \A o \in OrderIds, s \in Statuses : ~UpdateStatusRead(h, o, s)
    BY <1>3, <2>6 DEF UpdateStatusRead
  <2>8. \A o \in OrderIds : ~CancelRead(h, o)
    BY <1>3, <2>6 DEF CancelRead
  <2>9. QED
    BY <1>5, <1>6, <1>7, <2>1, <2>3, <2>4, <2>5, <2>7, <2>8 DEF Manage
<1>8. ASSUME NEW o \in OrderIds, UpdateShipping(o) PROVE Account' /\ NoneCancelled'
  <2> DEFINE row == [orders[o] EXCEPT !.status = "SHIPPED", !.shippedAt = TRUE]
  <2>1. Placed(o) /\ UNCHANGED <<stock, at, job>> /\ orders' = [orders EXCEPT ![o] = row]
    BY <1>1, <1>8 DEF UpdateShipping, TypeOK
  <2>2. orders[o] \in Order
    BY <1>1, <2>1 DEF TypeOK, Placed
  <2>3. row \in Order /\ row.basket = orders[o].basket /\ row.status # "CANCELLED"
    BY <2>2 DEF Order, Statuses
  <2> HIDE DEF row
  <2>4. QED
    BY <1>1, <2>1, <2>3, WrittenBalances
<1>9. ASSUME UNCHANGED <<stock, orders, at, job>> PROVE Account' /\ NoneCancelled'
  <2>1. Live' = Live /\ \A q \in Live : orders'[q].basket = orders[q].basket
    BY <1>9 DEF Live, Placed
  <2>2. NoneCancels'
    BY <1>2, <1>9 DEF NoneCancels
  <2>3. \A p \in Products : \A k \in Handlers : Owed(p)'[k] = Owed(p)[k]
    BY <1>9 DEF Owed
  <2>4. NoneCancelled'
    BY <1>9 DEF NoneCancelled, Placed
  <2>5. QED
    BY <1>1, <1>9, <2>1, <2>2, <2>3, <2>4, BalanceStays
<1>10. ASSUME NEW p \in Products, ToggleActive(p) PROVE Account' /\ NoneCancelled'
  BY <1>9, <1>10 DEF ToggleActive
<1>11. ASSUME UNCHANGED vars PROVE Account' /\ NoneCancelled'
  BY <1>9, <1>11 DEF vars
<1>12. /\ \A h \in Handlers : ~Fail(h)
       /\ \A o \in OrderIds : ~Remove(o)
       /\ \A p \in Products, q \in 0 .. MaxStock : ~UpdateStock(p, q)
  BY <1>3 DEF Fail, Remove, UpdateStock
<1>13. QED
  BY <1>4, <1>7, <1>8, <1>10, <1>11, <1>12 DEF Next

\* However requests that place, pay and ship orders overlap, and whatever they list twice, no
\* unit of stock is lost or made up.
THEOREM StockAlwaysConserved ==
  ASSUME Ops \subseteq Keeping
  PROVE  Spec => []StockConserved
<1>1. Init => Account /\ NoneCancelled
  BY AccountStarts
<1>2. Account /\ NoneCancelled /\ [Next]_vars => Account' /\ NoneCancelled'
  BY AccountKept
<1>3. Account => StockConserved
  <2> SUFFICES ASSUME Account, \A h \in Handlers : at[h] = "idle", NEW p \in Products
               PROVE  stock[p] = InitialStock[p] - Total(Units(p), Live)
    BY DEF StockConserved, Quiescent, Total
  <2>1. \A h \in Handlers : Owed(p)[h] = 0
    BY DEF Owed
  <2>2. Total(Owed(p), Handlers) = 0
    BY <2>1, HandlersFinite, TotalOfZeros
  <2>3. Total(Units(p), Live) \in Int /\ InitialStock[p] \in Int
    <3>1. \A o \in Live : Units(p)[o] \in Int
      BY AccountTypes DEF Counted, Account
    <3>2. IsFiniteSet(Live)
      BY DEF Account
    <3>3. QED
      BY <3>1, <3>2, TotalType, StockAssumption, BoundsAssumption
  <2>4. stock[p] = InitialStock[p] - Total(Units(p), Live) + Total(Owed(p), Handlers)
    BY DEF Account, Balanced
  <2>5. QED
    BY <2>2, <2>3, <2>4
<1>4. QED
  BY <1>1, <1>2, <1>3, PTL DEF Spec

=============================================================================
