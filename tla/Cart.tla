-------------------------------- MODULE Cart --------------------------------
(***************************************************************************)
(* Shopping carts (CartController, CartService, its Redis cache and the    *)
(* nightly expiry) of one customer, who has a session id in a cookie and,  *)
(* once logged in, a user id.  The routes that read and change a cart are  *)
(* @Public: JwtAuthGuard skips them, so they know the session alone.  Only *)
(* merge and checkout know the user.                                       *)
(*                                                                         *)
(* A handler is one request, split at its awaits.  A cached cart is        *)
(* represented by its id, which is all that the operations use of it, and  *)
(* a total by the quantities that it is the price of.  Every product is    *)
(* active and may be in a cart MaxQty times.                               *)
(***************************************************************************)
EXTENDS Integers, FiniteSets, FiniteSetsExt

CONSTANTS
    Handlers,
    CartIds,
    Products,
    MaxQty,         \* maxCartQty, within the stock
    Ops,            \* what clients, time and failures bring about
    NoCart

AllOps == {"get", "add", "update", "remove", "clear", "checkout", "merge",
           "expire", "fail"}

\* A cart is the session's or the user's, and so is the key it is cached under.
Owners == {"session", "user"}

CartRows ==
    [owner : Owners, status : {"ACTIVE", "COMPLETED", "MERGED", "EXPIRED"},
     qty : [Products -> Nat], total : [Products -> Nat], inactive : BOOLEAN]

ASSUME CartAssumptions ==
    /\ MaxQty \in Nat \ {0}
    /\ IsFiniteSet(Handlers) /\ IsFiniteSet(CartIds) /\ IsFiniteSet(Products)
    /\ Ops \subseteq AllOps
    /\ NoCart \notin CartIds /\ NoCart \notin Products /\ NoCart \notin CartRows

VARIABLES
    carts,      \* the carts table, each row with its items
    cache,      \* Redis: the id of the cart cached for each owner
    orders,     \* what checkouts have ordered
    at, job,    \* where each handler is, and what it knows
    cron        \* which carts the expiry job turns to next

vars == <<carts, cache, orders, at, job, cron>>

NoItems == [p \in Products |-> 0]

IdleJob == [op |-> "get", who |-> "user", cart |-> NoCart, item |-> NoCart, n |-> 0,
            seen |-> 0, row |-> FALSE, again |-> FALSE, guest |-> NoCart,
            bag |-> NoItems, sum |-> NoItems, todo |-> {}]

Init ==
    /\ carts = [c \in CartIds |-> NoCart]
    /\ cache = [k \in Owners |-> NoCart]
    /\ orders = {}
    /\ at = [h \in Handlers |-> "idle"]
    /\ job = [h \in Handlers |-> IdleJob]
    /\ cron = "session"

-----------------------------------------------------------------------------
Exists(c) == carts[c] # NoCart

\* The carts that a query by this owner's id, with status ACTIVE, matches.
ActiveOf(who) ==
    {c \in CartIds : /\ Exists(c)
                     /\ carts[c].status = "ACTIVE"
                     /\ carts[c].owner = who}

NewCart(who) ==
    [owner |-> who, status |-> "ACTIVE", qty |-> NoItems, total |-> NoItems, inactive |-> FALSE]

Goto(h, from, to) ==
    /\ at[h] = from
    /\ at' = [at EXCEPT ![h] = to]

\* The request ends: it is answered, or an exception leaves the handler.
End(h, from) ==
    /\ Goto(h, from, "idle")
    /\ job' = [job EXCEPT ![h] = IdleJob]

Know(h, j) == job' = [job EXCEPT ![h] = j]

\* Where a handler goes once it has a cart from getOrCreateCart.
AfterCart ==
    [add |-> "readItem", update |-> "readItem", remove |-> "deleteItem",
     clear |-> "clearItems", checkout |-> "readTotals"]

\* Mutant: the cart is not handed on.
Take_Dropped(h, from, c) ==
    IF job[h].op = "get" THEN End(h, from)
    ELSE Goto(h, from, AfterCart[job[h].op]) /\ UNCHANGED job

\* getOrCreateCart returns this cart: it is the answer, or is worked on.
Take(h, from, c) ==
    IF job[h].op = "get" THEN End(h, from)
    ELSE /\ Goto(h, from, AfterCart[job[h].op])
         /\ Know(h, [job[h] EXCEPT !.cart = c])

\* Where it goes once calculateTotals is done.
AfterTotals ==
    [add |-> "invalidate", update |-> "invalidate", remove |-> "invalidate",
     merge |-> "invalidate", checkout |-> "readCart"]

-----------------------------------------------------------------------------
\* A request arrives: at a public route it is the session's, at checkout and
\* merge the user's.  A merge without a session id only reads the user's cart.
Request(h, op, who, p, n) ==
    /\ op \in Ops \ {"expire", "fail"}
    /\ op \in {"add", "update", "remove", "clear"} => who = "session"
    /\ op \in {"checkout", "merge"} => who = "user"
    /\ op \in {"add", "update"} => n > 0
    /\ op \notin {"add", "update"} => n = 0
    /\ Goto(h, "idle", IF op = "merge" THEN "findGuest" ELSE "lookup")
    /\ Know(h, [IdleJob EXCEPT !.op = op, !.who = who, !.n = n,
                               !.item = IF op \in {"add", "update", "remove"} THEN p ELSE NoCart])
    /\ UNCHANGED <<carts, cache, orders, cron>>

\* getOrCreateCart: the cache is asked; an error counts as a miss.
CacheHit(h) ==
    LET c == cache[job[h].who]
    IN  /\ c # NoCart
        /\ Take(h, "lookup", c)
        /\ UNCHANGED <<carts, cache, orders, cron>>

CacheMiss(h) ==
    /\ cache[job[h].who] = NoCart \/ "fail" \in Ops
    /\ Goto(h, "lookup", "find")
    /\ UNCHANGED <<carts, cache, orders, job, cron>>

\* Mutant: the cart that exists is not looked for.
FindCart_AlwaysCreates(h) ==
    /\ Goto(h, "find", "create")
    /\ UNCHANGED <<carts, cache, orders, job, cron>>

\* getOrCreateCart: findFirst.
FindCart(h) ==
    \/ \E c \in ActiveOf(job[h].who) :
        /\ Goto(h, "find", "warm")
        /\ Know(h, [job[h] EXCEPT !.cart = c])
        /\ UNCHANGED <<carts, cache, orders, cron>>
    \/ /\ ActiveOf(job[h].who) = {}
       /\ Goto(h, "find", "create")
       /\ UNCHANGED <<carts, cache, orders, job, cron>>

\* getOrCreateCart: create.
CreateCart(h, c) ==
    /\ ~Exists(c)
    /\ Goto(h, "create", "warm")
    /\ carts' = [carts EXCEPT ![c] = NewCart(job[h].who)]
    /\ Know(h, [job[h] EXCEPT !.cart = c])
    /\ UNCHANGED <<cache, orders, cron>>

\* Mutant: one key for both.
WarmCache_OneKey(h) ==
    /\ Take(h, "warm", job[h].cart)
    /\ cache' = [cache EXCEPT !["user"] = job[h].cart]
    /\ UNCHANGED <<carts, orders, cron>>

\* getOrCreateCart: the cart is cached; an error is ignored.
WarmCache(h) ==
    /\ Take(h, "warm", job[h].cart)
    /\ \/ cache' = [cache EXCEPT ![job[h].who] = job[h].cart]
       \/ "fail" \in Ops /\ UNCHANGED cache
    /\ UNCHANGED <<carts, orders, cron>>

-----------------------------------------------------------------------------
Quantity(h) == carts[job[h].cart].qty[job[h].item]

\* The quantity that addItem or updateItem is about to write.
Wanted(h) == IF job[h].op = "add" THEN job[h].seen + job[h].n ELSE job[h].n

\* Every handler that has found one of these items now holds the id of a row
\* that is gone: its update will fail, even if the product is added again.
RowsDeleted(c, ps) ==
    job' = [g \in Handlers |->
                IF job[g].cart = c /\ job[g].item \in ps THEN [job[g] EXCEPT !.row = FALSE]
                                                        ELSE job[g]]

\* The write that follows succeeds: the row found is there, or the new one is
\* the first for its cart and product.
Writable(h) == IF job[h].seen > 0 THEN job[h].row ELSE Quantity(h) = 0

\* addItem and updateItem: the item is read and the new quantity validated.
\* The item id that an update names may be of no item of the cart.
ReadItem(h) ==
    LET q == Quantity(h)
        ok == IF job[h].op = "add" THEN q + job[h].n <= MaxQty
                                   ELSE q > 0 /\ job[h].n <= MaxQty
    IN  /\ at[h] = "readItem"
        /\ \/ /\ ok
              /\ Goto(h, "readItem", "writeItem")
              /\ Know(h, [job[h] EXCEPT !.seen = q, !.row = q > 0,
                                        !.again = (job[h].op = "add" /\ q > 0)])
           \/ /\ ~ok \/ job[h].op = "update"
              /\ End(h, "readItem")
        /\ UNCHANGED <<carts, cache, orders, cron>>

\* addItem creates an item it did not find, and otherwise, like updateItem,
\* overwrites the quantity of the item it found (updateItemQuantity).
WriteItem(h) ==
    /\ at[h] = "writeItem"
    /\ \/ /\ Writable(h)
          /\ Goto(h, "writeItem", "readTotals")
          /\ carts' = [carts EXCEPT ![job[h].cart].qty[job[h].item] = Wanted(h)]
          /\ Know(h, [job[h] EXCEPT !.item = NoCart, !.n = 0, !.seen = 0, !.row = FALSE])
       \/ /\ ~Writable(h)
          /\ End(h, "writeItem")
          /\ UNCHANGED carts
    /\ UNCHANGED <<cache, orders, cron>>

\* removeItem.  The item id may be of no item of the cart.
DeleteItem(h) ==
    /\ at[h] = "deleteItem"
    /\ \/ /\ Quantity(h) > 0
          /\ Goto(h, "deleteItem", "readTotals")
          /\ carts' = [carts EXCEPT ![job[h].cart].qty[job[h].item] = 0]
          /\ RowsDeleted(job[h].cart, {job[h].item})
       \/ /\ End(h, "deleteItem")
          /\ UNCHANGED carts
    /\ UNCHANGED <<cache, orders, cron>>

\* clearCart: the items, then the totals.
ClearItems(h) ==
    /\ Goto(h, "clearItems", "clearTotals")
    /\ carts' = [carts EXCEPT ![job[h].cart].qty = NoItems]
    /\ RowsDeleted(job[h].cart, Products)
    /\ UNCHANGED <<cache, orders, cron>>

ClearTotals(h) ==
    /\ Goto(h, "clearTotals", "invalidate")
    /\ carts' = [carts EXCEPT ![job[h].cart].total = NoItems, ![job[h].cart].inactive = FALSE]
    /\ UNCHANGED <<cache, orders, job, cron>>

\* calculateTotals: the items are read, and the sum is written to the cart.
ReadTotals(h) ==
    /\ Goto(h, "readTotals", "writeTotals")
    /\ Know(h, [job[h] EXCEPT !.sum = carts[job[h].cart].qty])
    /\ UNCHANGED <<carts, cache, orders, cron>>

\* addItem calculates twice when the item was there: updateItemQuantity does.
WriteTotals(h) ==
    /\ Goto(h, "writeTotals", IF job[h].again THEN "readTotals" ELSE AfterTotals[job[h].op])
    /\ carts' = [carts EXCEPT ![job[h].cart].total = job[h].sum,
                              ![job[h].cart].inactive = FALSE]
    /\ Know(h, [job[h] EXCEPT !.again = FALSE, !.sum = NoItems])
    /\ UNCHANGED <<cache, orders, cron>>

Drop(k) ==
    \/ cache' = [cache EXCEPT ![k] = NoCart]
    \/ "fail" \in Ops /\ UNCHANGED cache

\* The cart's key is dropped; an error is ignored.  addItem goes on to read the
\* cart for its answer, and a merge drops the session's key as well.
Invalidate(h) ==
    /\ Drop(job[h].who)
    /\ CASE job[h].op = "add" -> /\ Goto(h, "invalidate", "lookup")
                                 /\ Know(h, [IdleJob EXCEPT !.who = job[h].who])
         [] job[h].op = "merge" -> Goto(h, "invalidate", "invalidateGuest") /\ UNCHANGED job
         [] OTHER -> End(h, "invalidate")
    /\ UNCHANGED <<carts, orders, cron>>

ReadUserCart(h) == Know(h, [IdleJob EXCEPT !.op = "get"])

InvalidateGuest(h) ==
    /\ Drop("session")
    /\ Goto(h, "invalidateGuest", "lookup")
    /\ ReadUserCart(h)
    /\ UNCHANGED <<carts, orders, cron>>

-----------------------------------------------------------------------------
\* checkout: createOrderFromCart reads the cart, which must be ACTIVE and not
\* empty, and orders what it read.
ReadCart(h) ==
    LET cart == carts[job[h].cart]
    IN  /\ at[h] = "readCart"
        /\ \/ /\ cart.status = "ACTIVE" /\ cart.qty # NoItems
              /\ Goto(h, "readCart", "order")
              /\ Know(h, [job[h] EXCEPT !.bag = cart.qty, !.sum = cart.total])
           \/ /\ ~(cart.status = "ACTIVE" /\ cart.qty # NoItems)
              /\ End(h, "readCart")
        /\ UNCHANGED <<carts, cache, orders, cron>>

PlaceOrder(h) ==
    /\ End(h, "order")
    /\ orders' = orders \cup {[cart |-> job[h].cart, items |-> job[h].bag,
                               total |-> job[h].sum]}
    /\ carts' = [carts EXCEPT ![job[h].cart].status = "COMPLETED"]
    /\ UNCHANGED <<cache, cron>>

-----------------------------------------------------------------------------
\* mergeGuestCart: the session's cart; without one, or with an empty one, which
\* is closed, the user's cart is the answer.
FindGuestCart(h) ==
    /\ \/ \E g \in ActiveOf("session") :
            \/ /\ carts[g].qty # NoItems
               /\ Goto(h, "findGuest", "findTarget")
               /\ Know(h, [job[h] EXCEPT !.guest = g, !.bag = carts[g].qty,
                                         !.todo = {p \in Products : carts[g].qty[p] > 0}])
            \/ /\ carts[g].qty = NoItems
               /\ Goto(h, "findGuest", "closeEmpty")
               /\ Know(h, [job[h] EXCEPT !.guest = g])
       \/ /\ ActiveOf("session") = {}
          /\ Goto(h, "findGuest", "lookup")
          /\ ReadUserCart(h)
    /\ UNCHANGED <<carts, cache, orders, cron>>

CloseEmptyGuestCart(h) ==
    /\ Goto(h, "closeEmpty", "lookup")
    /\ carts' = [carts EXCEPT ![job[h].guest].status = "MERGED"]
    /\ ReadUserCart(h)
    /\ UNCHANGED <<cache, orders, cron>>

\* mergeGuestCart: the user's cart, which is created if there is none.
FindTarget(h) ==
    \/ \E c \in ActiveOf("user") :
        /\ Goto(h, "findTarget", "readMerge")
        /\ Know(h, [job[h] EXCEPT !.cart = c])
        /\ UNCHANGED <<carts, cache, orders, cron>>
    \/ /\ ActiveOf("user") = {}
       /\ Goto(h, "findTarget", "createTarget")
       /\ UNCHANGED <<carts, cache, orders, job, cron>>

CreateTarget(h, c) ==
    /\ ~Exists(c)
    /\ Goto(h, "createTarget", "readMerge")
    /\ carts' = [carts EXCEPT ![c] = NewCart("user")]
    /\ Know(h, [job[h] EXCEPT !.cart = c])
    /\ UNCHANGED <<cache, orders, cron>>

\* mergeGuestCart: for each item of the guest cart, the user's item is read...
ReadMergeItem(h, p) ==
    LET q == carts[job[h].cart].qty[p]
    IN  /\ Goto(h, "readMerge", "writeMerge")
        /\ p \in job[h].todo
        /\ Know(h, [job[h] EXCEPT !.item = p, !.seen = q, !.row = q > 0, !.todo = @ \ {p}])
        /\ UNCHANGED <<carts, cache, orders, cron>>

\* Mutant: quantities are added without regard to the limit.
WriteMergeItem_NoLimit(h) ==
    /\ Goto(h, "writeMerge", "readMerge")
    /\ carts' = [carts EXCEPT ![job[h].cart].qty[job[h].item] = @ + job[h].bag[job[h].item]]
    /\ Know(h, [job[h] EXCEPT !.item = NoCart, !.seen = 0, !.row = FALSE])
    /\ UNCHANGED <<cache, orders, cron>>

\* ...and raised up to the limit, or created; an error skips the item.
WriteMergeItem(h) ==
    LET guestQty == job[h].bag[job[h].item]
        newQuantity == IF job[h].seen = 0 THEN guestQty
                                          ELSE Min({job[h].seen + guestQty, MaxQty})
    IN  /\ Goto(h, "writeMerge", "readMerge")
        /\ \/ /\ Writable(h)
              /\ carts' = [carts EXCEPT ![job[h].cart].qty[job[h].item] = newQuantity]
           \/ /\ ~Writable(h) \/ "fail" \in Ops
              /\ UNCHANGED carts
        /\ Know(h, [job[h] EXCEPT !.item = NoCart, !.seen = 0, !.row = FALSE])
        /\ UNCHANGED <<cache, orders, cron>>

\* mergeGuestCart: the guest cart is closed.
CloseGuestCart(h) ==
    /\ job[h].todo = {}
    /\ Goto(h, "readMerge", "readTotals")
    /\ carts' = [carts EXCEPT ![job[h].guest].status = "MERGED"]
    /\ Know(h, [job[h] EXCEPT !.guest = NoCart, !.bag = NoItems])
    /\ UNCHANGED <<cache, orders, cron>>

-----------------------------------------------------------------------------
\* A request fails where it is: the database or the process does, or the
\* request is rejected for a reason that is not modelled.
Fail(h) ==
    /\ "fail" \in Ops
    /\ at[h] # "idle"
    /\ End(h, at[h])
    /\ UNCHANGED <<carts, cache, orders, cron>>

\* A week or a month passes without a request: cached carts lapse (24 h), and
\* the carts of these owners are due for expiry.
DaysPass(late) ==
    /\ "expire" \in Ops
    /\ \A h \in Handlers : at[h] = "idle"
    /\ carts' = [c \in CartIds |-> IF Exists(c) /\ carts[c].owner \in late
                                   THEN [carts[c] EXCEPT !.inactive = TRUE]
                                   ELSE carts[c]]
    /\ cache' = [k \in Owners |-> NoCart]
    /\ UNCHANGED <<orders, at, job, cron>>

\* Mutant: carts expire whatever their status.
ExpireCarts_AnyStatus ==
    /\ "expire" \in Ops
    /\ carts' = [c \in CartIds |-> IF Exists(c) /\ carts[c].inactive
                                   THEN [carts[c] EXCEPT !.status = "EXPIRED"]
                                   ELSE carts[c]]
    /\ cron' = IF cron = "session" THEN "user" ELSE "session"
    /\ UNCHANGED <<cache, orders, at, job>>

\* expireInactiveCarts: guest carts, then user carts.
ExpireCarts ==
    /\ "expire" \in Ops
    /\ carts' = [c \in CartIds |-> IF c \in ActiveOf(cron) /\ carts[c].inactive
                                   THEN [carts[c] EXCEPT !.status = "EXPIRED"]
                                   ELSE carts[c]]
    /\ cron' = IF cron = "session" THEN "user" ELSE "session"
    /\ UNCHANGED <<cache, orders, at, job>>

Arrive(h) ==
    \E op \in Ops, who \in Owners, p \in Products, n \in 0 .. MaxQty :
        Request(h, op, who, p, n)

Work(h) ==
    \/ CacheHit(h) \/ CacheMiss(h) \/ FindCart(h) \/ WarmCache(h)
    \/ \E c \in CartIds : CreateCart(h, c) \/ CreateTarget(h, c)
    \/ ReadItem(h) \/ WriteItem(h) \/ DeleteItem(h) \/ ClearItems(h) \/ ClearTotals(h)
    \/ ReadTotals(h) \/ WriteTotals(h) \/ Invalidate(h) \/ InvalidateGuest(h)
    \/ ReadCart(h) \/ PlaceOrder(h)
    \/ FindGuestCart(h) \/ CloseEmptyGuestCart(h) \/ FindTarget(h)
    \/ \E p \in Products : ReadMergeItem(h, p)
    \/ WriteMergeItem(h) \/ CloseGuestCart(h)
    \/ Fail(h)

Days ==
    \/ \E late \in {{"session"}, Owners} : DaysPass(late)
    \/ ExpireCarts

Next ==
    \/ \E h \in Handlers : Arrive(h) \/ Work(h)
    \/ Days

Spec == Init /\ [][Next]_vars

-----------------------------------------------------------------------------
Locations ==
    {"idle", "lookup", "find", "create", "warm", "readItem", "writeItem",
     "deleteItem", "clearItems", "clearTotals", "readTotals", "writeTotals", "invalidate",
     "invalidateGuest", "readCart", "order", "findGuest", "closeEmpty", "findTarget",
     "createTarget", "readMerge", "writeMerge"}

Jobs ==
    [op : {"get", "add", "update", "remove", "clear", "checkout", "merge"},
     who : Owners, cart : CartIds \cup {NoCart}, item : Products \cup {NoCart},
     n : Nat, seen : Nat, row : BOOLEAN, again : BOOLEAN, guest : CartIds \cup {NoCart},
     bag : [Products -> Nat], sum : [Products -> Nat], todo : SUBSET Products]

\* Where a handler already holds a cart, an item, and the session's cart.
WithCart ==
    {"warm", "readItem", "writeItem", "deleteItem", "clearItems", "clearTotals",
     "readTotals", "writeTotals", "invalidate", "invalidateGuest", "readCart", "order",
     "readMerge", "writeMerge"}
WithItem == {"readItem", "writeItem", "deleteItem", "writeMerge"}
WithGuest == {"closeEmpty", "findTarget", "createTarget", "readMerge", "writeMerge"}

\* Every row, cached id and handler has its type, and a handler that works on a
\* cart or an item holds the id of an existing cart or a product.
TypeOK ==
    /\ carts \in [CartIds -> CartRows \cup {NoCart}]
    /\ cache \in [Owners -> CartIds \cup {NoCart}]
    /\ orders \subseteq [cart : CartIds, items : [Products -> Nat], total : [Products -> Nat]]
    /\ at \in [Handlers -> Locations]
    /\ job \in [Handlers -> Jobs]
    /\ cron \in Owners
    /\ \A h \in Handlers :
        /\ at[h] \in WithCart => job[h].cart # NoCart /\ Exists(job[h].cart)
        /\ at[h] \in WithItem => job[h].item \in Products
        /\ at[h] \in WithGuest => job[h].guest # NoCart /\ Exists(job[h].guest)

\* getOrCreateCart and mergeGuestCart look for an ACTIVE cart and then create
\* one, with no constraint of the database behind them.  However requests
\* interleave, fail and are repeated, an owner has at most one ACTIVE cart for
\* every request that may be under way.
ActiveCartsBounded ==
    \A who \in Owners : Cardinality(ActiveOf(who)) <= Cardinality(Handlers)

\* No interleaving of addItem, updateItem and mergeGuestCart, each of which
\* writes a quantity computed from an earlier read, puts more of a product in a
\* cart than maxCartQty allows.
QuantityWithinLimit ==
    \A c \in CartIds, p \in Products : Exists(c) => carts[c].qty[p] <= MaxQty

\* What is cached for the user is a cart of the user, and likewise for the
\* session: no merge, failure or late write to Redis crosses the two keys.
CacheOwner ==
    \A k \in Owners : cache[k] # NoCart => carts[cache[k]].owner = k

\* Once createOrderFromCart has ordered a cart, the cart stays COMPLETED: later
\* merges, updates through a stale cache and the nightly expiry leave it so.
OrderedCartCompleted ==
    \A o \in orders : carts[o.cart].status = "COMPLETED"

\* What the scheduler's tests say ("should invalidate cache for expired carts"):
\* when no request is under way, a cached cart is still ACTIVE.
CachedCartIsActive ==
    (\A h \in Handlers : at[h] = "idle")
        => \A k \in Owners : cache[k] # NoCart => carts[cache[k]].status = "ACTIVE"

\* What the merge route documents ("Merged from guest cart (qty 2 + 1)"): the
\* items of the guest carts are added once, so that the user's carts, filled by
\* merges alone, hold no more of a product than the guest carts do.
MergedOnce ==
    \A p \in Products :
        LET held(who) == MapThenSumSet(LAMBDA c : IF Exists(c) /\ carts[c].owner = who
                                                  THEN carts[c].qty[p] ELSE 0, CartIds)
        IN  held("user") <= held("session")

=============================================================================
