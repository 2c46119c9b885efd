------------------------------ MODULE CartProofs ------------------------------
(***************************************************************************)
(* Proofs about Cart, for any number of requests, carts and products:      *)
(* types, that Redis never holds the other owner's cart, the limit on a    *)
(* quantity, the number of ACTIVE carts, and that an ordered cart stays    *)
(* COMPLETED.                                                              *)
(***************************************************************************)
EXTENDS Cart, FiniteSetTheorems, TLAPS

\* In a given state of the table, c is a cart of this owner.
Owned(cs, c, who) == c \in CartIds /\ cs[c] # NoCart /\ cs[c].owner = who

\* What a request that is at a place knows: the cart it works on is the one of
\* its owner, the cart to merge is the session's, the operation is one that
\* comes there, and the quantities it will write are within the limit.
Good(cs, place, j) ==
    /\ place \in Locations
    /\ j \in Jobs
    /\ place \in WithCart => Owned(cs, j.cart, j.who)
    /\ place \in WithItem => j.item \in Products
    /\ place \in WithGuest => Owned(cs, j.guest, "session")
    /\ j.op \in {"checkout", "merge"} => j.who = "user"
    /\ place \in {"lookup", "find", "create", "warm"} =>
         /\ j.op # "merge"
         /\ j.op \in {"add", "update", "remove"} => j.item \in Products
    /\ place \in {"readItem", "writeItem"} => j.op \in {"add", "update"}
    /\ place = "deleteItem" => j.op = "remove"
    /\ place \in {"readTotals", "writeTotals"} => j.op \notin {"get", "clear"}
    /\ place \in {"readCart", "order"} => j.op = "checkout"
    /\ place \in WithGuest \cup {"findGuest", "invalidateGuest"} => j.op = "merge"
    /\ place = "writeItem" => (IF j.op = "add" THEN j.seen + j.n ELSE j.n) <= MaxQty
    /\ place \in WithGuest \ {"closeEmpty"} => \A p \in Products : j.bag[p] <= MaxQty

HandlersOK ==
    /\ at \in [Handlers -> Locations]
    /\ job \in [Handlers -> Jobs]
    /\ \A h \in Handlers : Good(carts, at[h], job[h])

CacheOK ==
    /\ cache \in [Owners -> CartIds \cup {NoCart}]
    /\ \A k \in Owners : cache[k] # NoCart => Owned(carts, cache[k], k)

\* Only carts of the user are ordered.
OrdersOK ==
    /\ orders \subseteq [cart : CartIds, items : [Products -> Nat], total : [Products -> Nat]]
    /\ \A o \in orders : Owned(carts, o.cart, "user") /\ carts[o.cart].status = "COMPLETED"

CartsOK ==
    /\ carts \in [CartIds -> CartRows \cup {NoCart}]
    /\ QuantityWithinLimit

\* Requests about to create a cart of this owner.
Creating(who) == {h \in Handlers : at[h] \in {"create", "createTarget"} /\ job[h].who = who}

\* An owner's ACTIVE carts, and those about to be, are no more than requests.
CartsBounded ==
    \A who \in Owners : Cardinality(ActiveOf(who)) + Cardinality(Creating(who)) <= Cardinality(Handlers)

\* The inductive invariant.
CartInv == CartsOK /\ CacheOK /\ OrdersOK /\ HandlersOK /\ CartsBounded /\ cron \in Owners

\* What a step may do to the table: rows stay, with their owner, and an ordered
\* cart of the user stays COMPLETED...
RowsKept ==
    /\ CartsOK'
    /\ \A c \in CartIds : Exists(c) =>
         /\ carts'[c] # NoCart
         /\ carts'[c].owner = carts[c].owner
         /\ carts[c].owner = "user" /\ carts[c].status = "COMPLETED" => carts'[c].status = "COMPLETED"

\* ...and, unless a cart is created, none becomes ACTIVE.
CartsKept ==
    /\ RowsKept
    /\ \A who \in Owners : ActiveOf(who)' \subseteq ActiveOf(who)

\* Request h goes on, knowing j.
Moves(h, place, j) ==
    /\ at' = [at EXCEPT ![h] = place]
    /\ job' = [job EXCEPT ![h] = j]

-----------------------------------------------------------------------------
(***************************************************************************)
(* What steps keep, whatever action they are of.                           *)
(***************************************************************************)

\* A cart keeps its owner.
LEMMA OwnedKept ==
    ASSUME RowsKept, NEW c, NEW who, Owned(carts, c, who)
    PROVE  Owned(carts', c, who)
BY DEF RowsKept, Owned, Exists

\* So what a request knows stays true while others change the table.
LEMMA GoodKept ==
    ASSUME RowsKept, NEW place, NEW j, Good(carts, place, j)
    PROVE  Good(carts', place, j)
<1>1. place \in WithCart => Owned(carts', j.cart, j.who)
  BY OwnedKept DEF Good
<1>2. place \in WithGuest => Owned(carts', j.guest, "session")
  BY OwnedKept DEF Good
<1>3. QED
  BY <1>1, <1>2 DEF Good

\* A request that moves to a good place leaves every request good.
LEMMA HandlersMove ==
    ASSUME HandlersOK, RowsKept, NEW h \in Handlers, NEW p, NEW j, Moves(h, p, j),
           Good(carts', p, j)
    PROVE  HandlersOK'
<1>1. p \in Locations /\ j \in Jobs
  BY DEF Good
<1>2. at' \in [Handlers -> Locations] /\ job' \in [Handlers -> Jobs]
  BY <1>1 DEF HandlersOK, Moves
<1>3. ASSUME NEW g \in Handlers PROVE Good(carts', at'[g], job'[g])
  <2>1. CASE g = h
    <3>1. at'[g] = p /\ job'[g] = j
      BY <2>1 DEF HandlersOK, Moves
    <3>2. QED
      BY <3>1
  <2>2. CASE g # h
    <3>1. at'[g] = at[g] /\ job'[g] = job[g]
      BY <2>2 DEF HandlersOK, Moves
    <3>2. Good(carts', at[g], job[g])
      BY GoodKept DEF HandlersOK
    <3>3. QED
      BY <3>1, <3>2
  <2>3. QED
    BY <2>1, <2>2
<1>4. QED
  BY <1>2, <1>3 DEF HandlersOK

\* The cache stays right while the rows keep their owners.
LEMMA CacheKept ==
    ASSUME CacheOK, RowsKept, UNCHANGED cache
    PROVE  CacheOK'
<1>1. ASSUME NEW k \in Owners, cache[k] # NoCart PROVE Owned(carts', cache[k], k)
  BY <1>1, OwnedKept DEF CacheOK
<1>2. QED
  BY <1>1 DEF CacheOK

\* The carts of the orders stay completed while completed carts do.
LEMMA OrdersKept ==
    ASSUME OrdersOK, RowsKept, UNCHANGED orders
    PROVE  OrdersOK'
<1>1. ASSUME NEW o \in orders
      PROVE  Owned(carts', o.cart, "user") /\ carts'[o.cart].status = "COMPLETED"
  <2>1. Owned(carts, o.cart, "user") /\ carts[o.cart].status = "COMPLETED"
    BY DEF OrdersOK
  <2>2. QED
    BY <2>1, OwnedKept DEF RowsKept, Owned, Exists
<1>2. QED
  BY <1>1 DEF OrdersOK

\* Carts and creators are finitely many.
LEMMA Finite ==
    ASSUME NEW who
    PROVE  /\ IsFiniteSet(ActiveOf(who)) /\ Cardinality(ActiveOf(who)) \in Nat
           /\ IsFiniteSet(Creating(who)) /\ Cardinality(Creating(who)) \in Nat
           /\ Cardinality(Creating(who)) <= Cardinality(Handlers)
           /\ Cardinality(Handlers) \in Nat
<1>1. ActiveOf(who) \in SUBSET CartIds /\ Creating(who) \in SUBSET Handlers
  BY DEF ActiveOf, Creating
<1>2. QED
  BY <1>1, FS_Subset, FS_CardinalityType, CartAssumptions

\* The count of carts stays within bounds when neither a cart nor a creator is added.
LEMMA BoundKept ==
    ASSUME CartsBounded, CartsKept, \A who \in Owners : Creating(who)' \subseteq Creating(who)
    PROVE  CartsBounded'
<1> SUFFICES ASSUME NEW who \in Owners
             PROVE  Cardinality(ActiveOf(who)') + Cardinality(Creating(who)') <= Cardinality(Handlers)
  BY DEF CartsBounded
<1>1. ActiveOf(who)' \in SUBSET ActiveOf(who) /\ Creating(who)' \in SUBSET Creating(who)
  BY DEF CartsKept
<1>2. /\ Cardinality(ActiveOf(who)') <= Cardinality(ActiveOf(who)) /\ Cardinality(ActiveOf(who)') \in Nat
      /\ Cardinality(Creating(who)') <= Cardinality(Creating(who)) /\ Cardinality(Creating(who)') \in Nat
  BY <1>1, Finite, FS_Subset, FS_CardinalityType
<1>3. Cardinality(ActiveOf(who)) + Cardinality(Creating(who)) <= Cardinality(Handlers)
  BY DEF CartsBounded
<1>4. QED
  BY <1>2, <1>3, Finite

\* A request that moves elsewhere adds no creator.
LEMMA NoneCreates ==
    ASSUME HandlersOK, NEW h \in Handlers, NEW p, NEW j, Moves(h, p, j),
           p \notin {"create", "createTarget"}
    PROVE  \A who \in Owners : Creating(who)' \subseteq Creating(who)
BY DEF HandlersOK, Moves, Creating

\* A step that moves one request, other than to create a cart.
LEMMA StepMoves ==
    ASSUME CartInv, CartsKept, NEW h \in Handlers, NEW p, NEW j, Moves(h, p, j),
           p \notin {"create", "createTarget"}, Good(carts', p, j),
           CacheOK', OrdersOK', UNCHANGED cron
    PROVE  CartInv'
<1>1. HandlersOK'
  BY HandlersMove DEF CartInv, CartsKept
<1>2. CartsBounded'
  BY NoneCreates, BoundKept DEF CartInv
<1>3. QED
  BY <1>1, <1>2 DEF CartInv, CartsKept, RowsKept

\* Carts that do not change are kept.
LEMMA SameCarts ==
    ASSUME CartsOK, UNCHANGED carts
    PROVE  CartsKept
BY DEF CartsOK, CartsKept, RowsKept, QuantityWithinLimit, ActiveOf, Exists

\* A step that moves one request and writes nothing.
LEMMA OnlyMoves ==
    ASSUME CartInv, NEW h \in Handlers, NEW p, NEW j, Moves(h, p, j),
           p \notin {"create", "createTarget"}, Good(carts, p, j),
           UNCHANGED <<carts, cache, orders, cron>>
    PROVE  CartInv'
<1>1. CartsKept
  BY SameCarts DEF CartInv
<1>2. CacheOK' /\ OrdersOK'
  BY <1>1, CacheKept, OrdersKept DEF CartInv, CartsKept
<1>3. QED
  BY <1>1, <1>2, StepMoves

\* A request that ends knows nothing.
LEMMA IdleGood ==
    ASSUME NEW cs
    PROVE  IdleJob \in Jobs /\ NoItems \in [Products -> Nat] /\ Good(cs, "idle", IdleJob)
<1>1. NoItems \in [Products -> Nat]
  BY DEF NoItems
<1>2. IdleJob \in Jobs
  BY <1>1 DEF IdleJob, Jobs, Owners
<1>3. QED
  BY <1>1, <1>2 DEF Good, Locations, WithCart, WithItem, WithGuest, IdleJob

\* The end of a request is a move to rest.
LEMMA Ends ==
    ASSUME NEW h \in Handlers, NEW from, End(h, from)
    PROVE  Moves(h, "idle", IdleJob)
BY DEF End, Goto, Moves

\* A request that ends and writes nothing.
LEMMA OnlyEnds ==
    ASSUME CartInv, NEW h \in Handlers, NEW from, End(h, from),
           UNCHANGED <<carts, cache, orders, cron>>
    PROVE  CartInv'
<1>1. Moves(h, "idle", IdleJob) /\ Good(carts, "idle", IdleJob)
  BY Ends, IdleGood
<1>2. QED
  BY <1>1, OnlyMoves

\* One row is written: the owner stays, and the status does unless the cart is
\* completed, or closed and the session's.
LEMMA RowWritten ==
    ASSUME CartsOK, NEW c \in CartIds, Exists(c), NEW r \in CartRows,
           carts' = [carts EXCEPT ![c] = r],
           r.owner = carts[c].owner,
           \A p \in Products : r.qty[p] <= MaxQty,
           \/ r.status = carts[c].status
           \/ r.status = "COMPLETED"
           \/ r.status # "ACTIVE" /\ carts[c].owner = "session"
    PROVE  CartsKept
<1>1. carts \in [CartIds -> CartRows \cup {NoCart}] /\ r # NoCart
  BY CartAssumptions DEF CartsOK
<1>2. \A d \in CartIds : carts'[d] = IF d = c THEN r ELSE carts[d]
  BY <1>1
<1>3. CartsOK'
  <2>1. carts' \in [CartIds -> CartRows \cup {NoCart}]
    BY <1>1
  <2>2. QuantityWithinLimit'
    BY <1>2 DEF CartsOK, QuantityWithinLimit, Exists
  <2>3. QED
    BY <2>1, <2>2 DEF CartsOK
<1>4. QED
  BY <1>1, <1>2, <1>3 DEF CartsKept, RowsKept, ActiveOf, Exists

-----------------------------------------------------------------------------
(***************************************************************************)
(* getOrCreateCart.                                                        *)
(***************************************************************************)

\* What a request knows has its type.
LEMMA JobTypes ==
    ASSUME NEW j \in Jobs
    PROVE  /\ j.op \in {"get", "add", "update", "remove", "clear", "checkout", "merge"}
           /\ j.who \in Owners
           /\ j.n \in Nat /\ j.seen \in Nat
           /\ j.bag \in [Products -> Nat] /\ j.sum \in [Products -> Nat]
           /\ j.todo \in SUBSET Products
BY DEF Jobs

\* What the invariant says of one request.
LEMMA AtHandler ==
    ASSUME CartInv, NEW h \in Handlers
    PROVE  /\ Good(carts, at[h], job[h]) /\ job[h] \in Jobs
           /\ CartsOK /\ CacheOK /\ OrdersOK /\ HandlersOK
BY DEF CartInv, HandlersOK

\* A request arrives.
LEMMA RequestKeeps ==
    ASSUME CartInv, NEW h \in Handlers, NEW op, NEW who \in Owners, NEW p \in Products,
           NEW n \in 0 .. MaxQty, Request(h, op, who, p, n)
    PROVE  CartInv'
<1> DEFINE k == [IdleJob EXCEPT !.op = op, !.who = who, !.n = n,
                                !.item = IF op \in {"add", "update", "remove"} THEN p ELSE NoCart]
           place == IF op = "merge" THEN "findGuest" ELSE "lookup"
<1>1. Moves(h, place, k)
  BY DEF Request, Goto, Know, Moves
<1>2. op \in {"get", "add", "update", "remove", "clear", "checkout", "merge"} /\ n \in Nat
  BY CartAssumptions DEF Request, AllOps
<1>3. /\ k \in Jobs /\ k.op = op /\ k.who = who
      /\ op \in {"add", "update", "remove"} => k.item \in Products
  <2> DEFINE item == IF op \in {"add", "update", "remove"} THEN p ELSE NoCart
             given == [IdleJob EXCEPT !.op = op, !.who = who, !.n = n, !.item = item]
  <2>1. item \in Products \cup {NoCart} /\ (op \in {"add", "update", "remove"} => item \in Products)
    OBVIOUS
  <2> HIDE DEF item
  <2>2. given \in Jobs /\ given.op = op /\ given.who = who /\ given.item = item
    BY <1>2, <2>1, IdleGood DEF Jobs
  <2>3. k = given
    BY DEF item
  <2> HIDE DEF given
  <2>4. QED
    BY <2>1, <2>2, <2>3
<1>4. op \in {"checkout", "merge"} => who = "user"
  BY DEF Request
<1> HIDE DEF k
<1>5. Good(carts, place, k)
  BY <1>3, <1>4 DEF Good, Locations, WithCart, WithItem, WithGuest
<1>6. QED
  BY <1>1, <1>5, OnlyMoves DEF Request

\* A handler that is given a cart of its owner.
LEMMA TakeGood ==
    ASSUME NEW cs, NEW c, NEW j, NEW from \in {"lookup", "warm"},
           Good(cs, from, j), j.op # "get", Owned(cs, c, j.who)
    PROVE  /\ Good(cs, AfterCart[j.op], [j EXCEPT !.cart = c])
           /\ AfterCart[j.op] \notin {"create", "createTarget"}
<1> DEFINE k == [j EXCEPT !.cart = c]
           place == AfterCart[j.op]
<1>1. j \in Jobs /\ c \in CartIds
  BY DEF Good, Owned
<1>2. /\ k \in Jobs /\ k.op = j.op /\ k.who = j.who /\ k.item = j.item /\ k.cart = c
  BY <1>1 DEF Jobs
<1>3. j.op \in {"add", "update", "remove", "clear", "checkout"}
  BY <1>1, JobTypes DEF Good
<1>4. /\ j.op \in {"add", "update"} => place = "readItem"
      /\ j.op = "remove" => place = "deleteItem"
      /\ j.op = "clear" => place = "clearItems"
      /\ j.op = "checkout" => place = "readTotals"
  BY DEF AfterCart
<1>5. /\ j.op \in {"add", "update", "remove"} => j.item \in Products
      /\ j.op = "checkout" => j.who = "user"
  BY DEF Good
<1> HIDE DEF k, place
<1>6. Good(cs, place, k) /\ place \notin {"create", "createTarget"}
  BY <1>2, <1>3, <1>4, <1>5 DEF Good, Locations, WithCart, WithItem, WithGuest
<1>7. QED
  BY <1>6 DEF k, place

\* The answer is given, or the handler goes on with the cart.
LEMMA TakeMoves ==
    ASSUME CartInv, NEW h \in Handlers, NEW from \in {"lookup", "warm"}, NEW c,
           Take(h, from, c), Owned(carts, c, job[h].who)
    PROVE  \E place, j : /\ Moves(h, place, j) /\ Good(carts, place, j)
                         /\ place \notin {"create", "createTarget"}
<1>1. CASE job[h].op = "get"
  <2>1. Moves(h, "idle", IdleJob)
    BY <1>1, Ends DEF Take
  <2>2. QED
    BY <2>1, IdleGood
<1>2. CASE job[h].op # "get"
  <2>1. Moves(h, AfterCart[job[h].op], [job[h] EXCEPT !.cart = c]) /\ at[h] = from
    BY <1>2 DEF Take, Goto, Know, Moves
  <2>2. Good(carts, from, job[h])
    BY <2>1, AtHandler
  <2>3. QED
    BY <1>2, <2>1, <2>2, TakeGood
<1>3. QED
  BY <1>1, <1>2

\* What is cached is a cart of the request's owner.
LEMMA CacheHitKeeps ==
    ASSUME CartInv, NEW h \in Handlers, CacheHit(h)
    PROVE  CartInv'
<1>1. Owned(carts, cache[job[h].who], job[h].who)
  BY AtHandler, JobTypes DEF CacheOK, CacheHit
<1>2. PICK place, j : /\ Moves(h, place, j) /\ Good(carts, place, j)
                      /\ place \notin {"create", "createTarget"}
  BY <1>1, TakeMoves DEF CacheHit
<1>3. QED
  BY <1>2, OnlyMoves DEF CacheHit

\* A handler that moves with what it knows.
LEMMA Goes ==
    ASSUME CartInv, NEW h \in Handlers, NEW from, NEW to, Goto(h, from, to), UNCHANGED job
    PROVE  Moves(h, to, job[h])
BY DEF CartInv, HandlersOK, Goto, Moves

\* getCart misses the cache.
LEMMA CacheMissKeeps ==
    ASSUME CartInv, NEW h \in Handlers, CacheMiss(h)
    PROVE  CartInv'
<1>1. Moves(h, "find", job[h]) /\ at[h] = "lookup"
  BY Goes DEF CacheMiss, Goto
<1>2. Good(carts, "find", job[h])
  BY <1>1, AtHandler DEF Good, Locations, WithCart, WithItem, WithGuest
<1>3. QED
  BY <1>1, <1>2, OnlyMoves DEF CacheMiss

\* Nobody has an ACTIVE cart: then the requests about to create one are all
\* there is to count.
LEMMA CreatorComes ==
    ASSUME CartInv, NEW h \in Handlers, NEW p \in {"create", "createTarget"},
           Moves(h, p, job[h]), Good(carts, p, job[h]), ActiveOf(job[h].who) = {},
           UNCHANGED <<carts, cache, orders, cron>>
    PROVE  CartInv'
<1>1. CartsKept
  BY SameCarts DEF CartInv
<1>2. CartsOK' /\ CacheOK' /\ OrdersOK'
  BY <1>1, CacheKept, OrdersKept DEF CartInv, CartsKept, RowsKept
<1>3. HandlersOK'
  BY <1>1, HandlersMove DEF CartInv, CartsKept
<1>4. CartsBounded'
  <2> SUFFICES ASSUME NEW who \in Owners
               PROVE  Cardinality(ActiveOf(who)') + Cardinality(Creating(who)') <= Cardinality(Handlers)
    BY DEF CartsBounded
  <2>1. ActiveOf(who)' = ActiveOf(who)
    BY DEF ActiveOf, Exists
  <2>2. CASE who = job[h].who
    <3>1. Cardinality(Creating(who)') \in Nat /\ Cardinality(Creating(who)') <= Cardinality(Handlers)
      <4>1. Creating(who)' \in SUBSET Handlers
        BY DEF Creating
      <4>2. QED
        BY <4>1, FS_Subset, FS_CardinalityType, CartAssumptions
    <3>2. Cardinality(ActiveOf(who)') = 0
      BY <2>1, <2>2, FS_EmptySet
    <3>3. QED
      BY <3>1, <3>2
  <2>3. CASE who # job[h].who
    <3>1. Creating(who)' = Creating(who)
      BY <2>3 DEF Creating, Moves, CartInv, HandlersOK
    <3>2. QED
      BY <2>1, <3>1 DEF CartInv, CartsBounded
  <2>4. QED
    BY <2>2, <2>3
<1>5. QED
  BY <1>2, <1>3, <1>4 DEF CartInv

\* The active cart of the owner is looked up, and found or not.
LEMMA FindCartKeeps ==
    ASSUME CartInv, NEW h \in Handlers, FindCart(h)
    PROVE  CartInv'
<1>0. at[h] = "find" /\ Good(carts, "find", job[h]) /\ job[h] \in Jobs
      /\ UNCHANGED <<carts, cache, orders, cron>>
  BY AtHandler DEF FindCart, Goto
<1>1. ASSUME NEW c \in ActiveOf(job[h].who), Goto(h, "find", "warm"),
             Know(h, [job[h] EXCEPT !.cart = c])
      PROVE  CartInv'
  <2> DEFINE k == [job[h] EXCEPT !.cart = c]
  <2>1. Moves(h, "warm", k)
    BY <1>1 DEF Goto, Know, Moves
  <2>2. Owned(carts, c, job[h].who)
    BY <1>1 DEF ActiveOf, Owned, Exists
  <2>3. /\ k \in Jobs /\ k.op = job[h].op /\ k.who = job[h].who /\ k.item = job[h].item /\ k.cart = c
    BY <1>0, <2>2 DEF Jobs, Owned
  <2> HIDE DEF k
  <2>4. Good(carts, "warm", k)
    BY <1>0, <2>2, <2>3 DEF Good, Locations, WithCart, WithItem, WithGuest
  <2>5. QED
    BY <1>0, <2>1, <2>4, OnlyMoves
<1>2. ASSUME ActiveOf(job[h].who) = {}, Goto(h, "find", "create"), UNCHANGED job
      PROVE  CartInv'
  <2>1. Moves(h, "create", job[h])
    BY <1>2, Goes
  <2>2. Good(carts, "create", job[h])
    BY <1>0 DEF Good, Locations, WithCart, WithItem, WithGuest
  <2>3. QED
    BY <1>0, <1>2, <2>1, <2>2, CreatorComes
<1>3. QED
  BY <1>1, <1>2 DEF FindCart

\* A cart is created: one ACTIVE cart more, one request fewer about to create.
LEMMA CartCreated ==
    ASSUME CartInv, NEW h \in Handlers, NEW c \in CartIds, ~Exists(c),
           at[h] \in {"create", "createTarget"},
           carts' = [carts EXCEPT ![c] = NewCart(job[h].who)],
           NEW p, NEW j, Moves(h, p, j), p \notin {"create", "createTarget"},
           Owned(carts', c, job[h].who) => Good(carts', p, j),
           UNCHANGED <<cache, orders, cron>>
    PROVE  CartInv'
<1>0. /\ CartsOK /\ CacheOK /\ OrdersOK /\ HandlersOK /\ CartsBounded /\ job[h].who \in Owners
  BY AtHandler, JobTypes DEF CartInv
<1> DEFINE r == NewCart(job[h].who)
<1>1. r \in CartRows /\ r.owner = job[h].who /\ r.status = "ACTIVE" /\ r.qty = NoItems
  BY <1>0, IdleGood DEF NewCart, CartRows
<1> HIDE DEF r
<1>2. /\ carts \in [CartIds -> CartRows \cup {NoCart}] /\ r # NoCart
      /\ carts' \in [CartIds -> CartRows \cup {NoCart}]
      /\ \A d \in CartIds : carts'[d] = IF d = c THEN r ELSE carts[d]
  BY <1>0, <1>1, CartAssumptions DEF CartsOK, r
<1>3. RowsKept
  <2>1. QuantityWithinLimit'
    BY <1>0, <1>1, <1>2, CartAssumptions DEF CartsOK, QuantityWithinLimit, Exists, NoItems
  <2>2. QED
    BY <1>2, <2>1 DEF RowsKept, CartsOK, Exists
<1>4. HandlersOK'
  BY <1>0, <1>1, <1>2, <1>3, HandlersMove DEF Owned
<1>5. CacheOK' /\ OrdersOK'
  BY <1>0, <1>3, CacheKept, OrdersKept
<1>6. CartsBounded'
  <2> SUFFICES ASSUME NEW who \in Owners
               PROVE  Cardinality(ActiveOf(who)') + Cardinality(Creating(who)') <= Cardinality(Handlers)
    BY DEF CartsBounded
  <2>1. CASE who = job[h].who
    <3>1. ActiveOf(who)' = ActiveOf(who) \cup {c} /\ c \notin ActiveOf(who)
      BY <1>1, <1>2, <2>1 DEF ActiveOf, Exists
    <3>2. Creating(who)' = Creating(who) \ {h} /\ h \in Creating(who)
      BY <1>0, <2>1 DEF Creating, Moves, HandlersOK
    <3> DEFINE active == ActiveOf(who)
               creating == Creating(who)
    <3>3. IsFiniteSet(active) /\ IsFiniteSet(creating)
      BY Finite
    <3> HIDE DEF active, creating
    <3>4. Cardinality(active \cup {c}) = Cardinality(active) + 1
      BY <3>1, <3>3, FS_AddElement DEF active
    <3>5. Cardinality(creating \ {h}) = Cardinality(creating) - 1
      BY <3>2, <3>3, FS_RemoveElement DEF creating
    <3>6. QED
      BY <1>0, <3>1, <3>2, <3>4, <3>5, Finite DEF CartsBounded, active, creating
  <2>2. CASE who # job[h].who
    <3>1. ActiveOf(who)' = ActiveOf(who)
      BY <1>1, <1>2, <2>2 DEF ActiveOf, Exists
    <3>2. Creating(who)' = Creating(who)
      BY <1>0, <2>2 DEF Creating, Moves, HandlersOK
    <3>3. QED
      BY <1>0, <3>1, <3>2 DEF CartsBounded
  <2>3. QED
    BY <2>1, <2>2
<1>7. QED
  BY <1>3, <1>4, <1>5, <1>6 DEF CartInv, RowsKept

\* The request inserts the cart it did not find.
LEMMA CreateCartKeeps ==
    ASSUME CartInv, NEW h \in Handlers, NEW c \in CartIds, CreateCart(h, c)
    PROVE  CartInv'
<1> DEFINE k == [job[h] EXCEPT !.cart = c]
<1>0. at[h] = "create" /\ Good(carts, "create", job[h]) /\ job[h] \in Jobs
  BY AtHandler DEF CreateCart, Goto
<1>1. Moves(h, "warm", k)
  BY DEF CreateCart, Goto, Know, Moves
<1>2. /\ k \in Jobs /\ k.op = job[h].op /\ k.who = job[h].who /\ k.item = job[h].item /\ k.cart = c
  BY <1>0 DEF Jobs
<1> HIDE DEF k
<1>3. Owned(carts', c, job[h].who) => Good(carts', "warm", k)
  BY <1>0, <1>2 DEF Good, Locations, WithCart, WithItem, WithGuest
<1>4. QED
  BY <1>0, <1>1, <1>3, CartCreated DEF CreateCart

\* Only the cart that the handler holds, of its owner, is cached for the owner.
LEMMA WarmCacheKeeps ==
    ASSUME CartInv, NEW h \in Handlers, WarmCache(h)
    PROVE  CartInv'
<1>0. at[h] = "warm" /\ Good(carts, "warm", job[h]) /\ job[h].who \in Owners
      /\ CartsOK /\ CacheOK /\ OrdersOK
  BY AtHandler, JobTypes DEF WarmCache, Take, End, Goto
<1>1. Owned(carts, job[h].cart, job[h].who)
  BY <1>0 DEF Good, WithCart
<1>2. PICK place, j : /\ Moves(h, place, j) /\ Good(carts, place, j)
                      /\ place \notin {"create", "createTarget"}
  BY <1>1, TakeMoves DEF WarmCache
<1>3. CartsKept /\ UNCHANGED <<carts, orders, cron>>
  BY <1>0, SameCarts DEF WarmCache
<1>4. CacheOK'
  <2>1. CASE UNCHANGED cache
    BY <1>0, <1>3, <2>1, CacheKept DEF CartsKept
  <2>2. CASE cache' = [cache EXCEPT ![job[h].who] = job[h].cart]
    BY <1>0, <1>1, <1>3, <2>2 DEF CacheOK, Owned
  <2>3. QED
    BY <2>1, <2>2 DEF WarmCache
<1>5. OrdersOK'
  BY <1>0, <1>3, OrdersKept DEF CartsKept
<1>6. QED
  BY <1>2, <1>3, <1>4, <1>5, StepMoves

-----------------------------------------------------------------------------
(***************************************************************************)
(* Items and totals.                                                       *)
(***************************************************************************)

\* The cart that a handler works on.
LEMMA CartOf ==
    ASSUME CartInv, NEW h \in Handlers, at[h] \in WithCart
    PROVE  /\ job[h].cart \in CartIds /\ Exists(job[h].cart)
           /\ carts[job[h].cart] \in CartRows
           /\ carts[job[h].cart].owner = job[h].who
           /\ carts[job[h].cart].qty \in [Products -> Nat]
           /\ carts[job[h].cart].total \in [Products -> Nat]
           /\ \A p \in Products : carts[job[h].cart].qty[p] <= MaxQty
<1>1. Owned(carts, job[h].cart, job[h].who)
  BY AtHandler DEF Good
<1>2. job[h].cart \in CartIds /\ Exists(job[h].cart) /\ carts[job[h].cart].owner = job[h].who
  BY <1>1 DEF Owned, Exists
<1>3. carts[job[h].cart] \in CartRows
  BY <1>2 DEF CartInv, CartsOK, Exists
<1>4. \A p \in Products : carts[job[h].cart].qty[p] <= MaxQty
  BY <1>2 DEF CartInv, CartsOK, QuantityWithinLimit
<1>5. QED
  BY <1>2, <1>3, <1>4 DEF CartRows

\* The quantity to write has been validated.
LEMMA ReadItemKeeps ==
    ASSUME CartInv, NEW h \in Handlers, ReadItem(h)
    PROVE  CartInv'
<1> DEFINE q == carts[job[h].cart].qty[job[h].item]
           found == q > 0
           twice == (job[h].op = "add" /\ q > 0)
           k == [job[h] EXCEPT !.seen = q, !.row = found, !.again = twice]
<1>0. /\ at[h] = "readItem" /\ Good(carts, "readItem", job[h]) /\ job[h] \in Jobs
      /\ UNCHANGED <<carts, cache, orders, cron>>
  BY AtHandler DEF ReadItem
<1>1. job[h].item \in Products /\ Owned(carts, job[h].cart, job[h].who) /\ job[h].op \in {"add", "update"}
  BY <1>0 DEF Good, WithItem, WithCart
<1>2. q \in Nat
  BY <1>0, <1>1, CartOf DEF WithCart
<1>3. ASSUME IF job[h].op = "add" THEN q + job[h].n <= MaxQty ELSE q > 0 /\ job[h].n <= MaxQty,
             Moves(h, "writeItem", k)
      PROVE  CartInv'
  <2>0. found \in BOOLEAN /\ twice \in BOOLEAN
    OBVIOUS
  <2> HIDE DEF found, twice, q
  <2>1. k \in Jobs
    BY <1>0, <1>2, <2>0 DEF Jobs
  <2>2. /\ k.op = job[h].op /\ k.who = job[h].who /\ k.item = job[h].item /\ k.cart = job[h].cart
        /\ k.seen = q /\ k.n = job[h].n
    BY <1>0 DEF Jobs
  <2> HIDE DEF k
  <2>3. Good(carts, "writeItem", k)
    BY <1>0, <1>1, <1>3, <2>1, <2>2 DEF Good, Locations, WithCart, WithItem, WithGuest
  <2>4. QED
    BY <1>0, <1>3, <2>3, OnlyMoves
<1>4. ASSUME End(h, "readItem") PROVE CartInv'
  BY <1>0, <1>4, OnlyEnds
<1>5. QED
  BY <1>3, <1>4 DEF ReadItem, Quantity, Goto, Know, Moves

\* A row of the handler's cart is written, and the handler goes on.
LEMMA RowStep ==
    ASSUME CartInv, NEW h \in Handlers, NEW c \in CartIds, Exists(c), NEW r \in CartRows,
           carts' = [carts EXCEPT ![c] = r], r.owner = carts[c].owner,
           \A p \in Products : r.qty[p] <= MaxQty,
           \/ r.status = carts[c].status
           \/ r.status # "ACTIVE" /\ carts[c].owner = "session",
           NEW p, NEW j, Moves(h, p, j), p \notin {"create", "createTarget"}, Good(carts, p, j),
           UNCHANGED <<cache, orders, cron>>
    PROVE  CartInv'
<1>1. CartsKept
  BY RowWritten DEF CartInv
<1>2. Good(carts', p, j)
  BY <1>1, GoodKept DEF CartsKept
<1>3. CacheOK' /\ OrdersOK'
  BY <1>1, CacheKept, OrdersKept DEF CartInv, CartsKept
<1>4. QED
  BY <1>1, <1>2, <1>3, StepMoves

\* The item is written with the quantity that was computed before.
LEMMA WriteItemKeeps ==
    ASSUME CartInv, NEW h \in Handlers, WriteItem(h)
    PROVE  CartInv'
<1> DEFINE c == job[h].cart
           w == IF job[h].op = "add" THEN job[h].seen + job[h].n ELSE job[h].n
           r == [carts[c] EXCEPT !.qty[job[h].item] = w]
           k == [job[h] EXCEPT !.item = NoCart, !.n = 0, !.seen = 0, !.row = FALSE]
<1>0. /\ at[h] = "writeItem" /\ Good(carts, "writeItem", job[h]) /\ job[h] \in Jobs
      /\ UNCHANGED <<cache, orders, cron>>
  BY AtHandler DEF WriteItem
<1>1. /\ job[h].item \in Products /\ w <= MaxQty /\ job[h].op \in {"add", "update"}
      /\ Owned(carts, c, job[h].who)
  BY <1>0 DEF Good, WithItem, WithCart
<1>2. w \in Nat
  BY <1>0, JobTypes
<1>3. /\ c \in CartIds /\ Exists(c) /\ carts[c] \in CartRows /\ carts[c].qty \in [Products -> Nat]
      /\ \A p \in Products : carts[c].qty[p] <= MaxQty
  BY <1>0, CartOf DEF WithCart
<1>4. ASSUME carts' = [carts EXCEPT ![c].qty[job[h].item] = w], Moves(h, "readTotals", k)
      PROVE  CartInv'
  <2>1. carts' = [carts EXCEPT ![c] = r]
    BY <1>4
  <2>2. r \in CartRows /\ r.owner = carts[c].owner /\ r.status = carts[c].status
    BY <1>1, <1>2, <1>3 DEF CartRows
  <2>3. \A p \in Products : r.qty[p] <= MaxQty
    BY <1>1, <1>3 DEF CartRows
  <2>4. k \in Jobs /\ k.op = job[h].op /\ k.who = job[h].who /\ k.cart = c
    BY <1>0 DEF Jobs
  <2> HIDE DEF k, r, w
  <2>5. Good(carts, "readTotals", k)
    BY <1>1, <2>4 DEF Good, Locations, WithCart, WithItem, WithGuest
  <2> HIDE DEF c
  <2>6. QED
    BY <1>0, <1>3, <1>4, <2>1, <2>2, <2>3, <2>5, RowStep
<1>5. ASSUME End(h, "writeItem"), UNCHANGED carts PROVE CartInv'
  BY <1>0, <1>5, OnlyEnds
<1>6. QED
  BY <1>4, <1>5 DEF WriteItem, Wanted, Goto, Know, Moves

\* Item rows are deleted: handlers that held one lose it, and nothing else.
LEMMA RowLost ==
    ASSUME NEW cs, NEW place, NEW j, Good(cs, place, j)
    PROVE  Good(cs, place, [j EXCEPT !.row = FALSE]) /\ [j EXCEPT !.row = FALSE].who = j.who
<1> DEFINE k == [j EXCEPT !.row = FALSE]
<1>1. j \in Jobs
  BY DEF Good
<1>2. /\ k \in Jobs /\ k.op = j.op /\ k.who = j.who /\ k.cart = j.cart /\ k.item = j.item
      /\ k.n = j.n /\ k.seen = j.seen /\ k.guest = j.guest /\ k.bag = j.bag
  BY <1>1 DEF Jobs
<1> HIDE DEF k
<1>3. Good(cs, place, k)
  BY <1>2 DEF Good
<1>4. QED
  BY <1>2, <1>3 DEF k

\* The cart's quantities are written and rows deleted.
LEMMA DeleteStep ==
    ASSUME CartInv, NEW h \in Handlers, NEW c \in CartIds, Exists(c), NEW r \in CartRows,
           carts' = [carts EXCEPT ![c] = r], r.owner = carts[c].owner,
           \A p \in Products : r.qty[p] <= MaxQty,
           r.status = carts[c].status,
           NEW ps, RowsDeleted(c, ps),
           NEW p, at' = [at EXCEPT ![h] = p], p \notin {"create", "createTarget"},
           Good(carts, p, job[h]),
           UNCHANGED <<cache, orders, cron>>
    PROVE  CartInv'
<1>1. CartsKept
  BY RowWritten DEF CartInv
<1>2. CacheOK' /\ OrdersOK'
  BY <1>1, CacheKept, OrdersKept DEF CartInv, CartsKept
<1>3. ASSUME NEW g \in Handlers
      PROVE  Good(carts', at'[g], job'[g]) /\ job'[g].who = job[g].who
  <2>1. Good(carts, at'[g], job[g])
    BY DEF CartInv, HandlersOK
  <2>2. Good(carts', at'[g], job[g])
    BY <1>1, <2>1, GoodKept DEF CartsKept
  <2>3. CASE job'[g] = job[g]
    BY <2>2, <2>3
  <2>4. CASE job'[g] = [job[g] EXCEPT !.row = FALSE]
    <3> DEFINE k == [job[g] EXCEPT !.row = FALSE]
    <3>1. Good(carts', at'[g], k) /\ k.who = job[g].who
      BY <2>2, RowLost
    <3> HIDE DEF k
    <3>2. job'[g] = k
      BY <2>4 DEF k
    <3>3. QED
      BY <3>1, <3>2
  <2>5. QED
    BY <2>3, <2>4 DEF RowsDeleted
<1>4. HandlersOK'
  <2>1. p \in Locations
    BY DEF Good
  <2>2. at' \in [Handlers -> Locations]
    BY <2>1 DEF CartInv, HandlersOK
  <2>3. job' \in [Handlers -> Jobs]
    <3>1. job' = [g \in Handlers |-> job'[g]]
      BY DEF RowsDeleted
    <3>2. \A g \in Handlers : job'[g] \in Jobs
      BY <1>3 DEF Good
    <3>3. QED
      BY <3>1, <3>2
  <2>4. QED
    BY <1>3, <2>2, <2>3 DEF HandlersOK
<1>5. CartsBounded'
  <2>1. \A who \in Owners : Creating(who)' \subseteq Creating(who)
    BY <1>3 DEF Creating, CartInv, HandlersOK
  <2>2. QED
    BY <1>1, <2>1, BoundKept DEF CartInv
<1>6. QED
  BY <1>1, <1>2, <1>4, <1>5 DEF CartInv, CartsKept, RowsKept

\* The item is deleted.
LEMMA DeleteItemKeeps ==
    ASSUME CartInv, NEW h \in Handlers, DeleteItem(h)
    PROVE  CartInv'
<1> DEFINE c == job[h].cart
           r == [carts[c] EXCEPT !.qty[job[h].item] = 0]
<1>0. /\ at[h] = "deleteItem" /\ Good(carts, "deleteItem", job[h]) /\ job[h] \in Jobs
      /\ UNCHANGED <<cache, orders, cron>>
  BY AtHandler DEF DeleteItem
<1>1. job[h].item \in Products /\ job[h].op = "remove" /\ Owned(carts, c, job[h].who)
  BY <1>0 DEF Good, WithItem, WithCart
<1>2. /\ c \in CartIds /\ Exists(c) /\ carts[c] \in CartRows /\ carts[c].qty \in [Products -> Nat]
      /\ \A p \in Products : carts[c].qty[p] <= MaxQty
  BY <1>0, CartOf DEF WithCart
<1>3. ASSUME carts' = [carts EXCEPT ![c].qty[job[h].item] = 0],
             at' = [at EXCEPT ![h] = "readTotals"], RowsDeleted(c, {job[h].item})
      PROVE  CartInv'
  <2>1. carts' = [carts EXCEPT ![c] = r]
    BY <1>3
  <2>2. r \in CartRows /\ r.owner = carts[c].owner /\ r.status = carts[c].status
    BY <1>1, <1>2 DEF CartRows
  <2>3. \A p \in Products : r.qty[p] <= MaxQty
    BY <1>1, <1>2, CartAssumptions DEF CartRows
  <2>4. Good(carts, "readTotals", job[h])
    BY <1>0, <1>1 DEF Good, Locations, WithCart, WithItem, WithGuest
  <2> HIDE DEF c, r
  <2>5. QED
    BY <1>0, <1>2, <1>3, <2>1, <2>2, <2>3, <2>4, DeleteStep
<1>4. ASSUME End(h, "deleteItem"), UNCHANGED carts PROVE CartInv'
  BY <1>0, <1>4, OnlyEnds
<1>5. QED
  BY <1>3, <1>4 DEF DeleteItem, Goto

\* clearCart deletes all items.
LEMMA ClearItemsKeeps ==
    ASSUME CartInv, NEW h \in Handlers, ClearItems(h)
    PROVE  CartInv'
<1> DEFINE c == job[h].cart
           r == [carts[c] EXCEPT !.qty = NoItems]
<1>0. /\ at[h] = "clearItems" /\ Good(carts, "clearItems", job[h])
      /\ at' = [at EXCEPT ![h] = "clearTotals"] /\ RowsDeleted(c, Products)
      /\ UNCHANGED <<cache, orders, cron>>
  BY AtHandler DEF ClearItems, Goto
<1>1. c \in CartIds /\ Exists(c) /\ carts[c] \in CartRows
  BY <1>0, CartOf DEF WithCart
<1>2. carts' = [carts EXCEPT ![c] = r]
  BY DEF ClearItems
<1>3. r \in CartRows /\ r.owner = carts[c].owner /\ r.status = carts[c].status
  BY <1>1, IdleGood DEF CartRows
<1>4. \A p \in Products : r.qty[p] <= MaxQty
  BY <1>1, CartAssumptions DEF CartRows, NoItems
<1>5. Good(carts, "clearTotals", job[h])
  BY <1>0 DEF Good, Locations, WithCart, WithItem, WithGuest
<1> HIDE DEF c, r
<1>6. QED
  BY <1>0, <1>1, <1>2, <1>3, <1>4, <1>5, DeleteStep

\* clearCart resets the totals.
LEMMA ClearTotalsKeeps ==
    ASSUME CartInv, NEW h \in Handlers, ClearTotals(h)
    PROVE  CartInv'
<1> DEFINE c == job[h].cart
           r == [carts[c] EXCEPT !.total = NoItems, !.inactive = FALSE]
<1>0. /\ at[h] = "clearTotals" /\ Good(carts, "clearTotals", job[h])
      /\ Moves(h, "invalidate", job[h])
      /\ UNCHANGED <<cache, orders, cron>>
  BY AtHandler, Goes DEF ClearTotals, Goto
<1>1. /\ c \in CartIds /\ Exists(c) /\ carts[c] \in CartRows
      /\ \A p \in Products : carts[c].qty[p] <= MaxQty
  BY <1>0, CartOf DEF WithCart
<1>2. carts' = [carts EXCEPT ![c] = r]
  BY <1>1 DEF ClearTotals, CartInv, CartsOK
<1>3. r \in CartRows /\ r.owner = carts[c].owner /\ r.status = carts[c].status /\ r.qty = carts[c].qty
  BY <1>1, IdleGood DEF CartRows
<1>4. Good(carts, "invalidate", job[h])
  BY <1>0 DEF Good, Locations, WithCart, WithItem, WithGuest
<1> HIDE DEF c, r
<1>5. QED
  BY <1>0, <1>1, <1>2, <1>3, <1>4, RowStep

\* The totals are computed from the items.
LEMMA ReadTotalsKeeps ==
    ASSUME CartInv, NEW h \in Handlers, ReadTotals(h)
    PROVE  CartInv'
<1> DEFINE k == [job[h] EXCEPT !.sum = carts[job[h].cart].qty]
<1>0. /\ at[h] = "readTotals" /\ Good(carts, "readTotals", job[h]) /\ job[h] \in Jobs
      /\ Moves(h, "writeTotals", k)
      /\ UNCHANGED <<carts, cache, orders, cron>>
  BY AtHandler DEF ReadTotals, Goto, Know, Moves
<1>1. carts[job[h].cart].qty \in [Products -> Nat]
  BY <1>0, CartOf DEF WithCart
<1>2. k \in Jobs /\ k.op = job[h].op /\ k.who = job[h].who /\ k.cart = job[h].cart
  BY <1>0, <1>1 DEF Jobs
<1> HIDE DEF k
<1>3. Good(carts, "writeTotals", k)
  BY <1>0, <1>2 DEF Good, Locations, WithCart, WithItem, WithGuest
<1>4. QED
  BY <1>0, <1>3, OnlyMoves

\* The totals are written; an item that was there has them computed once more.
LEMMA WriteTotalsKeeps ==
    ASSUME CartInv, NEW h \in Handlers, WriteTotals(h)
    PROVE  CartInv'
<1> DEFINE c == job[h].cart
           r == [carts[c] EXCEPT !.total = job[h].sum, !.inactive = FALSE]
           k == [job[h] EXCEPT !.again = FALSE, !.sum = NoItems]
           place == IF job[h].again THEN "readTotals" ELSE AfterTotals[job[h].op]
<1>0. /\ at[h] = "writeTotals" /\ Good(carts, "writeTotals", job[h]) /\ job[h] \in Jobs
      /\ Moves(h, place, k)
      /\ UNCHANGED <<cache, orders, cron>>
  BY AtHandler DEF WriteTotals, Goto, Know, Moves
<1>1. /\ c \in CartIds /\ Exists(c) /\ carts[c] \in CartRows
      /\ \A p \in Products : carts[c].qty[p] <= MaxQty
  BY <1>0, CartOf DEF WithCart
<1>2. carts' = [carts EXCEPT ![c] = r]
  BY <1>1 DEF WriteTotals, CartInv, CartsOK
<1>3. r \in CartRows /\ r.owner = carts[c].owner /\ r.status = carts[c].status /\ r.qty = carts[c].qty
  BY <1>0, <1>1, JobTypes DEF CartRows
<1>4. k \in Jobs /\ k.op = job[h].op /\ k.who = job[h].who /\ k.cart = c
  BY <1>0, IdleGood DEF Jobs
<1>5. job[h].op \in {"add", "update", "remove", "checkout", "merge"}
  BY <1>0, JobTypes DEF Good
<1>6. place \in {"readTotals", "invalidate", "readCart"} /\ (place = "readCart" => job[h].op = "checkout")
  BY <1>5 DEF AfterTotals
<1> HIDE DEF k, place, r
<1>7. Good(carts, place, k)
  BY <1>0, <1>4, <1>5, <1>6 DEF Good, Locations, WithCart, WithItem, WithGuest
<1> HIDE DEF c
<1>8. QED
  BY <1>0, <1>1, <1>2, <1>3, <1>6, <1>7, RowStep

-----------------------------------------------------------------------------
(***************************************************************************)
(* Invalidation, checkout and merge.                                       *)
(***************************************************************************)

\* A key that is dropped holds nobody's cart.
LEMMA DropKeeps ==
    ASSUME CartInv, NEW h \in Handlers, NEW o \in Owners, Drop(o),
           NEW p, NEW j, Moves(h, p, j), p \notin {"create", "createTarget"}, Good(carts, p, j),
           UNCHANGED <<carts, orders, cron>>
    PROVE  CartInv'
<1>1. CartsKept
  BY SameCarts DEF CartInv
<1>2. CacheOK'
  BY DEF Drop, CartInv, CacheOK
<1>3. OrdersOK'
  BY <1>1, OrdersKept DEF CartInv, CartsKept
<1>4. QED
  BY <1>1, <1>2, <1>3, StepMoves

\* A handler that goes on to read a cart for its answer.
LEMMA ReadGood ==
    ASSUME NEW cs, NEW who \in Owners
    PROVE  /\ Good(cs, "lookup", [IdleJob EXCEPT !.who = who])
           /\ Good(cs, "lookup", [IdleJob EXCEPT !.op = "get"])
<1>1. /\ [IdleJob EXCEPT !.who = who] \in Jobs /\ [IdleJob EXCEPT !.who = who].op = "get"
      /\ [IdleJob EXCEPT !.op = "get"] \in Jobs /\ [IdleJob EXCEPT !.op = "get"].op = "get"
  BY IdleGood DEF IdleJob, Jobs
<1>2. QED
  BY <1>1 DEF Good, Locations, WithCart, WithItem, WithGuest

\* The cache entry of the owner is deleted.
LEMMA InvalidateKeeps ==
    ASSUME CartInv, NEW h \in Handlers, Invalidate(h)
    PROVE  CartInv'
<1>0. /\ Good(carts, at[h], job[h]) /\ job[h].who \in Owners /\ Drop(job[h].who)
      /\ UNCHANGED <<carts, orders, cron>>
  BY AtHandler, JobTypes DEF Invalidate
<1>1. CASE job[h].op = "add"
  <2>1. Moves(h, "lookup", [IdleJob EXCEPT !.who = job[h].who])
    BY <1>1 DEF Invalidate, Goto, Know, Moves
  <2>2. QED
    BY <1>0, <2>1, ReadGood, DropKeeps
<1>2. CASE job[h].op = "merge"
  <2>1. at[h] = "invalidate" /\ Moves(h, "invalidateGuest", job[h])
    BY <1>2, Goes DEF Invalidate, Goto
  <2>2. Good(carts, "invalidateGuest", job[h])
    BY <1>0, <1>2, <2>1 DEF Good, Locations, WithCart, WithItem, WithGuest
  <2>3. QED
    BY <1>0, <2>1, <2>2, DropKeeps
<1>3. CASE job[h].op \notin {"add", "merge"}
  <2>1. Moves(h, "idle", IdleJob)
    BY <1>3, Ends DEF Invalidate
  <2>2. QED
    BY <1>0, <2>1, IdleGood, DropKeeps
<1>4. QED
  BY <1>1, <1>2, <1>3

\* The cache entry of the guest is deleted.
LEMMA InvalidateGuestKeeps ==
    ASSUME CartInv, NEW h \in Handlers, InvalidateGuest(h)
    PROVE  CartInv'
<1>1. /\ Moves(h, "lookup", [IdleJob EXCEPT !.op = "get"]) /\ Drop("session") /\ "session" \in Owners
      /\ UNCHANGED <<carts, orders, cron>>
  BY DEF InvalidateGuest, ReadUserCart, Goto, Know, Moves, Owners
<1>2. Good(carts, "lookup", [IdleJob EXCEPT !.op = "get"])
  BY <1>1, ReadGood
<1>3. QED
  BY <1>1, <1>2, DropKeeps

\* What is ordered was read from an ACTIVE cart of the user.
LEMMA ReadCartKeeps ==
    ASSUME CartInv, NEW h \in Handlers, ReadCart(h)
    PROVE  CartInv'
<1> DEFINE cart == carts[job[h].cart]
           k == [job[h] EXCEPT !.bag = cart.qty, !.sum = cart.total]
<1>0. /\ at[h] = "readCart" /\ Good(carts, "readCart", job[h]) /\ job[h] \in Jobs
      /\ UNCHANGED <<carts, cache, orders, cron>>
  BY AtHandler DEF ReadCart
<1>1. ASSUME Moves(h, "order", k) PROVE CartInv'
  <2>1. cart.qty \in [Products -> Nat] /\ cart.total \in [Products -> Nat]
    BY <1>0, CartOf DEF WithCart
  <2> HIDE DEF cart
  <2>2. k \in Jobs /\ k.op = job[h].op /\ k.who = job[h].who /\ k.cart = job[h].cart
    BY <1>0, <2>1 DEF Jobs
  <2> HIDE DEF k
  <2>3. Good(carts, "order", k)
    BY <1>0, <2>2 DEF Good, Locations, WithCart, WithItem, WithGuest
  <2>4. QED
    BY <1>0, <1>1, <2>3, OnlyMoves
<1>2. ASSUME End(h, "readCart") PROVE CartInv'
  BY <1>0, <1>2, OnlyEnds
<1>3. QED
  BY <1>1, <1>2 DEF ReadCart, Goto, Know, Moves

\* Checkout creates the order and completes the cart.
LEMMA PlaceOrderKeeps ==
    ASSUME CartInv, NEW h \in Handlers, PlaceOrder(h)
    PROVE  CartInv'
<1> DEFINE c == job[h].cart
           r == [carts[c] EXCEPT !.status = "COMPLETED"]
           o == [cart |-> c, items |-> job[h].bag, total |-> job[h].sum]
<1>0. /\ at[h] = "order" /\ Good(carts, "order", job[h]) /\ job[h] \in Jobs
      /\ Moves(h, "idle", IdleJob) /\ orders' = orders \cup {o}
      /\ UNCHANGED <<cache, cron>>
  BY AtHandler, Ends DEF PlaceOrder, End, Goto
<1>1. /\ c \in CartIds /\ Exists(c) /\ carts[c] \in CartRows
      /\ \A p \in Products : carts[c].qty[p] <= MaxQty
  BY <1>0, CartOf DEF WithCart
<1>2. job[h].op = "checkout" /\ job[h].who = "user" /\ Owned(carts, c, "user")
  BY <1>0 DEF Good, WithCart
<1>3. carts' = [carts EXCEPT ![c] = r]
  BY DEF PlaceOrder
<1>4. r \in CartRows /\ r.owner = carts[c].owner /\ r.status = "COMPLETED" /\ r.qty = carts[c].qty
  BY <1>1 DEF CartRows
<1>5. o \in [cart : CartIds, items : [Products -> Nat], total : [Products -> Nat]] /\ o.cart = c
  BY <1>0, <1>1, JobTypes
<1> HIDE DEF c, r, o
<1>6. CartsKept
  BY <1>1, <1>3, <1>4, RowWritten DEF CartInv
<1>7. CacheOK'
  BY <1>0, <1>6, CacheKept DEF CartInv, CartsKept
<1>8. OrdersOK'
  <2>1. ASSUME NEW x \in orders
        PROVE  Owned(carts', x.cart, "user") /\ carts'[x.cart].status = "COMPLETED"
    <3>1. Owned(carts, x.cart, "user") /\ carts[x.cart].status = "COMPLETED"
      BY DEF CartInv, OrdersOK
    <3>2. QED
      BY <1>6, <3>1, OwnedKept DEF CartsKept, RowsKept, Owned, Exists
  <2>2. Owned(carts', c, "user")
    BY <1>2, <1>6, OwnedKept DEF CartsKept
  <2>3. carts'[c].status = "COMPLETED"
    BY <1>1, <1>3, <1>4 DEF CartInv, CartsOK
  <2>4. QED
    BY <1>0, <1>5, <2>1, <2>2, <2>3 DEF CartInv, OrdersOK
<1>9. QED
  BY <1>0, <1>6, <1>7, <1>8, IdleGood, StepMoves

\* The guest cart is the session's, its quantities are within the limit.
LEMMA FindGuestCartKeeps ==
    ASSUME CartInv, NEW h \in Handlers, FindGuestCart(h)
    PROVE  CartInv'
<1>0. /\ at[h] = "findGuest" /\ Good(carts, "findGuest", job[h]) /\ job[h] \in Jobs
      /\ UNCHANGED <<carts, cache, orders, cron>>
  BY AtHandler DEF FindGuestCart, Goto
<1>1. job[h].op = "merge" /\ job[h].who = "user"
  BY <1>0 DEF Good
<1>2. ASSUME NEW g \in ActiveOf("session"),
             Moves(h, "findTarget", [job[h] EXCEPT !.guest = g, !.bag = carts[g].qty,
                                                   !.todo = {p \in Products : carts[g].qty[p] > 0}])
      PROVE  CartInv'
  <2> DEFINE todo == {p \in Products : carts[g].qty[p] > 0}
             bag == carts[g].qty
             k == [job[h] EXCEPT !.guest = g, !.bag = bag, !.todo = todo]
  <2>1. Owned(carts, g, "session") /\ carts[g] \in CartRows
    BY DEF ActiveOf, Owned, Exists, CartInv, CartsOK
  <2>2. bag \in [Products -> Nat] /\ todo \in SUBSET Products /\ \A p \in Products : bag[p] <= MaxQty
    BY <2>1 DEF CartRows, CartInv, CartsOK, QuantityWithinLimit, Owned, Exists
  <2>3. Moves(h, "findTarget", k)
    BY <1>2
  <2> HIDE DEF todo, bag
  <2>4. k \in Jobs /\ k.op = job[h].op /\ k.who = job[h].who /\ k.guest = g /\ k.bag = bag
    BY <1>0, <2>1, <2>2 DEF Jobs, Owned
  <2> HIDE DEF k
  <2>5. Good(carts, "findTarget", k)
    BY <1>1, <2>1, <2>2, <2>4 DEF Good, Locations, WithCart, WithItem, WithGuest
  <2>6. QED
    BY <1>0, <2>3, <2>5, OnlyMoves
<1>3. ASSUME NEW g \in ActiveOf("session"), Moves(h, "closeEmpty", [job[h] EXCEPT !.guest = g])
      PROVE  CartInv'
  <2> DEFINE k == [job[h] EXCEPT !.guest = g]
  <2>1. Owned(carts, g, "session")
    BY DEF ActiveOf, Owned, Exists
  <2>2. k \in Jobs /\ k.op = job[h].op /\ k.who = job[h].who /\ k.guest = g
    BY <1>0, <2>1 DEF Jobs, Owned
  <2>3. Moves(h, "closeEmpty", k)
    BY <1>3
  <2> HIDE DEF k
  <2>4. Good(carts, "closeEmpty", k)
    BY <1>1, <2>1, <2>2 DEF Good, Locations, WithCart, WithItem, WithGuest
  <2>5. QED
    BY <1>0, <2>3, <2>4, OnlyMoves
<1>4. ASSUME Moves(h, "lookup", [IdleJob EXCEPT !.op = "get"])
      PROVE  CartInv'
  <2>1. "user" \in Owners
    BY DEF Owners
  <2>2. Good(carts, "lookup", [IdleJob EXCEPT !.op = "get"])
    BY <2>1, ReadGood
  <2>3. QED
    BY <1>0, <1>4, <2>2, OnlyMoves
<1>5. QED
  BY <1>2, <1>3, <1>4 DEF FindGuestCart, ReadUserCart, Goto, Know, Moves

\* The cart to merge is the session's, so it was not ordered: it may be closed.
LEMMA GuestClosed ==
    ASSUME CartInv, NEW h \in Handlers, at[h] \in WithGuest,
           carts' = [carts EXCEPT ![job[h].guest].status = "MERGED"],
           NEW p, NEW j, Moves(h, p, j), p \notin {"create", "createTarget"}, Good(carts, p, j),
           UNCHANGED <<cache, orders, cron>>
    PROVE  CartInv'
<1> DEFINE g == job[h].guest
           r == [carts[g] EXCEPT !.status = "MERGED"]
<1>1. Owned(carts, g, "session")
  BY AtHandler DEF Good
<1>2. g \in CartIds /\ Exists(g) /\ carts[g] \in CartRows /\ carts[g].owner = "session"
  BY <1>1 DEF Owned, Exists, CartInv, CartsOK
<1>3. \A q \in Products : carts[g].qty[q] <= MaxQty
  BY <1>2 DEF CartInv, CartsOK, QuantityWithinLimit
<1>4. carts' = [carts EXCEPT ![g] = r]
  OBVIOUS
<1>5. r \in CartRows /\ r.owner = carts[g].owner /\ r.status = "MERGED" /\ r.qty = carts[g].qty
  BY <1>2 DEF CartRows
<1> HIDE DEF g, r
<1>6. QED
  BY <1>2, <1>3, <1>4, <1>5, RowStep

\* A merge closes a guest cart without items.
LEMMA CloseEmptyGuestCartKeeps ==
    ASSUME CartInv, NEW h \in Handlers, CloseEmptyGuestCart(h)
    PROVE  CartInv'
<1> DEFINE k == [IdleJob EXCEPT !.op = "get"]
<1>1. /\ at[h] \in WithGuest /\ Moves(h, "lookup", k)
      /\ carts' = [carts EXCEPT ![job[h].guest].status = "MERGED"]
      /\ UNCHANGED <<cache, orders, cron>>
  BY DEF CloseEmptyGuestCart, ReadUserCart, Goto, Know, Moves, WithGuest
<1>2. "user" \in Owners
  BY DEF Owners
<1>3. Good(carts, "lookup", k)
  BY <1>2, ReadGood
<1> HIDE DEF k
<1>4. QED
  BY <1>1, <1>3, GuestClosed

\* A merge that has, or has just created, the user's cart.
LEMMA TargetGood ==
    ASSUME NEW cs, NEW place \in {"findTarget", "createTarget"}, NEW j, NEW ds, NEW c,
           Good(cs, place, j), Owned(ds, c, "user"), Owned(ds, j.guest, "session")
    PROVE  Good(ds, "readMerge", [j EXCEPT !.cart = c])
<1> DEFINE k == [j EXCEPT !.cart = c]
<1>1. /\ j \in Jobs /\ c \in CartIds /\ j.op = "merge" /\ j.who = "user"
      /\ \A p \in Products : j.bag[p] <= MaxQty
  BY DEF Good, Owned, WithGuest
<1>2. k \in Jobs /\ k.op = j.op /\ k.who = j.who /\ k.cart = c /\ k.guest = j.guest /\ k.bag = j.bag
  BY <1>1 DEF Jobs
<1> HIDE DEF k
<1>3. Good(ds, "readMerge", k)
  BY <1>1, <1>2 DEF Good, Locations, WithCart, WithItem, WithGuest
<1>4. QED
  BY <1>3 DEF k

\* A merge looks the user's cart up.
LEMMA FindTargetKeeps ==
    ASSUME CartInv, NEW h \in Handlers, FindTarget(h)
    PROVE  CartInv'
<1>0. /\ at[h] = "findTarget" /\ Good(carts, "findTarget", job[h]) /\ job[h] \in Jobs
      /\ UNCHANGED <<carts, cache, orders, cron>>
  BY AtHandler DEF FindTarget, Goto
<1>1. /\ job[h].op = "merge" /\ job[h].who = "user" /\ Owned(carts, job[h].guest, "session")
      /\ \A p \in Products : job[h].bag[p] <= MaxQty
  BY <1>0 DEF Good, WithGuest
<1>2. ASSUME NEW c \in ActiveOf("user"), Moves(h, "readMerge", [job[h] EXCEPT !.cart = c])
      PROVE  CartInv'
  <2>1. Owned(carts, c, "user")
    BY DEF ActiveOf, Owned, Exists
  <2>2. Good(carts, "readMerge", [job[h] EXCEPT !.cart = c])
    BY <1>0, <1>1, <2>1, TargetGood
  <2>3. QED
    BY <1>0, <1>2, <2>2, OnlyMoves
<1>3. ASSUME ActiveOf("user") = {}, Goto(h, "findTarget", "createTarget"), UNCHANGED job
      PROVE  CartInv'
  <2>1. Moves(h, "createTarget", job[h])
    BY <1>3, Goes
  <2>2. Good(carts, "createTarget", job[h])
    BY <1>0, <1>1 DEF Good, Locations, WithCart, WithItem, WithGuest
  <2>3. QED
    BY <1>0, <1>1, <1>3, <2>1, <2>2, CreatorComes
<1>4. QED
  BY <1>2, <1>3 DEF FindTarget, Goto, Know, Moves

\* A merge inserts the user's cart.
LEMMA CreateTargetKeeps ==
    ASSUME CartInv, NEW h \in Handlers, NEW c \in CartIds, CreateTarget(h, c)
    PROVE  CartInv'
<1> DEFINE k == [job[h] EXCEPT !.cart = c]
<1>0. /\ at[h] = "createTarget" /\ Good(carts, "createTarget", job[h])
      /\ Moves(h, "readMerge", k) /\ ~Exists(c) /\ carts' = [carts EXCEPT ![c] = NewCart("user")]
      /\ UNCHANGED <<cache, orders, cron>>
  BY AtHandler DEF CreateTarget, Goto, Know, Moves
<1>1. job[h].op = "merge" /\ job[h].who = "user" /\ Owned(carts, job[h].guest, "session")
  BY <1>0 DEF Good, WithGuest
<1>2. Owned(carts', job[h].guest, "session")
  <2>1. job[h].guest # c
    BY <1>0, <1>1 DEF Owned, Exists
  <2>2. carts'[job[h].guest] = carts[job[h].guest]
    BY <1>0, <1>1, <2>1 DEF CartInv, CartsOK, Owned
  <2>3. QED
    BY <1>1, <2>2 DEF Owned
<1>3. Owned(carts', c, "user") => Good(carts', "readMerge", k)
  BY <1>0, <1>2, TargetGood
<1> HIDE DEF k
<1>4. QED
  BY <1>0, <1>1, <1>3, CartCreated

\* A merge reads the quantity of one item.
LEMMA ReadMergeItemKeeps ==
    ASSUME CartInv, NEW h \in Handlers, NEW p \in Products, ReadMergeItem(h, p)
    PROVE  CartInv'
<1> DEFINE q == carts[job[h].cart].qty[p]
           found == q > 0
           rest == job[h].todo \ {p}
           k == [job[h] EXCEPT !.item = p, !.seen = q, !.row = found, !.todo = rest]
<1>0. /\ at[h] = "readMerge" /\ Good(carts, "readMerge", job[h]) /\ job[h] \in Jobs
      /\ Moves(h, "writeMerge", k)
      /\ UNCHANGED <<carts, cache, orders, cron>>
  BY AtHandler DEF ReadMergeItem, Goto, Know, Moves
<1>1. q \in Nat /\ found \in BOOLEAN
  BY <1>0, CartOf DEF WithCart
<1>2. rest \in SUBSET Products
  BY <1>0, JobTypes
<1> HIDE DEF q, found, rest
<1>3. /\ k \in Jobs /\ k.op = job[h].op /\ k.who = job[h].who /\ k.cart = job[h].cart
      /\ k.item = p /\ k.guest = job[h].guest /\ k.bag = job[h].bag
  BY <1>0, <1>1, <1>2 DEF Jobs
<1> HIDE DEF k
<1>4. Good(carts, "writeMerge", k)
  BY <1>0, <1>3 DEF Good, Locations, WithCart, WithItem, WithGuest
<1>5. QED
  BY <1>0, <1>4, OnlyMoves

\* The smaller of a sum and the limit is within the limit.
LEMMA MinBounds ==
    ASSUME NEW a \in Nat, NEW b \in Nat
    PROVE  Min({a, b}) \in Nat /\ Min({a, b}) <= b
BY DEF Min

\* A merge writes the quantity of one item.
LEMMA WriteMergeItemKeeps ==
    ASSUME CartInv, NEW h \in Handlers, WriteMergeItem(h)
    PROVE  CartInv'
<1> DEFINE c == job[h].cart
           q == job[h].bag[job[h].item]
           w == IF job[h].seen = 0 THEN q ELSE Min({job[h].seen + q, MaxQty})
           r == [carts[c] EXCEPT !.qty[job[h].item] = w]
           k == [job[h] EXCEPT !.item = NoCart, !.seen = 0, !.row = FALSE]
<1>0. /\ at[h] = "writeMerge" /\ Good(carts, "writeMerge", job[h]) /\ job[h] \in Jobs
      /\ Moves(h, "readMerge", k)
      /\ UNCHANGED <<cache, orders, cron>>
  BY AtHandler DEF WriteMergeItem, Goto, Know, Moves
<1>1. /\ job[h].item \in Products /\ Owned(carts, c, job[h].who)
      /\ \A p \in Products : job[h].bag[p] <= MaxQty
  BY <1>0 DEF Good, WithItem, WithCart, WithGuest
<1>2. w \in Nat /\ w <= MaxQty
  <2>1. q \in Nat /\ q <= MaxQty /\ job[h].seen \in Nat /\ MaxQty \in Nat
    BY <1>0, <1>1, JobTypes, CartAssumptions
  <2>2. job[h].seen + q \in Nat
    BY <2>1
  <2>3. Min({job[h].seen + q, MaxQty}) \in Nat /\ Min({job[h].seen + q, MaxQty}) <= MaxQty
    BY <2>1, <2>2, MinBounds
  <2>4. QED
    BY <2>1, <2>3
<1>3. /\ c \in CartIds /\ Exists(c) /\ carts[c] \in CartRows /\ carts[c].qty \in [Products -> Nat]
      /\ \A p \in Products : carts[c].qty[p] <= MaxQty
  BY <1>0, CartOf DEF WithCart
<1>4. /\ k \in Jobs /\ k.op = job[h].op /\ k.who = job[h].who /\ k.cart = c
      /\ k.guest = job[h].guest /\ k.bag = job[h].bag
  BY <1>0 DEF Jobs
<1>5. (carts' = [carts EXCEPT ![c].qty[job[h].item] = w]) \/ UNCHANGED carts
  BY DEF WriteMergeItem
<1> HIDE DEF w
<1>6. carts' = [carts EXCEPT ![c] = r] \/ UNCHANGED carts
  BY <1>5
<1>7. r \in CartRows /\ r.owner = carts[c].owner /\ r.status = carts[c].status
  BY <1>1, <1>2, <1>3 DEF CartRows
<1>8. \A p \in Products : r.qty[p] <= MaxQty
  BY <1>1, <1>2, <1>3 DEF CartRows
<1> HIDE DEF k, r
<1>9. Good(carts, "readMerge", k)
  BY <1>0, <1>4 DEF Good, Locations, WithCart, WithItem, WithGuest
<1> HIDE DEF c
<1>10. CASE carts' = [carts EXCEPT ![c] = r]
  BY <1>0, <1>3, <1>7, <1>8, <1>9, <1>10, RowStep
<1>11. CASE UNCHANGED carts
  BY <1>0, <1>9, <1>11, OnlyMoves
<1>12. QED
  BY <1>6, <1>10, <1>11

\* A merge closes the guest cart.
LEMMA CloseGuestCartKeeps ==
    ASSUME CartInv, NEW h \in Handlers, CloseGuestCart(h)
    PROVE  CartInv'
<1> DEFINE k == [job[h] EXCEPT !.guest = NoCart, !.bag = NoItems]
<1>0. /\ at[h] = "readMerge" /\ Good(carts, "readMerge", job[h]) /\ job[h] \in Jobs
      /\ at[h] \in WithGuest
      /\ Moves(h, "readTotals", k)
      /\ carts' = [carts EXCEPT ![job[h].guest].status = "MERGED"]
      /\ UNCHANGED <<cache, orders, cron>>
  BY AtHandler DEF CloseGuestCart, Goto, Know, Moves, WithGuest
<1>1. k \in Jobs /\ k.op = job[h].op /\ k.who = job[h].who /\ k.cart = job[h].cart
  BY <1>0, IdleGood DEF Jobs
<1> HIDE DEF k
<1>2. Good(carts, "readTotals", k)
  BY <1>0, <1>1 DEF Good, Locations, WithCart, WithItem, WithGuest
<1>3. QED
  BY <1>0, <1>2, GuestClosed

-----------------------------------------------------------------------------
(***************************************************************************)
(* Time.                                                                   *)
(***************************************************************************)

\* Nobody moves while the table is kept.
LEMMA NobodyMoves ==
    ASSUME CartInv, CartsKept, CacheOK', UNCHANGED <<orders, at, job>>, cron' \in Owners
    PROVE  CartInv'
<1>1. OrdersOK'
  BY OrdersKept DEF CartInv, CartsKept
<1>2. HandlersOK'
  <2>1. ASSUME NEW h \in Handlers PROVE Good(carts', at[h], job[h])
    BY GoodKept DEF CartInv, HandlersOK, CartsKept
  <2>2. QED
    BY <2>1 DEF CartInv, HandlersOK
<1>3. CartsBounded'
  <2>1. \A who \in Owners : Creating(who)' \subseteq Creating(who)
    BY DEF Creating
  <2>2. QED
    BY <2>1, BoundKept DEF CartInv
<1>4. QED
  BY <1>1, <1>2, <1>3 DEF CartInv, CartsKept, RowsKept

\* Each row stays as it is, becomes due, or expires from ACTIVE.
LEMMA RowsAge ==
    ASSUME CartsOK, carts' = [c \in CartIds |-> carts'[c]],
           \A c \in CartIds :
              \/ carts'[c] = carts[c]
              \/ Exists(c) /\ carts'[c] = [carts[c] EXCEPT !.inactive = TRUE]
              \/ /\ Exists(c) /\ carts[c].status = "ACTIVE"
                 /\ carts'[c] = [carts[c] EXCEPT !.status = "EXPIRED"]
    PROVE  CartsKept
<1>1. ASSUME NEW c \in CartIds
      PROVE  /\ carts'[c] \in CartRows \cup {NoCart}
             /\ ~Exists(c) => carts'[c] = NoCart
             /\ Exists(c) =>
                  /\ carts'[c] # NoCart
                  /\ carts'[c].owner = carts[c].owner /\ carts'[c].qty = carts[c].qty
                  /\ \/ carts'[c].status = carts[c].status
                     \/ carts[c].status = "ACTIVE" /\ carts'[c].status = "EXPIRED"
  <2>1. carts[c] \in CartRows \cup {NoCart}
    BY DEF CartsOK
  <2>2. CASE carts'[c] = carts[c]
    BY <2>1, <2>2 DEF Exists
  <2>3. CASE Exists(c) /\ carts'[c] = [carts[c] EXCEPT !.inactive = TRUE]
    <3>1. carts[c] \in CartRows
      BY <2>1, <2>3 DEF Exists
    <3>2. /\ carts'[c] \in CartRows /\ carts'[c].owner = carts[c].owner /\ carts'[c].qty = carts[c].qty
          /\ carts'[c].status = carts[c].status
      BY <2>3, <3>1 DEF CartRows
    <3>3. QED
      BY <2>3, <3>2, CartAssumptions
  <2>4. CASE /\ Exists(c) /\ carts[c].status = "ACTIVE"
             /\ carts'[c] = [carts[c] EXCEPT !.status = "EXPIRED"]
    <3>1. carts[c] \in CartRows
      BY <2>1, <2>4 DEF Exists
    <3>2. /\ carts'[c] \in CartRows /\ carts'[c].owner = carts[c].owner /\ carts'[c].qty = carts[c].qty
          /\ carts'[c].status = "EXPIRED"
      BY <2>4, <3>1 DEF CartRows
    <3>3. QED
      BY <2>4, <3>2, CartAssumptions
  <2>5. QED
    BY <2>2, <2>3, <2>4
<1>2. CartsOK'
  <2>1. carts' \in [CartIds -> CartRows \cup {NoCart}]
    BY <1>1
  <2>2. QuantityWithinLimit'
    BY <1>1 DEF CartsOK, QuantityWithinLimit, Exists
  <2>3. QED
    BY <2>1, <2>2 DEF CartsOK
<1>3. QED
  BY <1>1, <1>2 DEF CartsKept, RowsKept, ActiveOf, Exists

\* Time passes.
LEMMA DaysPassKeeps ==
    ASSUME CartInv, NEW late, DaysPass(late)
    PROVE  CartInv'
<1>1. CartsKept
  <2>1. \A c \in CartIds :
              \/ carts'[c] = carts[c]
              \/ Exists(c) /\ carts'[c] = [carts[c] EXCEPT !.inactive = TRUE]
    BY DEF DaysPass
  <2>2. carts' = [c \in CartIds |-> carts'[c]]
    BY DEF DaysPass
  <2>3. QED
    BY <2>1, <2>2, RowsAge DEF CartInv
<1>2. CacheOK'
  BY DEF DaysPass, CacheOK
<1>3. QED
  BY <1>1, <1>2, NobodyMoves DEF DaysPass, CartInv

\* The cron job expires the carts that are due.
LEMMA ExpireCartsKeeps ==
    ASSUME CartInv, ExpireCarts
    PROVE  CartInv'
<1>1. CartsKept
  <2>1. \A c \in CartIds :
              \/ carts'[c] = carts[c]
              \/ /\ Exists(c) /\ carts[c].status = "ACTIVE"
                 /\ carts'[c] = [carts[c] EXCEPT !.status = "EXPIRED"]
    BY DEF ExpireCarts, ActiveOf
  <2>2. carts' = [c \in CartIds |-> carts'[c]]
    BY DEF ExpireCarts
  <2>3. QED
    BY <2>1, <2>2, RowsAge DEF CartInv
<1>2. CacheOK'
  BY <1>1, CacheKept DEF ExpireCarts, CartInv, CartsKept
<1>3. cron' \in Owners
  BY DEF ExpireCarts, Owners
<1>4. QED
  BY <1>1, <1>2, <1>3, NobodyMoves DEF ExpireCarts

-----------------------------------------------------------------------------
\* The invariant holds at the start.
LEMMA CartInit == Init => CartInv
<1> SUFFICES ASSUME Init PROVE CartInv
  OBVIOUS
<1>1. CartsOK
  BY DEF Init, CartsOK, QuantityWithinLimit, Exists
<1>2. CacheOK /\ OrdersOK
  BY DEF Init, CacheOK, OrdersOK
<1>3. HandlersOK
  <2>1. at \in [Handlers -> Locations] /\ job \in [Handlers -> Jobs]
    BY IdleGood DEF Init, Locations
  <2>2. \A h \in Handlers : at[h] = "idle" /\ job[h] = IdleJob
    BY DEF Init
  <2>3. QED
    BY <2>1, <2>2, IdleGood DEF HandlersOK
<1>4. CartsBounded
  <2>1. \A who : ActiveOf(who) = {} /\ Creating(who) = {}
    BY DEF Init, ActiveOf, Creating, Exists
  <2>2. Cardinality({}) = 0 /\ Cardinality(Handlers) \in Nat
    BY FS_EmptySet, Finite
  <2>3. QED
    BY <2>1, <2>2 DEF CartsBounded
<1>5. QED
  BY <1>1, <1>2, <1>3, <1>4 DEF Init, CartInv, Owners

\* One step per action.
LEMMA CartStep == CartInv /\ [Next]_vars => CartInv'
<1> SUFFICES ASSUME CartInv, [Next]_vars PROVE CartInv'
  OBVIOUS
<1>1. ASSUME NEW h \in Handlers, Arrive(h) PROVE CartInv'
  BY <1>1, RequestKeeps DEF Arrive
<1>2. ASSUME NEW h \in Handlers, CacheHit(h) \/ CacheMiss(h) \/ FindCart(h) \/ WarmCache(h)
      PROVE  CartInv'
  BY <1>2, CacheHitKeeps, CacheMissKeeps, FindCartKeeps, WarmCacheKeeps
<1>3. ASSUME NEW h \in Handlers, NEW c \in CartIds, CreateCart(h, c) \/ CreateTarget(h, c)
      PROVE  CartInv'
  BY <1>3, CreateCartKeeps, CreateTargetKeeps
<1>4. ASSUME NEW h \in Handlers,
             ReadItem(h) \/ WriteItem(h) \/ DeleteItem(h) \/ ClearItems(h) \/ ClearTotals(h)
      PROVE  CartInv'
  BY <1>4, ReadItemKeeps, WriteItemKeeps, DeleteItemKeeps, ClearItemsKeeps, ClearTotalsKeeps
<1>5. ASSUME NEW h \in Handlers,
             ReadTotals(h) \/ WriteTotals(h) \/ Invalidate(h) \/ InvalidateGuest(h)
      PROVE  CartInv'
  BY <1>5, ReadTotalsKeeps, WriteTotalsKeeps, InvalidateKeeps, InvalidateGuestKeeps
<1>6. ASSUME NEW h \in Handlers, ReadCart(h) \/ PlaceOrder(h)
      PROVE  CartInv'
  BY <1>6, ReadCartKeeps, PlaceOrderKeeps
<1>7. ASSUME NEW h \in Handlers, FindGuestCart(h) \/ CloseEmptyGuestCart(h) \/ FindTarget(h)
      PROVE  CartInv'
  BY <1>7, FindGuestCartKeeps, CloseEmptyGuestCartKeeps, FindTargetKeeps
<1>8. ASSUME NEW h \in Handlers, NEW p \in Products, ReadMergeItem(h, p)
      PROVE  CartInv'
  BY <1>8, ReadMergeItemKeeps
<1>9. ASSUME NEW h \in Handlers, WriteMergeItem(h) \/ CloseGuestCart(h)
      PROVE  CartInv'
  BY <1>9, WriteMergeItemKeeps, CloseGuestCartKeeps
<1>10. ASSUME NEW h \in Handlers, Fail(h) PROVE CartInv'
  BY <1>10, OnlyEnds DEF Fail
<1>11. CASE Days
  BY <1>11, DaysPassKeeps, ExpireCartsKeeps DEF Days
<1>12. CASE UNCHANGED vars
  <2>1. UNCHANGED <<carts, cache, orders, at, job, cron>>
    BY <1>12 DEF vars
  <2>2. CartsKept
    BY <2>1, SameCarts DEF CartInv
  <2>3. CacheOK' /\ cron' \in Owners
    BY <2>1, <2>2, CacheKept DEF CartInv, CartsKept
  <2>4. QED
    BY <2>1, <2>2, <2>3, NobodyMoves
<1>13. QED
  BY <1>1, <1>2, <1>3, <1>4, <1>5, <1>6, <1>7, <1>8, <1>9, <1>10, <1>11, <1>12 DEF Next, Work

\* The invariant holds in every state of every behaviour.
LEMMA CartAlways == Spec => []CartInv
BY CartInit, CartStep, PTL DEF Spec

-----------------------------------------------------------------------------
(***************************************************************************)
(* Every row, cached id and request has its type, and a request that works *)
(* on a cart holds the id of a row that exists: carts are never deleted,   *)
(* and what Redis returns is a cart.                                       *)
(***************************************************************************)
THEOREM CartTypeCorrect == Spec => []TypeOK
<1>1. CartInv => TypeOK
  <2> SUFFICES ASSUME CartInv PROVE TypeOK
    OBVIOUS
  <2>1. ASSUME NEW h \in Handlers
        PROVE  /\ at[h] \in WithCart => job[h].cart # NoCart /\ Exists(job[h].cart)
               /\ at[h] \in WithItem => job[h].item \in Products
               /\ at[h] \in WithGuest => job[h].guest # NoCart /\ Exists(job[h].guest)
    BY AtHandler, CartAssumptions DEF Good, Owned, Exists
  <2>2. QED
    BY <2>1 DEF CartInv, CartsOK, CacheOK, OrdersOK, HandlersOK, TypeOK
<1>2. QED
  BY <1>1, CartAlways, PTL

(***************************************************************************)
(* Redis holds for the user only a cart of the user, for the session only  *)
(* one of the session.                                                     *)
(***************************************************************************)
THEOREM CacheHoldsOwnCart == Spec => []CacheOwner
<1>1. CartInv => CacheOwner
  BY DEF CartInv, CacheOK, CacheOwner, Owned
<1>2. QED
  BY <1>1, CartAlways, PTL

(***************************************************************************)
(* Quantities stay within maxCartQty although each write is computed from  *)
(* an earlier read: what was read is bounded too, and is bounded anew      *)
(* before it is written.                                                   *)
(***************************************************************************)
THEOREM QuantitiesBounded == Spec => []QuantityWithinLimit
<1>1. CartInv => QuantityWithinLimit
  BY DEF CartInv, CartsOK
<1>2. QED
  BY <1>1, CartAlways, PTL

(***************************************************************************)
(* An owner has no more ACTIVE carts than requests at once: a request goes *)
(* on to create one only when there is none, and creates one.              *)
(***************************************************************************)
THEOREM ActiveCartsAreBounded == Spec => []ActiveCartsBounded
<1>1. CartInv => ActiveCartsBounded
  BY Finite DEF CartInv, CartsBounded, ActiveCartsBounded
<1>2. QED
  BY <1>1, CartAlways, PTL

(***************************************************************************)
(* A cart that was ordered stays COMPLETED: only the user's carts are      *)
(* ordered, only the session's are merged, and only ACTIVE ones expire.    *)
(***************************************************************************)
THEOREM OrderedCartsStayCompleted == Spec => []OrderedCartCompleted
<1>1. CartInv => OrderedCartCompleted
  BY DEF CartInv, OrdersOK, OrderedCartCompleted
<1>2. QED
  BY <1>1, CartAlways, PTL

=============================================================================
