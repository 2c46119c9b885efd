------------------------------ MODULE Deliveries ------------------------------
(***************************************************************************)
(* Lalamove deliveries: one quotation, the calls that order from it, the    *)
(* orders at the courier (external), the rows kept of them, and the courier's *)
(* webhooks, which may come late, twice, in another order or not at all.   *)
(***************************************************************************)
EXTENDS Integers, Sequences, FiniteSets, SequencesExt

CONSTANTS Placers,     \* calls of createOrder that may overlap
          MaxOrders,   \* bound: orders placed at the courier
          MaxFollowed, \* bound: orders the courier goes on with
          MaxHooks     \* bound: webhooks of an order on their way

VARIABLES quote,       \* the quotation's row: status, and whether expiresAt has passed
          courier,     \* the courier's orders: their status
          reached,     \* history: the statuses each order has had
          kept,        \* order -> its row, or Unkept
          hooks,       \* order -> its webhooks on their way, oldest first
          placing,     \* where each call of createOrder is
          cancelling,  \* orders the courier cancelled for cancelOrder and whose row it still has to write
          lapses       \* history: what went wrong so far

deliveryVars == <<quote, courier, reached, kept, hooks, placing, cancelling, lapses>>

Unkept == [status |-> "none", driver |-> FALSE, pod |-> FALSE]
NotPlacing == [pc |-> "idle", order |-> 0]
OrdersPlaced == DOMAIN courier
Advance == [ASSIGNING_DRIVER |-> {"ON_GOING", "CANCELED", "EXPIRED"}, ON_GOING |-> {"PICKED_UP", "CANCELED", "REJECTED"},
            PICKED_UP |-> {"COMPLETED"}, COMPLETED |-> {}, CANCELED |-> {}, REJECTED |-> {}, EXPIRED |-> {}]

DeliveriesInit ==
    /\ quote = [status |-> "none", late |-> FALSE]
    /\ courier = <<>> /\ reached = <<>> /\ kept = <<>> /\ hooks = <<>>
    /\ placing = [p \in Placers |-> NotPlacing]
    /\ cancelling = {} /\ lapses = {}

(***************************************************************************)
(* Quotations.                                                             *)
(***************************************************************************)
CreateQuotation ==
    /\ quote.status = "none"
    /\ quote' = [quote EXCEPT !.status = "ACTIVE"]
    /\ UNCHANGED <<courier, reached, kept, hooks, placing, cancelling, lapses>>

QuotationLapses ==
    /\ quote.status # "none" /\ ~quote.late
    /\ quote' = [quote EXCEPT !.late = TRUE]
    /\ UNCHANGED <<courier, reached, kept, hooks, placing, cancelling, lapses>>

\* Also a quotation that was USED becomes EXPIRED.
GetQuotation ==
    /\ quote.late
    /\ quote' = [quote EXCEPT !.status = "EXPIRED"]
    /\ UNCHANGED <<courier, reached, kept, hooks, placing, cancelling, lapses>>

(***************************************************************************)
(* Ordering.                                                               *)
(***************************************************************************)
Usable_Used(q) == q.status \notin {"none", "EXPIRED"} /\ ~q.late
Usable(q) == q.status \notin {"none", "EXPIRED", "USED"} /\ ~q.late

At(p, pc, o) == placing' = [placing EXCEPT ![p] = [pc |-> pc, order |-> o]]
Overlap == \E p \in Placers : placing[p].pc # "idle"

CreateOrderRead(p) ==
    /\ placing[p].pc = "idle" /\ Usable(quote)
    /\ At(p, "place", 0)
    /\ lapses' = IF Overlap THEN lapses \cup {"overlap"} ELSE lapses
    /\ UNCHANGED <<quote, courier, reached, kept, hooks, cancelling>>

CreateOrderPlace(p) ==
    /\ placing[p].pc = "place" /\ Len(courier) < MaxOrders
    /\ courier' = Append(courier, "ASSIGNING_DRIVER")
    /\ reached' = Append(reached, {"ASSIGNING_DRIVER"})
    /\ kept' = Append(kept, Unkept) /\ hooks' = Append(hooks, <<>>)
    /\ At(p, "store", Len(courier) + 1)
    /\ UNCHANGED <<quote, cancelling, lapses>>

CreateOrderStore(p) ==
    /\ placing[p].pc = "store"
    /\ kept' = [kept EXCEPT ![placing[p].order].status = "ASSIGNING_DRIVER"]
    /\ At(p, "mark", placing[p].order)
    /\ UNCHANGED <<quote, courier, reached, hooks, cancelling, lapses>>

CreateOrderMark(p) ==
    /\ placing[p].pc = "mark"
    /\ quote' = [quote EXCEPT !.status = "USED"]
    /\ At(p, "idle", 0)
    /\ UNCHANGED <<courier, reached, kept, hooks, cancelling, lapses>>

\* A call to the courier or the database fails: the rest of createOrder is not done.
CreateOrderFails(p) ==
    /\ placing[p].pc \in {"place", "store", "mark"}
    /\ At(p, "idle", 0)
    /\ lapses' = IF placing[p].pc = "place" THEN lapses ELSE lapses \cup {"unfinished"}
    /\ UNCHANGED <<quote, courier, reached, kept, hooks, cancelling>>

\* The client has the order's id once createOrder has returned.
Known(o) == kept[o] # Unkept /\ \A p \in Placers : placing[p].order # o

\* updateOrderFromApi names columns the table does not have, so the update is refused and getOrder
\* throws: the row keeps what it has.
GetOrder(o) ==
    /\ Known(o)
    /\ UNCHANGED deliveryVars

Hook(status, driver, pod) == [status |-> status, driver |-> driver, pod |-> pod]

\* The courier's order o moves to a status, of which it sends a webhook.
Becomes(o, status) ==
    /\ courier' = [courier EXCEPT ![o] = status]
    /\ reached' = [reached EXCEPT ![o] = @ \cup {status}]
    /\ hooks' = [hooks EXCEPT ![o] = Append(@, Hook(status, status = "ON_GOING", FALSE))]

\* The courier cancels (agreed), after which the row is written in a statement of its own; or it
\* refuses, and cancelOrder throws.
CancelOrder_Swallows(o, agreed) ==
    /\ Known(o) /\ o <= MaxFollowed /\ Len(hooks[o]) < MaxHooks
    /\ agreed => "CANCELED" \in Advance[courier[o]]
    /\ IF agreed THEN Becomes(o, "CANCELED") ELSE UNCHANGED <<courier, reached, hooks>>
    /\ cancelling' = cancelling \cup {o}
    /\ UNCHANGED <<quote, kept, placing, lapses>>

CancelOrder(o, agreed) ==
    /\ Known(o) /\ o <= MaxFollowed /\ Len(hooks[o]) < MaxHooks
    /\ agreed => "CANCELED" \in Advance[courier[o]]
    /\ IF agreed THEN Becomes(o, "CANCELED") ELSE UNCHANGED <<courier, reached, hooks>>
    /\ cancelling' = IF agreed THEN cancelling \cup {o} ELSE cancelling
    /\ UNCHANGED <<quote, kept, placing, lapses>>

CancelOrderWrite(o) ==
    /\ o \in cancelling
    /\ kept' = IF kept[o] # Unkept THEN [kept EXCEPT ![o].status = "CANCELED"] ELSE kept
    /\ cancelling' = cancelling \ {o}
    /\ UNCHANGED <<quote, courier, reached, hooks, placing, lapses>>

(***************************************************************************)
(* The courier and its webhooks.                                           *)
(***************************************************************************)
CourierAdvances(o, status) ==
    /\ o <= MaxFollowed /\ status \in Advance[courier[o]] /\ Len(hooks[o]) < MaxHooks
    /\ Becomes(o, status)
    /\ UNCHANGED <<quote, kept, placing, cancelling, lapses>>

\* A driver's position, or the proof of delivery: events that need not name the order's status.
CourierReports(o) ==
    /\ o <= MaxFollowed /\ Len(hooks[o]) < MaxHooks
    /\ \/ courier[o] = "PICKED_UP" /\ hooks' = [hooks EXCEPT ![o] = Append(@, Hook("none", TRUE, FALSE))]
       \/ courier[o] = "COMPLETED" /\ hooks' = [hooks EXCEPT ![o] = Append(@, Hook("none", FALSE, TRUE))]
    /\ UNCHANGED <<quote, courier, reached, kept, placing, cancelling, lapses>>

UpdateOrderStatus(row, h) == [status |-> IF h.status = "none" THEN "UNKNOWN" ELSE h.status,
                              driver |-> row.driver \/ h.driver, pod |-> row.pod \/ h.pod]

\* Without a row the update throws and the webhook fails: the courier may send it again.  The customer
\* is never told, because no row of lalamove_orders ever gets a userId.
ProcessWebhookEvent(o, i, again) ==
    /\ i \in DOMAIN hooks[o]
    /\ kept' = IF kept[o] = Unkept THEN kept ELSE [kept EXCEPT ![o] = UpdateOrderStatus(@, hooks[o][i])]
    /\ hooks' = IF again THEN hooks ELSE [hooks EXCEPT ![o] = RemoveAt(@, i)]
    /\ lapses' = IF i > 1 \/ (kept[o] = Unkept /\ ~again) THEN lapses \cup {"disorder"} ELSE lapses
    /\ UNCHANGED <<quote, courier, reached, placing, cancelling>>

DeliveriesNext ==
    \/ CreateQuotation \/ QuotationLapses \/ GetQuotation
    \/ \E p \in Placers :
           CreateOrderRead(p) \/ CreateOrderPlace(p) \/ CreateOrderStore(p) \/ CreateOrderMark(p) \/ CreateOrderFails(p)
    \/ \E o \in OrdersPlaced :
           \/ GetOrder(o) \/ CancelOrderWrite(o) \/ CourierReports(o)
           \/ \E agreed \in BOOLEAN : CancelOrder(o, agreed)
           \/ \E status \in DOMAIN Advance : CourierAdvances(o, status)
           \/ \E i \in 1..MaxHooks, again \in BOOLEAN : ProcessWebhookEvent(o, i, again)

DeliveriesSpec == DeliveriesInit /\ [][DeliveriesNext]_deliveryVars

(***************************************************************************)
(* Properties.                                                             *)
(***************************************************************************)
\* A quotation buys one delivery: there is a second order at the courier only
\* after two calls of createOrder overlapped or one of them stopped half-way, and
\* unless the last of that, every order has its row and the quotation stays closed.
QuoteBuysOnce ==
    /\ Len(courier) > 1 => lapses \cap {"overlap", "unfinished"} # {}
    /\ "unfinished" \notin lapses /\ ~Overlap /\ courier # <<>> =>
           /\ \A o \in OrdersPlaced : kept[o] # Unkept
           /\ quote.status \in {"USED", "EXPIRED"}

\* The row of a delivery never shows a status the courier's order has not had, nor a
\* driver before there was one; and when the webhooks came in their order and
\* none is on its way, it shows the courier's own status, or UNKNOWN after an event
\* that named none.
RowFollowsCourier ==
    \A o \in OrdersPlaced : kept[o] # Unkept =>
        /\ kept[o].status \in reached[o] \cup {"UNKNOWN"}
        /\ kept[o].driver => "ON_GOING" \in reached[o]
        /\ "disorder" \notin lapses /\ hooks[o] = <<>> /\ o \notin cancelling =>
               kept[o].status \in {courier[o], "UNKNOWN"}

==============================================================================
