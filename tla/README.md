# A TLA+ model of the MASH backend

The MASH backend is the NestJS server of a mushroom farm and its shop: orders,
carts, sellers, devices and sensors, alerts, deliveries, analytics, and an API
gateway in front of it. Its state is in PostgreSQL (through Prisma) and Redis;
background work runs in BullMQ queues. Several instances may serve requests at
once, and inside each instance every `await` lets other requests in. Almost all
operations are *read, decide, await, write*, few use a transaction and hardly any a
conditional write, so what matters, and what the repository's unit tests with
their mocked database cannot reach, is what happens when two such operations, or
an operation and a failure, overlap. That is what the modules here model.

Contents: [inventory](#inventory), [modules](#modules), [runs](#runs),
[fairness](#fairness), [proofs](#proofs), [findings](#findings),
[what is left out](#what-is-left-out), [plan](#plan).

## Inventory

Paths are relative to `src/src/modules` unless they begin with `common`.

| Component | State | Operations | What is hard | What makes it correct |
|---|---|---|---|---|
| Orders (`orders`) | orders, items, payments; `Product.stock` | create, checkout, updateStatus, cancel, processPayment, updateShipping, remove | stock compared before an await and decremented after it; statuses overwritten from stale reads; steps without a transaction | stock accounts for the orders, overselling is bounded, time stamps are in order, a cart is completed with its order |
| Carts (`cart`) | carts, items, Redis cache, nightly expiry | get, add, update, remove, clear, merge, checkout, expire | get-or-create races, cached ids of carts that are gone, totals recomputed from old reads, merge in many steps | limits on quantities and active carts, the cache keeps owners apart, ordered carts stay completed |
| Gateway circuit breaker (`gateway/services`) | one row per service | canExecute, recordSuccess, recordFailure, reset | every step writes a decision taken on an old row | an open breaker can be left, and is; counts stay below the threshold |
| Seller applications (`request-queue`, `seller-verification`) | request_queue rows with payload; user roles | apply, approve, reject, update and review documents, request resubmission | two services write back the same JSON payload; three writes without a transaction | completed applicants are sellers, nothing is stranded, a review is of its document |
| Import and export jobs (`import-export`) | job rows, BullMQ entries, files | upload, create, cancel, retry, process | retries by BullMQ and by clients at once; a row and a queue that may disagree | completed means processed, started jobs end |
| Verification and reset codes (`auth`) | columns of users | register, verify, resend, forgot, reset | attempts counted by read and write; a code checked and then cleared | each code implements an abstract one-time code, guesses are counted |
| Two-factor authentication (`profile`) | columns of users | enable, verify, disable, regenerate, use a backup code | a used backup code removed from a copy of the list | the codes on file are of one batch |
| Routes, guards and tokens (all controllers, `auth`, `common/guards`) | roles, tokens | guards in turn, login, refresh, impersonation, changes of roles | roles change while guards await | a role counts as it is stored, not as a token claims it |
| Accounts (`auth`, `users`) | users, Clerk's mirror | create, register, login, link, unlink, webhooks | lists of providers written back whole | an account keeps a way to sign in |
| Rate limits and quotas (`gateway/rate-limiting`, `auth/services/quota.service.ts`, `common/storage`) | counters, buckets, windows in Redis | checkLimit, increment, checkQuota | read before increment; expiry set by a second call | admitted requests are bounded |
| Gateway load balancing (`gateway`) | instances in memory | register, report health, choose | two strategies share one index, instances come and go | no healthy instance is starved |
| Caching layer (`common/services/cache.service.ts` and its users) | entries, lists of keys per tag | get, set, delete, invalidateByTags, warm | what a write clears depends on lists rewritten by every store; keys put together by hand may meet | an answer is current |
| Alerts (`alerts`) | rules, alerts | evaluate, acknowledge, resolve | cooldown looked up before the alert is created | bounded alerts per cooldown |
| Notification queues (`queues`) | notification rows, BullMQ entries | send by mail, SMS, push | a retry of what was already sent; a row per attempt | SENT rows and accepted messages agree |
| Communication hub (`notifications`) | preferences, push subscriptions | send over several channels | outcomes read back by a running index; providers tried in turn; quiet hours over midnight; reads that fail and are answered with defaults | the report is what happened |
| Deliveries (`lalamove`) | quotations, delivery orders | quote, order, cancel, webhook, poll | webhooks late, twice or out of order; one quotation ordered twice | a quotation buys once, the row follows the courier |
| Devices and MQTT (`devices`) | devices, commands | register, report, sendCommand, health records, offline sweep | command sent and its record not written; a sweep beside reports | the history says what was sent, silent devices go offline |
| Analytics, products, categories, users, sensors, admin | see PROJECT.json | cached reads and the writes that invalidate them | keys that leave out a parameter, tags not cleared | as for the caching layer |
| Sessions, API keys, inventory, WebSockets, request pipeline, parsers, health | see PROJECT.json | synchronous or single-row operations | | |

How they interact: `CartController` hands a checkout to `OrdersService`, which
reads the cart and completes it in its own transaction; both write `carts`.
`OrdersService` and `ProductsService` share `Product.stock` and `isActive`. The
super-admin routes call `RequestQueueService`, the seller's and the reviewers'
routes `SellerVerificationService`, on the same rows. Import and export services
share the job table with their processors and talk to them through BullMQ. The
gateway asks the circuit breaker before a call and tells it the outcome. Alerts,
deliveries and seller applications notify through the queues and ignore failures
of doing so.

`PROJECT.json` lists every component with its sources, and the hazards, each at
the line where it bites.

## Modules

One convention throughout: a *handler* (`Handlers`, `Callers`, `Workers`) is a
request or job being served. `at[h]` (or `pc`, `worker[w].at`, `request[h].at`)
says which await it is at, `job[h]` (or `snap`) what it has read. A step runs
from one await to the next; a `$transaction` is one step. A failing call ends
the request where it is, or goes where the code's `catch` goes. Definitions
named `X_...` before `X` are mutated forms of `X`, used to show that a property
can fail; nothing else uses them.

### Orders, MCOrders, OrdersProofs, Sums

`OrdersService` and the two operations of `ProductsService` that write what it
reads. `stock`, `active`, `orders`, `completed` are columns and tables; the
payment is the flag `paid` of its order. `create` is three steps (validate,
insert, deduct), `createOrderFromCart` two (validate, transaction), `cancel` one
read, one step per item, and one write. `remove` and `updateShipping` write
unconditionally and are one step. A basket is, per product, the largest quantity
on a line and the total over the lines, because the code compares line by line
and deducts everything. `Ops` selects the traffic, so that one module serves
runs with and without failures. `StockConserved` is a sum over the orders; `Sums` has
what the proofs need to know of sums over finite sets. Left out: `update`, which rewrites fields that
the model does not keep, authorisation, and money.

### Cart, MCCart, CartProofs

`CartController`, `CartService`, `CartCacheService` and the nightly job, for one
customer with a session and, after login, a user id. The routes that read and
change a cart are `@Public`, and `JwtAuthGuard` then authenticates nobody, so
they know the session only, although `cart.controller.ts:62` documents that they
support a user's token; `merge` and `checkout` know the user. A request takes
the cached cart or the latest ACTIVE one, or creates one, and then reads and
writes an item, recomputes totals and invalidates the cache, each in a step. A
cached cart is its id, which is all that later steps use. Totals are kept as the
quantities that they are the price of. `DaysPass` and `ExpireCarts` are the
passing of 24 hours or 30 days and the job that marks carts EXPIRED without
touching the cache. `MCCart` bounds the requests.

### CircuitBreaker, GatewayProofs

`CircuitBreakerService` for one backend: the row, or none; callers that ask
`canExecute`, call the backend, and record its answer. `nextRetryAt` is the time
left until it, since the code only compares it with now. `recordSuccess` and
`recordFailure` read the row and write a part of it (`AfterSuccess(s, r)`,
`AfterFailure(s, r)`: `s` read, `r` found when writing).

### SellerApplications, MCSellerApplications, MCSellerAndCaches, SellerAndCacheProofs

`RequestQueueService` (apply, approve, reject) and `SellerVerificationService`
(documents, reviews, resubmission) on rows of `request_queue`. A row's payload
is one document, its review and the resubmission mark. `Reads` and `Writes` are
the two halves of every call: the write replaces the payload by what the call
made of its earlier read. `DatabaseFails` fails any call; `Caught` says where
`approveRoleRequest` catches it. Bulk operations are sequences of single ones.
The generic methods of `RequestQueueService` have no route and are left out, and
so are an administrator's direct changes of roles.

### ImportExportJobs, ImportExportProofs

A job row, the BullMQ entries that name it, requests (create, cancel, retry) and
workers. BullMQ is external: an entry waits, is active, delayed or gone, is tried
`Attempts` times, and cannot be removed while a worker holds it; `getJobs` may
miss a waiting entry that has a priority. A retried import is queued under the
last part of its file's URL, which is not the key that the file is stored under
(`stored`), so `Load` fails; so does that of an export that finds no records,
every time it is tried. `unwritten` remembers the jobs of which one write was lost
that nobody repeats: of FAILED after the last attempt, or of CANCELLED after
`cancelJob` has removed the entry. An import without a backoff is retried at once,
which is a backoff that ends at once. An unavailable Redis is a failing `add`.
The module goes by a parser result with `success`, as the repository's unit tests
mock it: in the code no parser sets it, so that imports end at the upload and only
exports reach the rest (see [findings](#findings)).

### OneTimeCode, OneTimeCodes, TwoFactor, AdmissionProofs

`OneTimeCodes` is `AuthService` on the codes of one user, for verifying the address
and for resetting the password: register, resend, guess, use, forgot, reset, split
at the hash of the password and at every statement, with expiry and failing
statements. `OneTimeCode` is what a code promises whatever it is for: one is in
force at a time, a request that presents it is accepted and grants later, a code
that granted, expired or was replaced is never in force again. `OneTimeCodes`
instantiates it twice, with a mapping for each purpose (`VerificationCode`, `ResetCode`),
and `ImplementsVerificationCode` and `ImplementsResetCode` are its specification
under them. `TwoFactor` is `TwoFactorService` on the backup codes of one user.

### Routes, Access, Accounts, MCAccess, AdmissionProofs

`Routes` lists the handlers of every controller with the guards they run behind, in
the order in which Nest runs them. `Access` is the guards and strategies, one step
per await, the tokens that login, refresh and impersonation issue, and the handlers
that change roles or the state of an account. Routes with the same policy are one
case, because a guard sees nothing else of a route. `Accounts` is the ways into an
account: `UsersService.create`, whose rows nobody can sign in to yet, registration,
social login with every provider, Firebase included, linking, unlinking and Clerk's
events, each a read and a write of the row. `undone` remembers the rows on which a
list of providers was read before an unlink and written after it.
`AdmissionProofs` has the proofs about these and about the
codes.

### RateLimiting, LoadBalancer, MCLimits, GatewayProofs

The gateway's five strategies as decisions on the state they got from Redis, which
they set in a second round trip; the timestamps that two of them store are kept as how
many there are of each tick. `QuotaService` and the throttler, which count with
INCR; `ViolationTrackerService`. While `RedisConnection` has taken
Redis away the service answers null, 0 or false. `LoadBalancer` is `LoadBalancerService`
for one service: instances are registered, fail and recover, and each strategy chooses.
The code filters the healthy instances into a list and indexes it; the model keeps their
places in the list of all (`Healthy`, `Earlier(k)`), and the one at position *i* is the
one that *i* of them precede.

### CachedViews, CacheAside

`CachedViews` is a table of every method that answers through the cache (its key,
tables, tags, lifetime, parameters, and the parameters its key leaves out), of every
method that writes those tables (what it clears), and of the warmers, which are views
of their own. A key is its literal beginning and the set of names that follow, as the
code concatenates them, so that keys of different methods can be the same:
`getSystemConfig("all")` has that of `getAllSystemConfigs`, a user whose id begins with
`profile:` that of a profile, and two warmers those of the statistics (`Crossings`).
`Forgetful` (writers that invalidate nothing), `Misses` (a writer and a view whose
entry its key misses), `Apart` (services that read a table another one writes) and
`SharedKeys` name the other gaps of the code. `CacheAside` is
`CacheService` with two readers and a writer chosen from that table, one step per
call of Redis, with expiry and an outage. Calls follow one another: of overlapping
ones the code promises nothing. `MCSellerAndCaches` runs it and
`SellerAndCacheProofs` proves it, beside the seller applications.

### Alerts, NotificationQueue, Communication, Deliveries, Devices, MCServices, ServicesProofs

`Alerts` is `AlertEngineService` for one rule and overlapping events.
`NotificationQueue` is the three processors with retries and workers that stop at
any step. `Communication` is `CommunicationHubService` and the mail, SMS and push
services behind it, whose providers refuse, or accept and do not answer. The reads
it makes may fail: of the preferences, which it answers with the defaults, and of the
user's row or subscriptions, which fails that channel. `call.owed` is the channels
that the user is owed when the call begins.
`Deliveries` is `LalamoveService` with the courier and its webhooks, which come late,
twice, in another order or not at all. `Devices` is registration, reports, the check
that marks silent devices offline, health records, and commands over a broker that
comes and goes.

## Runs

| Run | Checks | Size and bounds |
|---|---|---|
| `orders_lifecycle` | types, `StampsInOrder`, `CartCompletedWithOrder` | 3 requests of every kind on 1 order, 1 product, 1 cart, with failures. A third request is needed for one operation to overtake another after a read. |
| `orders_placement` | `StockConserved`, `OversellBounded` | 3 requests, 4 orders, 2 products, 2 carts, stock 1: overselling happens, by overlap and by repeated lines. No cancellation or failure, under which conservation does not hold (see the hazards). |
| `orders_cart_twice` | refuted: `OneOrderPerCart` | 2 requests suffice. |
| `cart` | types, `ActiveCartsBounded`, `QuantityWithinLimit`, `CacheOwner`, `OrderedCartCompleted` | 2 requests at once, 3 in all, 3 carts, 1 product up to 2 times, with expiry and failures. Three requests allow a third to act on what two overlapping ones left. |
| `breaker` | types, `OpenHasRetryTime`, `FailureCountBelowThreshold`, `OpenIsLeft` | 2 callers, thresholds 2 (so that a count can be lost), timeout 2 ticks. |
| `seller_and_caches` | types, `CompletedIsSeller`, `NoneLeftProcessing`, `ReviewIsOfDocument`, `AnswersCurrent` | 2 calls at once, 2 applications of 1 user, 3 documents, 2 failures: a second application and a second document are needed for stale payloads and for reapplying. Every two views that share a tag with every writer of their tables, every two questions of a view and of the views whose keys can meet, every warmer, 2 writes: a second write meets what the first invalidation left. |
| `seller_rejected` | refuted: `RejectedStaysUser` | 2 calls, 1 application. |
| `jobs` | `CompletedProcessedAll`, `StartedJobEnds` | 1 job of 2 batches, 2 workers, 1 client, 2 entries of 2 attempts, 3 failures: enough for a retry beside a delayed entry, and for both attempts and the write of FAILED to fail. |
| `access` | `AuthorisedByStoredRole`, `SignInMethodKept` | 2 users, 2 requests, every policy of `Routes`, 1 token in circulation; 2 addresses, 1 id per provider, 2 tasks: two addresses are needed to take an id from one another. Tasks are for one of them (`Watched`); at the other, which has no password and no Clerk user, people only log in with a provider. |
| `limits` | `StrategyLimit`, `QuotaKept`, `FairShare`, types of the codes, `EveryGuessCounted`, `GrantsBounded`, `OneBatch`, `ImplementsVerificationCode`, `ImplementsResetCode` | 2 overlapping requests, limit 2 in a window of 2 ticks, 3 ticks, so that a window ends and is counted against the next; 2 instances with weights; 3 requests on 2 codes of 2 attempts; 3 calls on 2 batches of 2 backup codes. |
| `services` | `CooldownBounds`, `SentRowPerMail`, `HubReportsTruly`, `QuoteBuysOnce`, `RowFollowsCourier`, `NoneOnlineForLong`, `CommandsRecorded` | 2 events, 4 alerts, cooldown 2; 2 of 4 jobs, 2 attempts each; 1 call of the hub with every setup of providers; 2 orders, 3 webhooks; 2 devices, 3 units of time; 2 commands. |
| `device_registration` | refuted: `RegistrationAccepted` | 2 devices. |

`access`, `limits`, `seller_and_caches` and `services` each put several components into one run that
share no state in the code. A behaviour exercises one of them, its `scope`, chosen
at the start and fixed, while the others rest: TLC explores the sum of their state
spaces, and nothing is lost, since no step of one enables or changes a step of
another. What one component does to another where they do interact is a step of the
module concerned (a command may go by a cached status, an alert queues a mail).

Several properties are stated with the case in which the code gives no guarantee
left out by a history variable, and say so: `StrategyLimit` is about requests one
after another (`excused`), `SignInMethodKept` about every step but the write of a list
that was read before an unlink (`undone`), `StartedJobEnds` about jobs whose last write
was not lost (`unwritten`), and `AnswersCurrent` names the gaps of the code one by one.

Deadlock checking is off where requests may simply stop coming; the breaker,
whose callers never stop, is checked for deadlock. Symmetry is used only in runs
without liveness. The constants named `Max...` are bounds and appear as guards of
the steps they bound.

## Fairness

`breaker` assumes weak fairness of every caller's steps and of time: a request
that is under way goes on, and clients keep asking. Without traffic the breaker
has no timer of its own and stays OPEN, as in the code. Nothing is assumed of
the backend's answers or of administrators. `jobs` assumes weak fairness of
workers, of requests under way and of the end of a backoff (BullMQ's timers),
and nothing of clients or of failures: any await may fail, every attempt may end for
want of records, and only the two writes that nobody repeats (`unwritten`) can leave a
row PROCESSING for ever. All other runs check safety.

## Proofs

The theorems hold for every value of the constants, in particular for any number
of requests at once. The components that a run explores side by side share no
state, so each is proved from its own specification (`QuotaSpec`, `TFSpec`,
`StrategySpec`, `LBSpec`, `AccountsSpec`, `AccessSpec`, `CacheSpec`, `CommSpec`,
`AlertsSpec`, `QueueSpec`, `DeliveriesSpec`, `DevicesSpec`), whose initial condition and steps are the ones the run uses.

* **GatewayProofs**, the circuit breaker: types, `OpenHasRetryTime` and
  `FailureCountBelowThreshold`, for all thresholds. The invariant is
  that the row is sound (`SoundRow`); nothing is needed of what callers have read
  but its type, because a count is written only when it is below the threshold and
  OPEN only together with a retry time. Quotas: `QuotaKept`, since what was admitted was
  counted. Strategies: `StrategyLimit`, from one invariant per strategy that relates
  what it stores to the history of what it allowed, as long as its requests follow one
  another: the log of a sliding window is that history, a token bucket holds no more than
  what has flowed in since any tick and was not granted, a leaky bucket no less than
  what was granted and could not have leaked, and a request under way has read the state
  that is still stored. Load balancer: `FairShare`, in both forms
  from one argument. The healthy instances lie side by side, each as wide as its share
  (one place, or its weight), and the one picked is that which covers the index modulo
  the whole width; so what an instance was picked since index *a* is how often the
  indexes from *a* on fall on its share (`SharesCounted`), whatever *a* was, and that
  is the same number of rounds for all, but for one (`TurnsInRounds`).
* **OrdersProofs.** Types; `StampsInOrder`, with the invariant that what a pending
  `updateStatus` has seen is still stamped when it writes; `CartCompletedWithOrder`;
  and `OversellBounded`: the stock is at least minus `MaxTotal` for every request
  that is *not* between its comparison and its deduction (`Slack`), which needs
  the cardinality of the set of requests in flight and so its finiteness. Since a
  request in flight has compared, it leaves and enters that set at the price of
  one `MaxTotal` at most. `StockConserved`, for traffic of orders, checkouts,
  payments and shipping details (`Ops \subseteq Keeping`; the run allows the first two): the
  stock is the initial stock less the units of the orders, plus what requests have
  inserted and not deducted yet (`Balanced`), and the last is nothing when all are at rest.
* **Sums.** What `MapThenSumSet` computes of any finite set: the sum of none, of one more,
  of one less, of what changes in one place. The operator is defined by a recursive
  function over the subsets; the facts are proved by induction over the number of
  elements, and that (`Induction`) from the least element of the exceptions,
  which < on the naturals has because it is well-founded.
* **CartProofs.** Types, `CacheOwner`, `QuantityWithinLimit`, `ActiveCartsBounded`
  and `OrderedCartCompleted`, from one invariant (`CartInv`). Its heart is `Good`,
  what a request knows at each of its awaits: the cart in hand is its owner's, the
  cart to merge the session's, and the quantity about to be written is within the
  limit whatever has happened to the cart since it was computed. `RowsKept` says
  what no step does to a cart (lose its owner, leave COMPLETED once it is the
  user's), so a request stays good while others act. Active carts are bounded
  together with the requests about to create one (`CartsBounded`).
* **SellerAndCacheProofs.** Types; `CompletedIsSeller`, with the invariant that an approval
  about to complete has granted the role; `ReviewIsOfDocument`, with the same of
  the payloads that calls hold; and `NoneLeftProcessing`, from the invariant that
  a PROCESSING application has an approval at work on it unless two calls have
  failed. The proof follows the model's shape: one lemma for every call that
  reads, one for every call that writes, one for those that only move on.
  `AnswersCurrent`: every entry is in the list of each of its tags, but those its
  reader has yet to file it under (`AllFiled`), so what a writer finds under a tag is
  all that is filed there; it has cleared all up to where it is (`ClearedUpTo`), and at
  rest nothing is left that it should have cleared. The tables of `CachedViews` are
  gone through view by view and writer by writer, for the few facts that the rest of the
  proof uses alone (`SetupGood`): the literal beginnings of keys tell views apart but
  for `Crossings`, keys tell questions apart or are in `SharedKeys`, and a writer clears
  every view of its tables, by a tag or by its key, or is in a known gap (`WritersGood`). A list that
  expires early ends `quiet`, as it does in the model.
* **ImportExportProofs.** Types and `CompletedProcessedAll`. The invariant
  (`JobsInv`) says why a late write of progress cannot spoil a completed job: only
  the entry that the upload queued finds the file (`Original`), an import has one
  such entry and one worker holds it, so nobody else completes the job while a
  worker writes batches.
* **AdmissionProofs**, the codes: types, `EveryGuessCounted`, `GrantsBounded` and both
  refinements, `ImplementsVerificationCode` and `ImplementsResetCode`. Grants are
  counted together with the requests already accepted (`Verifying`, `Resetting`),
  guesses together with the increments under way (`Counting`). Each refinement has a
  lemma for every kind of step: those that issue, accept, grant, or stutter under
  the mapping; that an accepted request holds a code that was issued
  (`HoldsCode`) is what makes a grant a step of `OneTimeCode`.
  The others: `OneBatch`: besides the row, the copy of the list that each
  call has in hand is of one batch, and without an overlap it is the row's.
  `SignInMethodKept`, of every step: a row that only its providers let in has an id for
  every provider it lists (`ListedHaveIds`), and so has a request's copy of the list
  unless an unlink was written since it was read (`CopyGood`); the check that
  `unlinkSocialAccount` makes on its copy then holds of the row it writes. `AuthorisedByStoredRole`: a request past
  the guard that reads the role has the role, or it was changed since (`moved`).
  It needs that a route restricted to roles runs `JwtAuthGuard` and `RolesGuard`, no
  more and no less; that is `EveryRouteGood`, proved of the route tables of `Routes`
  one by one. (Where `RolesGuard` comes first, nobody passes.)
* **ServicesProofs.** `CooldownBounds`: the alerts of a period that is not over and
  the calls past the lookup are together no more than there are calls; a call that
  finds no cooldown finds every period over. `SentRowPerMail`: the rows marked SENT
  are covered by accepted messages, with one more accepted for the attempt that has
  sent and not yet marked its row. `NoneOnlineForLong` and `CommandsRecorded`: what
  a check has collected and what a command has done so far. `QuoteBuysOnce`: without
  an overlap one call is active, and without a call that stopped half-way an order
  without a row is one that a call is about to store, and a quotation that bought is closed
  or about to be. `RowFollowsCourier`: as long as webhooks come in order the last that names a
  status names the courier's, and with none of them on its way the row has caught
  up (`CaughtUp`); an order about to be stored has no row and belongs to one call.
  The last conjunct of that property thus holds for orders being cancelled too.
  `HubReportsTruly`: the channels owed, and no other, are promised, one outcome each
  (`PromisesOneEach`), a message was accepted wherever an outcome says so, and the
  index with which the outcomes are read back stands at the channel whose outcome it
  reads (`SettledIsGood`).

The assumptions are the named `ASSUME`s of the modules: bounds are naturals,
thresholds positive, sets of handlers finite where they are counted, the
stand-ins for null differ from the values (`NoCart`, `NoJob`, `NoId`, `Nobody`), the
texts of the notification queue are jobs of their own, and a role that can be assigned
is a role. They describe how the model is set up and restrict nothing the code does.

Only model-checked: liveness (`OpenIsLeft`, `StartedJobEnds`), which the prover does
not do.

## Findings

Three runs refute what the repository says of itself, each quoted with its lines in
`PROJECT.json`: two checkouts of one cart make two orders (`OneOrderPerCart`); a
rejection that overlaps an approval leaves a rejected applicant a seller
(`RejectedStaysUser`); and once one device is active no other can register
(`RegistrationAccepted`).

Further promises that the code does not keep. Each is a definition of its module
that TLC refutes when it is given as a property in the module's run:

| Promise | Where it is made | What happens |
|---|---|---|
| `Orders!ShippedNotCancelled` | `src/test/e2e/orders/orders.e2e-spec.ts:244` | a cancellation overtaken by a shipment cancels a shipped order (`orders.service.ts:429`) |
| `Cart!CachedCartIsActive` | `src/src/modules/cart/cart-scheduler.service.spec.ts:117` | an expired cart stays cached and in use |
| `Cart!MergedOnce` | `cart.controller.ts:376` | two merges of one guest cart add its items twice |
| `CircuitBreaker!DocumentedFlow` | `circuit-breaker.service.ts:16` | stale writes take edges that the comment does not list, also without an administrator (`UnattendedSpec`) |
| `Access!InactiveKeptOut` | `auth.controller.ts:1096` | no login reads `isActive` |
| `RateLimiting!GuestLimitKept` | `role-limits.config.ts:126` | the guard catches its own refusals (`throttler.guard.ts:353`) |
| `OneTimeCodes!LockoutLasts` | the `verify-reset-code` route | a late write of a smaller count lifts a lockout |

Met while modelling: no parser sets `success`, while `import.service.ts:101` and
`import.processor.ts:99` refuse a result without it, so every upload is refused
(the unit tests mock it); a retried import never finds its file; a job that
completes during a cancellation becomes CANCELLED; a device whose serial number is
contained in that of a registered one is refused as if it were registered
(`devices.service.ts:374`); two unlinks at once can leave an account without a way in;
a user whose preferences cannot be read is sent messages in quiet hours
(`communication-hub.service.ts:198`).

## What is left out

Ownership checks (the enumerated requests are those that pass them), money, addresses
and texts, notifications whose failures are swallowed, and read-only queries.
Isolation between concurrent SQL statements is that of single statements and of the
`$transaction`s; a transaction is atomic in the model. Worker crashes, after which
BullMQ hands an entry out again, are modelled for notifications and not for imports.

Not modelled, with the reasons in `PROJECT.json`: shipping costs and taxes (decimal
arithmetic without state), cart analytics, health, metrics and tracing (they only
read), sessions of the auth module (a stub), profiles and API keys (single rows),
inventory and WebSockets (maps changed synchronously by one event at a time;
`app.module.ts` has the WebSocket module commented out), the request pipeline
(stateless), the parsers (string functions), and the validation and transformation of
imported rows, which no request reaches, because the upload refuses what every parser
returns. The strategies' `reset`, which nothing calls, is left out too.

## Plan

Modelling has reached the components whose operations interact, and all safety
properties of the runs are proved. What is left:

1. The import half of the job pipeline: once a parser sets `success`, the validation of
   rows belongs beside `ImportExportJobs`.
2. `CacheAside`: how long an entry can stay stale when calls do overlap, which needs
   the lifetimes as time and not as an order of expiries.
