----------------------------- MODULE RateLimiting -----------------------------
(***************************************************************************)
(* The counters that limit requests, for one key: the strategies of the     *)
(* gateway (sliding window, token bucket, leaky bucket, fixed window,       *)
(* adaptive), QuotaService, ViolationTrackerService, RedisThrottlerStorage  *)
(* and CustomThrottlerGuard.  A strategy gets its state from Redis, decides *)
(* and sets the new state in two round trips; quotas and the throttler      *)
(* count with INCR.  Time is in ticks; a window has Window of them.         *)
(* RedisService answers null, 0 or false while Redis is away.               *)
(***************************************************************************)
EXTENDS Integers, FiniteSets, FiniteSetsExt

CONSTANTS Clients,   \* requests being checked
          Limit,     \* requests per window, and the daily quota
          MonthLimit, \* the monthly quota
          Window,    \* ticks of a window
          MaxClock,  \* bound: ticks
          MaxGrants, \* bound: requests granted in a tick
          MaxScore   \* the adaptive strategy's best score (100)

ASSUME RateAssumption ==
    /\ Limit \in Nat \ {0} /\ Window \in Nat \ {0} /\ MonthLimit \in Nat
    /\ MaxClock \in Nat /\ MaxGrants \in Nat /\ MaxScore \in Nat \ {0}

VARIABLES clock,
          up,         \* RedisService.isAvailable
          stored,     \* stored[s]: the state of strategy s in Redis, or NoState
          score,      \* adaptive: the user's score, 0 counting as "no score"
          check,      \* check[c]: what request c has read
          granted,    \* history: granted[s][t], requests s allowed at tick t, until excused
          excused,    \* history: strategies that had overlapping requests, or no Redis
          quota,      \* QuotaService: the day's and the month's counter
          admitted,   \* history: requests each counter let pass
          violations, \* ViolationTrackerService: count stored
          hits,       \* RedisThrottlerStorage: the counter and whether it expires
          throttled   \* history: requests CustomThrottlerGuard let through in this window

rateVars == <<clock, up, stored, score, check, granted, excused, quota, admitted,
              violations, hits, throttled>>

Strategies == {"sliding", "token", "leaky", "fixed", "adaptive"}
Periods == {"day", "month"}
Ticks == 0 .. MaxClock
NoState == [none |-> TRUE]
Waiting == [place |-> "idle"]

RateInit ==
    /\ clock = 0 /\ up = TRUE
    /\ stored = [s \in Strategies |-> NoState]
    /\ score = 0
    /\ check = [c \in Clients |-> Waiting]
    /\ granted = [s \in Strategies |-> [t \in Ticks |-> 0]]
    /\ excused = {}
    /\ quota = [p \in Periods |-> 0] /\ admitted = [p \in Periods |-> 0] /\ violations = 0
    /\ hits = [count |-> 0, expires |-> FALSE]
    /\ throttled = 0

-----------------------------------------------------------------------------
(* The strategies: what checkLimit decides and stores for a state it read.  *)

Decision(allowed, state) == [allowed |-> allowed, state |-> state]

\* The timestamps a strategy stores, in no order that matters: how many there are of each tick.
NoTimes == [t \in Ticks |-> 0]
Recent(times) == [t \in Ticks |-> IF t > clock - Window THEN times[t] ELSE 0]
HowMany(times) == MapThenSumSet(LAMBDA t : times[t], Ticks)
Stamped(times) == [times EXCEPT ![clock] = @ + 1]

SlidingWindow_OffByOne(state) ==
    LET times == IF state = NoState THEN NoTimes ELSE Recent(state.times)
        allowed == HowMany(times) <= Limit
    IN  Decision(allowed, [times |-> IF allowed THEN Stamped(times) ELSE times])

\* SlidingWindowStrategy.checkLimit: timestamps of the requests allowed.
SlidingWindow(state) ==
    LET times == IF state = NoState THEN NoTimes ELSE Recent(state.times)
        allowed == HowMany(times) < Limit
    IN  Decision(allowed, [times |-> IF allowed THEN Stamped(times) ELSE times])

\* TokenBucketStrategy.checkLimit: tokens are fractions; here in 1/Window.
TokenBucket(state) ==
    LET full == Limit * Window
        tokens == IF state = NoState THEN full
                  ELSE Min({full, state.tokens + (clock - state.refilled) * Limit})
        allowed == tokens >= Window
    IN  Decision(allowed, [tokens |-> IF allowed THEN tokens - Window ELSE tokens, refilled |-> clock])

\* LeakyBucketStrategy.checkLimit: whole requests leak, and the time of a
\* fraction is forgotten at every check.
LeakyBucket(state) ==
    LET leaked == IF state = NoState THEN 0 ELSE ((clock - state.leaked) * Limit) \div Window
        size == IF state = NoState THEN 0 ELSE Max({0, state.size - leaked})
        allowed == size < Limit
    IN  Decision(allowed, [size |-> IF allowed THEN size + 1 ELSE size, leaked |-> clock])

\* FixedWindowStrategy.checkLimit: RedisService.get parses the counter into a
\* number, and what is not a string counts as 0.
FixedWindow(state) ==
    LET window == clock \div Window
        count == IF state = NoState \/ state.window # window THEN 0 ELSE state.count
        currentCount == 0
    IN  Decision(currentCount < Limit, [count |-> count + 1, window |-> window])

\* AdaptiveStrategy: a missing score, or 0, is taken for 70 of 100.
UserScore == IF score = 0 THEN (70 * MaxScore) \div 100 ELSE score

\* calculateUserMultiplier, in tenths.
UserMultiplier(s) ==
    LET percent == (s * 100) \div MaxScore IN
    IF percent >= 90 THEN 15 ELSE IF percent >= 70 THEN 12 ELSE IF percent >= 50 THEN 10
    ELSE IF percent >= 30 THEN 7 ELSE 3

\* calculateAdaptiveLimit with the load the metrics report (0.5 for a target
\* of 0.7): the base limit times 1.06 times the multiplier, within 0.3 and 2.
AdaptiveLimit ==
    Max({(Limit * 3) \div 10, Min({Limit * 2, (Limit * 106 * UserMultiplier(UserScore)) \div 1000})})

Adaptive(state) ==
    LET times == IF state = NoState THEN NoTimes ELSE Recent(state.times)
        allowed == HowMany(times) < AdaptiveLimit
    IN  Decision(allowed, IF allowed THEN [times |-> Stamped(times)] ELSE state)

Decide(s, state) ==
    CASE s = "sliding" -> SlidingWindow(state)
      [] s = "token" -> TokenBucket(state)
      [] s = "leaky" -> LeakyBucket(state)
      [] s = "fixed" -> FixedWindow(state)
      [] s = "adaptive" -> Adaptive(state)

-----------------------------------------------------------------------------
Unlimited == <<quota, admitted, violations, hits, throttled>>

\* redis.get; a strategy with a request between its get and its set is
\* raced.  The fixed window's INCR is one step of its own in Redis.
StrategyRead(c, s) ==
    /\ check[c].place = "idle"
    /\ granted[s][clock] < MaxGrants
    /\ s = "fixed" /\ stored[s] # NoState => stored[s].count < MaxGrants
    /\ check' = [check EXCEPT ![c] =
           [place |-> "strategy", strategy |-> s, state |-> IF up THEN stored[s] ELSE NoState]]
    /\ excused' = IF ~up \/ \E d \in Clients : check[d].place = "strategy" /\ check[d].strategy = s
                  THEN excused \cup {s} ELSE excused
    /\ UNCHANGED <<clock, up, stored, score, granted>> /\ UNCHANGED Unlimited

\* The decision and redis.set, which is dropped without Redis.
StrategyWrite(c) ==
    LET s == check[c].strategy
        d == Decide(s, check[c].state)
    IN  /\ check[c].place = "strategy"
        /\ stored' = IF up THEN [stored EXCEPT ![s] = d.state] ELSE stored
        /\ excused' = IF up THEN excused ELSE excused \cup {s}
        /\ granted' = IF d.allowed /\ s \notin excused' THEN [granted EXCEPT ![s][clock] = @ + 1] ELSE granted
        /\ score' = IF s # "adaptive" THEN score
                    ELSE IF d.allowed THEN Min({MaxScore, UserScore + 1})
                    ELSE Max({0, UserScore - 5})
        /\ check' = [check EXCEPT ![c] = Waiting]
        /\ UNCHANGED <<clock, up>> /\ UNCHANGED Unlimited

-----------------------------------------------------------------------------
(* QuotaService.checkQuota: an INCR of the day's counter, whose result      *)
(* decides, then one of the month's.  Without Redis the counts are 0 and    *)
(* everybody is admitted.                                                   *)

Strategic == <<stored, score, granted, excused>>
QuotaLimit(period) == IF period = "day" THEN Limit ELSE MonthLimit

\* incrementQuota and the comparison for one period.
CountQuota(period, c, then) ==
    LET current == IF up THEN quota[period] + 1 ELSE 0 IN
    /\ quota[period] < MaxGrants
    /\ quota' = IF up THEN [quota EXCEPT ![period] = current] ELSE quota
    /\ admitted' = IF up /\ current <= QuotaLimit(period)
                   THEN [admitted EXCEPT ![period] = @ + 1] ELSE admitted
    /\ check' = [check EXCEPT ![c] = IF current <= QuotaLimit(period) THEN then ELSE Waiting]
    /\ UNCHANGED <<clock, up, violations, hits, throttled>> /\ UNCHANGED Strategic

CheckDailyQuota(c) == check[c].place = "idle" /\ CountQuota("day", c, [place |-> "month"])

CheckMonthlyQuota_ReadThenWrite(c) ==
    /\ check[c].place = "month"
    /\ quota["month"] < MaxGrants
    /\ quota' = IF up THEN [quota EXCEPT !["month"] = @ + 1] ELSE quota
    /\ admitted' = IF up /\ quota["month"] <= MonthLimit
                   THEN [admitted EXCEPT !["month"] = @ + 1] ELSE admitted
    /\ check' = [check EXCEPT ![c] = Waiting]
    /\ UNCHANGED <<clock, up, violations, hits, throttled>> /\ UNCHANGED Strategic

CheckMonthlyQuota(c) == check[c].place = "month" /\ CountQuota("month", c, Waiting)

\* resetQuota, or the next day's or month's key.
ResetQuota(period) ==
    /\ up
    /\ quota' = [quota EXCEPT ![period] = 0]
    /\ admitted' = [admitted EXCEPT ![period] = 0]
    /\ UNCHANGED <<clock, up, check, violations, hits, throttled>> /\ UNCHANGED Strategic

\* calculateBackoff, in minutes: what isInBackoff compares the time with.
CalculateBackoff(count) ==
    CASE count = 0 -> 0 [] count = 1 -> 1 [] count = 2 -> 2 [] count = 3 -> 5 [] OTHER -> 10

\* recordViolation: the record is got, counted up and set.
RecordViolation(c) ==
    /\ check[c].place = "idle"
    /\ up
    /\ check' = [check EXCEPT ![c] = [place |-> "violation", count |-> violations + 1]]
    /\ UNCHANGED <<clock, up, quota, admitted, violations, hits, throttled>> /\ UNCHANGED Strategic

ViolationWrite(c) ==
    /\ check[c].place = "violation"
    /\ violations' = IF up /\ check[c].count <= Limit THEN check[c].count ELSE violations
    /\ check' = [check EXCEPT ![c] = Waiting]
    /\ UNCHANGED <<clock, up, quota, admitted, hits, throttled>> /\ UNCHANGED Strategic

ClearViolations ==
    /\ up
    /\ violations' = 0
    /\ UNCHANGED <<clock, up, check, quota, admitted, hits, throttled>> /\ UNCHANGED Strategic

-----------------------------------------------------------------------------
(* CustomThrottlerGuard, which runs before any other guard: no user yet.    *)

\* RedisThrottlerStorage.increment: INCR, then for the first hit EXPIRE.  A
\* map in memory counts while Redis is away; nobody looks at either count.
ThrottlerIncrement(c) ==
    /\ check[c].place = "idle"
    /\ hits.count < MaxGrants /\ throttled < MaxGrants
    /\ hits' = IF up THEN [hits EXCEPT !.count = @ + 1] ELSE hits
    /\ check' = [check EXCEPT ![c] =
           [place |-> IF up /\ hits.count = 0 THEN "expire" ELSE "throttled"]]
    /\ UNCHANGED <<clock, up, quota, admitted, violations, throttled>> /\ UNCHANGED Strategic

ThrottlerExpire(c) ==
    /\ check[c].place = "expire"
    /\ hits' = IF up THEN [hits EXCEPT !.expires = TRUE] ELSE hits
    /\ check' = [check EXCEPT ![c].place = "throttled"]
    /\ UNCHANGED <<clock, up, quota, admitted, violations, throttled>> /\ UNCHANGED Strategic

\* handleRequest: isBlocked is always false, and what is thrown on the way is
\* caught together with the database's errors: the request proceeds.
HandleRequest(c) ==
    /\ check[c].place = "throttled"
    /\ throttled' = throttled + 1
    /\ check' = [check EXCEPT ![c] = Waiting]
    /\ UNCHANGED <<clock, up, quota, admitted, violations, hits>> /\ UNCHANGED Strategic

-----------------------------------------------------------------------------
(* Time, and Redis that comes and goes.                                     *)

\* A window ends: the counters that expire are gone.
ClockTicks ==
    /\ clock < MaxClock
    /\ clock' = clock + 1
    /\ IF clock' % Window = 0
         THEN /\ hits' = IF hits.expires THEN [count |-> 0, expires |-> FALSE] ELSE hits
              /\ throttled' = 0
         ELSE UNCHANGED <<hits, throttled>>
    /\ UNCHANGED <<up, check, quota, admitted, violations>> /\ UNCHANGED Strategic

RedisConnection ==
    /\ up' = ~up
    /\ UNCHANGED <<clock, check, quota, admitted, violations, hits, throttled>> /\ UNCHANGED Strategic

\* The strategies share no key: a behaviour exercises one of them.
StrategyNext(s) ==
    \/ \E c \in Clients : StrategyRead(c, s) \/ StrategyWrite(c)
    \/ ClockTicks \/ RedisConnection

QuotaNext ==
    \/ \E c \in Clients : CheckDailyQuota(c) \/ CheckMonthlyQuota(c) \/ RecordViolation(c) \/ ViolationWrite(c)
    \/ \E p \in Periods : ResetQuota(p)
    \/ ClearViolations \/ RedisConnection

ThrottlerNext ==
    \/ \E c \in Clients : ThrottlerIncrement(c) \/ ThrottlerExpire(c) \/ HandleRequest(c)
    \/ ClockTicks \/ RedisConnection

StrategySpec == RateInit /\ [][\E s \in Strategies : StrategyNext(s)]_rateVars

QuotaSpec == RateInit /\ [][QuotaNext]_rateVars

-----------------------------------------------------------------------------
InWindow(s, t) == MapThenSumSet(LAMBDA u : granted[s][u], {u \in Ticks : u <= t /\ u > t - Window})

(***************************************************************************)
(* The limits the strategies are documented with, for requests checked one *)
(* after another while Redis answers: a sliding window allows Limit        *)
(* requests in any window; the buckets allow a burst of Limit and then     *)
(* what flows in or out; the adaptive limit stays below twice the base.    *)
(***************************************************************************)
StrategyLimit ==
    \A s \in {"sliding", "token", "leaky", "adaptive"} \ excused : \A t \in Ticks :
        InWindow(s, t) <= IF s = "sliding" THEN Limit ELSE 2 * Limit

(***************************************************************************)
(* The quotas hold however the requests overlap, because one INCR counts   *)
(* and decides: the calls that Redis answered admit no more than the limit *)
(* in a day and in a month.                                                *)
(***************************************************************************)
QuotaKept == \A p \in Periods : admitted[p] <= QuotaLimit(p)

(***************************************************************************)
(* "Unauthenticated user (20 req/min)", role-limits.config.ts says: in one *)
(* window the throttler lets Limit requests through.                       *)
(***************************************************************************)
GuestLimitKept == throttled <= Limit

==============================================================================
