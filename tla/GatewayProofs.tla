----------------------------- MODULE GatewayProofs ------------------------------
(***************************************************************************)
(* Proofs about the gateway: the circuit breaker, the quotas, the          *)
(* strategies that limit requests and the load balancer.  The parts share  *)
(* no state; each has its own specification and its own inductive          *)
(* invariant.                                                              *)
(***************************************************************************)
EXTENDS CircuitBreaker, RateLimiting, LoadBalancer, Sums, TLAPS

-----------------------------------------------------------------------------
(***************************************************************************)
(* The circuit breaker, for any number of callers and any thresholds.      *)
(***************************************************************************)

\* The row is absent or sound: typed, below the threshold, with a retry time
\* when it is OPEN.
SoundRow(r) ==
    /\ r \in Row
    /\ r.failureCount < FailureThreshold
    /\ r.state = "OPEN" => r.nextRetryAt # Null

Inv ==
    /\ TypeOK
    /\ row # NoRow => SoundRow(row)

\* The retry times, and what a second makes of them.
LEMMA RetryTimesFacts ==
    /\ Timeout \in RetryTimes /\ Timeout # Null
    /\ Null \in RetryTimes
    /\ \A t \in RetryTimes : t \in 1 .. Timeout => t - 1 \in RetryTimes /\ t - 1 # Null
<1>1. Timeout \in 0 .. Timeout /\ \A t \in 1 .. Timeout : t - 1 \in 0 .. Timeout
  BY ThresholdsPositive
<1> QED
  BY <1>1, SentinelsDistinct DEF RetryTimes

\* The row that getState creates is sound.
LEMMA InitialRowSound == SoundRow(InitialRow)
  BY ThresholdsPositive, RetryTimesFacts DEF SoundRow, Row, States, InitialRow

\* Each of the writes keeps the row sound, whatever stale row s its decision
\* was taken on.
LEMMA WritesSound ==
  ASSUME NEW r, SoundRow(r), NEW s \in Row
  PROVE  /\ SoundRow(TransitionToOpen(r))
         /\ SoundRow(TransitionToHalfOpen(r))
         /\ SoundRow(TransitionToClosed(r))
         /\ SoundRow(AfterSuccess(s, r))
         /\ SoundRow(AfterFailure(s, r))
<1>a. 0 < FailureThreshold
  BY ThresholdsPositive
<1>b. \A t \in Row :
        SoundRow(t) <=> /\ t.failureCount < FailureThreshold
                        /\ t.state = "OPEN" => t.nextRetryAt # Null
  BY DEF SoundRow
<1>c. r \in Row
  BY DEF SoundRow
<1>1. SoundRow(TransitionToOpen(r))
  BY ThresholdsPositive, RetryTimesFacts
     DEF SoundRow, Row, States, TransitionToOpen
<1>2. SoundRow(TransitionToClosed(r))
  <2>1. TransitionToClosed(r) \in Row
    BY <1>c, RetryTimesFacts DEF Row, States, TransitionToClosed
  <2>2. /\ TransitionToClosed(r).failureCount = 0
        /\ TransitionToClosed(r).state = "CLOSED"
    BY <1>c DEF Row, TransitionToClosed
  <2> QED
    BY <2>1, <2>2, <1>a, <1>b
<1>3. SoundRow(TransitionToHalfOpen(r))
  <2>1. TransitionToHalfOpen(r) \in Row
    BY <1>c DEF Row, States, TransitionToHalfOpen
  <2>2. /\ TransitionToHalfOpen(r).failureCount = 0
        /\ TransitionToHalfOpen(r).state = "HALF_OPEN"
    BY <1>c DEF Row, TransitionToHalfOpen
  <2> QED
    BY <2>1, <2>2, <1>a, <1>b
<1>4. SoundRow(AfterSuccess(s, r))
  <2> DEFINE t == [r EXCEPT !.failureCount = 0, !.successCount = s.successCount + 1]
             u == [r EXCEPT !.successCount = s.successCount + 1]
  <2>1. s.successCount + 1 \in Nat
    BY DEF Row
  <2>2. t \in Row
    BY <1>c, <2>1 DEF Row
  <2>3. t.failureCount = 0 /\ t.state = r.state /\ t.nextRetryAt = r.nextRetryAt
    BY <1>c DEF Row
  <2>4. SoundRow(t)
    BY <2>2, <2>3, <1>a, <1>b DEF SoundRow
  <2>5. SoundRow(u)
    BY DEF SoundRow, Row
  <2> QED
    BY <1>2, <2>4, <2>5 DEF AfterSuccess
<1>5. SoundRow(AfterFailure(s, r))
  BY <1>1, ThresholdsPositive DEF SoundRow, Row, States, AfterFailure
<1> QED
  BY <1>1, <1>2, <1>3, <1>4, <1>5

\* The invariant holds at the start.
LEMMA InvInit == Init => Inv
  BY InitialRowSound, SentinelsDistinct
     DEF Init, Inv, TypeOK, SoundRow, Labels

\* Every step keeps the invariant.
LEMMA InvNext == Inv /\ [Next]_vars => Inv'
<1> SUFFICES ASSUME Inv, [Next]_vars PROVE Inv'
  OBVIOUS
<1> USE DEF Inv, TypeOK
<1>a. /\ InitialRow \in Row
      /\ SoundRow(InitialRow)
      /\ \A r : SoundRow(r) => r \in Row /\ r # NoRow
  BY InitialRowSound, SentinelsDistinct DEF SoundRow
<1>1. ASSUME NEW c \in Callers, CanExecute(c) PROVE Inv'
  BY <1>1 DEF CanExecute, Admit, Goto, Labels
<1>2. ASSUME NEW c \in Callers, CanExecuteNoRow(c) PROVE Inv'
  BY <1>2 DEF CanExecuteNoRow, Goto, Labels
<1>3. ASSUME NEW c \in Callers, CreateRow(c) PROVE Inv'
  BY <1>3, <1>a DEF CreateRow, Goto, Labels
<1>4. ASSUME NEW c \in Callers, HalfOpen(c) PROVE Inv'
  <2>1. row # NoRow
    BY <1>4 DEF HalfOpen
  <2>2. SoundRow(row')
    BY <1>4, <2>1, <1>a, WritesSound DEF HalfOpen
  <2> QED
    BY <1>4, <2>1, <2>2, <1>a DEF HalfOpen, Goto, Labels
<1>5. ASSUME NEW c \in Callers, BackendAnswers(c) PROVE Inv'
  BY <1>5 DEF BackendAnswers, Goto, Labels
<1>6. ASSUME NEW c \in Callers, RecordSuccess(c) PROVE Inv'
  <2>1. row # NoRow
    BY <1>6 DEF RecordSuccess
  <2>2. SoundRow(row')
    BY <1>6, <2>1, <1>a, WritesSound DEF RecordSuccess
  <2> QED
    BY <1>6, <2>1, <2>2, <1>a DEF RecordSuccess, Goto, Labels
<1>7. ASSUME NEW c \in Callers, RecordFailure(c) PROVE Inv'
  <2>1. row # NoRow
    BY <1>7 DEF RecordFailure
  <2>2. SoundRow(row')
    BY <1>7, <2>1, <1>a, WritesSound DEF RecordFailure
  <2> QED
    BY <1>7, <2>1, <2>2, <1>a DEF RecordFailure, Goto, Labels
<1>8. CASE Reset
  <2>1. SoundRow(row')
    BY <1>8, <1>a, WritesSound DEF Reset
  <2> QED
    BY <1>8, <2>1, <1>a DEF Reset
<1>9. CASE Tick
  <2>1. SoundRow(row')
    BY <1>9, RetryTimesFacts DEF Tick, SoundRow, Row
  <2> QED
    BY <1>9, <2>1, <1>a DEF Tick
<1>10. CASE UNCHANGED vars
  BY <1>10 DEF vars
<1> QED
  BY <1>1, <1>2, <1>3, <1>4, <1>5, <1>6, <1>7, <1>8, <1>9, <1>10 DEF Next, Step

\* The variables keep their types, and no request proceeds before the row of
\* its service exists.
THEOREM TypeCorrect == Spec => []TypeOK
<1>1. Inv => TypeOK
  BY DEF Inv
<1> QED
  BY <1>1, InvInit, InvNext, PTL DEF Spec

\* An OPEN breaker always names its next retry, so canExecute cannot reject
\* for ever.
THEOREM OpenAlwaysHasRetryTime == Spec => []OpenHasRetryTime
<1>1. Inv => OpenHasRetryTime
  BY DEF Inv, SoundRow, OpenHasRetryTime
<1> QED
  BY <1>1, InvInit, InvNext, PTL DEF Spec

\* No interleaving of recordFailure, recordSuccess and reset leaves the
\* failure count at or above the threshold.
THEOREM FailureCountAlwaysBelowThreshold == Spec => []FailureCountBelowThreshold
<1>1. Inv => FailureCountBelowThreshold
  BY DEF Inv, SoundRow, FailureCountBelowThreshold
<1> QED
  BY <1>1, InvInit, InvNext, PTL DEF Spec

-----------------------------------------------------------------------------
(***************************************************************************)
(* Quotas.                                                                 *)
(***************************************************************************)

\* The inductive invariant: what a counter admitted, it has counted.
QuotaInv ==
    /\ quota \in [Periods -> Nat] /\ admitted \in [Periods -> Nat]
    /\ \A p \in Periods : admitted[p] <= quota[p] /\ admitted[p] <= QuotaLimit(p)

\* One INCR counts and decides, for the day or for the month.
LEMMA CountQuotaKeeps ==
    ASSUME QuotaInv, NEW period \in Periods, NEW c, NEW then, CountQuota(period, c, then)
    PROVE  QuotaInv'
<1> DEFINE current == quota[period] + 1
<1>1. /\ quota[period] \in Nat /\ admitted[period] \in Nat /\ admitted[period] <= quota[period]
      /\ QuotaLimit(period) \in Nat
  BY RateAssumption DEF QuotaInv, QuotaLimit
<1>2. CASE UNCHANGED <<quota, admitted>>
  BY <1>2 DEF QuotaInv, QuotaLimit
<1>3. CASE /\ quota' = [quota EXCEPT ![period] = current]
           /\ current > QuotaLimit(period) /\ UNCHANGED admitted
  BY <1>1, <1>3 DEF QuotaInv, QuotaLimit
<1>4. CASE /\ quota' = [quota EXCEPT ![period] = current]
           /\ current <= QuotaLimit(period) /\ admitted' = [admitted EXCEPT ![period] = @ + 1]
  BY <1>1, <1>4 DEF QuotaInv, QuotaLimit
<1>5. QED
  BY <1>1, <1>2, <1>3, <1>4 DEF CountQuota

\* The quotas hold for any number of requests that overlap, because the INCR
\* whose answer decides is the one that counts: a day and a month admit no more
\* than their limits, whenever Redis goes and comes back.
THEOREM QuotasAreKept == QuotaSpec => []QuotaKept
<1>1. RateInit => QuotaInv
  BY RateAssumption DEF RateInit, QuotaInv, QuotaLimit
<1>2. QuotaInv /\ [QuotaNext]_rateVars => QuotaInv'
  <2> SUFFICES ASSUME QuotaInv, [QuotaNext]_rateVars PROVE QuotaInv'
    OBVIOUS
  <2>1. ASSUME NEW c \in Clients, CheckDailyQuota(c) \/ CheckMonthlyQuota(c) PROVE QuotaInv'
    BY <2>1, CountQuotaKeeps DEF CheckDailyQuota, CheckMonthlyQuota, Periods
  <2>2. ASSUME NEW p \in Periods, ResetQuota(p) PROVE QuotaInv'
    BY <2>2, RateAssumption DEF ResetQuota, QuotaInv, QuotaLimit
  <2>3. ASSUME UNCHANGED <<quota, admitted>> PROVE QuotaInv'
    BY <2>3 DEF QuotaInv, QuotaLimit
  <2>4. ASSUME NEW c \in Clients, RecordViolation(c) \/ ViolationWrite(c) PROVE QuotaInv'
    BY <2>3, <2>4 DEF RecordViolation, ViolationWrite
  <2>5. CASE ClearViolations \/ RedisConnection \/ UNCHANGED rateVars
    BY <2>3, <2>5 DEF ClearViolations, RedisConnection, rateVars
  <2>6. QED
    BY <2>1, <2>2, <2>4, <2>5 DEF QuotaNext
<1>3. QuotaInv => QuotaKept
  BY DEF QuotaInv, QuotaKept
<1>4. QED
  BY <1>1, <1>2, <1>3, PTL DEF QuotaSpec

-----------------------------------------------------------------------------
(***************************************************************************)
(* The strategies that limit requests.                                     *)
(***************************************************************************)

\* The ticks after a, up to t, and the requests g allowed in them.
Span(a, t) == {u \in Ticks : u > a /\ u <= t}
Between(g, a, t) == Total(g, Span(a, t))
Silent(g, r) == \A u \in Ticks : u > r => g[u] = 0

\* No window has more than most of them.
WindowsHold(g, most) == \A a \in Int, t \in Ticks : a + Window = t => Between(g, a, t) <= most

Limited == {"sliding", "token", "leaky", "adaptive"}
Bound(s) == IF s = "sliding" THEN Limit ELSE 2 * Limit
Capacity == Limit * Window

\* The log holds the requests that were allowed in the last window.
LogGood(g, st, now) ==
    st # NoState =>
        /\ st.times \in [Ticks -> Nat]
        /\ \A u \in Ticks : u > now - Window => st.times[u] = g[u]

\* What was allowed since a is covered by the bucket that was full and by what flowed in.
TokensGood(g, st, now) ==
    st # NoState =>
        /\ st.tokens \in Nat /\ st.refilled \in Nat /\ st.refilled <= now
        /\ Silent(g, st.refilled)
        /\ \A a \in Int, t \in Ticks : a <= st.refilled /\ t >= now =>
               Window * Between(g, a, t) + st.tokens <= Capacity + (st.refilled - a) * Limit

\* What was allowed since a is in the bucket or has leaked from it.
LeakGood(g, st, now) ==
    st # NoState =>
        /\ st.size \in 0 .. Limit /\ st.leaked \in Nat /\ st.leaked <= now
        /\ Silent(g, st.leaked)
        /\ \A a \in Int, t \in Ticks : a <= st.leaked /\ t >= now =>
               Window * Between(g, a, t) <= st.size * Window + (st.leaked - a) * Limit

\* What holds of a strategy: what it allowed, what it stored, and the time.
StrategyGood(s, g, st, now) ==
    /\ g \in [Ticks -> Nat]
    /\ Silent(g, now)
    /\ st = NoState => \A u \in Ticks : g[u] = 0
    /\ s \in {"sliding", "adaptive"} => LogGood(g, st, now)
    /\ s = "token" => TokensGood(g, st, now)
    /\ s = "leaky" => LeakGood(g, st, now)
    /\ WindowsHold(g, Bound(s))

\* A request that read a strategy's state, and is the only one, still has the state that is stored.
ReadGood(c) ==
    check[c].place = "strategy" =>
        /\ check[c].strategy \in Strategies
        /\ check[c].strategy \notin excused =>
               /\ check[c].state = stored[check[c].strategy]
               /\ \A d \in Clients : check[d].place = "strategy" /\ check[d].strategy = check[c].strategy => d = c

StrategyInv ==
    /\ clock \in Ticks
    /\ DOMAIN check = Clients /\ DOMAIN stored = Strategies /\ DOMAIN granted = Strategies
    /\ \A c \in Clients : ReadGood(c)
    /\ \A s \in Limited \ excused : StrategyGood(s, granted[s], stored[s], clock)

\* Ticks are finitely many naturals.
LEMMA TicksFinite ==
  /\ IsFiniteSet(Ticks) /\ Ticks \subseteq Nat /\ 0 \in Ticks
  /\ \A a, t : IsFiniteSet(Span(a, t)) /\ Span(a, t) \in SUBSET Ticks
<1>1. 0 \in Int /\ MaxClock \in Int
  BY RateAssumption
<1>2. IsFiniteSet(Ticks)
  BY <1>1, FS_Interval DEF Ticks
<1>3. \A a, t : Span(a, t) \in SUBSET Ticks
  BY DEF Span
<1>4. \A a, t : IsFiniteSet(Span(a, t))
  BY <1>2, <1>3, FS_Subset
<1>5. Ticks \subseteq Nat /\ 0 \in Ticks
  BY RateAssumption DEF Ticks
<1>6. QED
  BY <1>2, <1>3, <1>4, <1>5

\* The requests in a window, as a sum over its ticks.
LEMMA WindowIsSpan ==
  ASSUME NEW s, NEW t
  PROVE  InWindow(s, t) = Between(granted[s], t - Window, t)
<1>1. {u \in Ticks : u <= t /\ u > t - Window} = Span(t - Window, t)
  BY DEF Span
<1>2. InWindow(s, t) = Total(granted[s], {u \in Ticks : u <= t /\ u > t - Window})
  BY DEF InWindow, Total
<1>3. QED
  BY <1>1, <1>2 DEF Between

\* The log's length is the sum of its counts.
LEMMA HowManyIsTotal ==
  ASSUME NEW times
  PROVE  HowMany(times) = Total(times, Ticks)
BY DEF HowMany, Total

\* Counts are naturals.
LEMMA BetweenType ==
  ASSUME NEW g \in [Ticks -> Nat], NEW a, NEW t
  PROVE  Between(g, a, t) \in Nat
<1>1. \A u \in Ticks : g[u] \in Nat
  OBVIOUS
<1>2. QED
  BY <1>1, TicksFinite, TotalOfSubset DEF Between

\* Where nothing was allowed the count is 0.
LEMMA SilentSpan ==
  ASSUME NEW g, NEW a \in Int, NEW t, NEW r \in Int, Silent(g, r), r <= a
  PROVE  Between(g, a, t) = 0
<1>1. \A u \in Span(a, t) : g[u] = 0
  BY TicksFinite DEF Span, Silent
<1>2. QED
  BY <1>1, TicksFinite, TotalOfZeros DEF Between

\* h allowed one request more than g, now.
OneMore(g, h, now) == /\ h \in [Ticks -> Nat] /\ h[now] = g[now] + 1
                      /\ \A u \in Ticks \ {now} : h[u] = g[u]

\* One more request counts in the spans its tick belongs to.
LEMMA GrantCounts ==
  ASSUME NEW g \in [Ticks -> Nat], NEW now \in Ticks, NEW h, OneMore(g, h, now),
         NEW a \in Int, NEW t \in Ticks
  PROVE  /\ a < now /\ now <= t => Between(h, a, t) = Between(g, a, t) + 1
         /\ ~(a < now /\ now <= t) => Between(h, a, t) = Between(g, a, t)
<1>1. now \in Nat /\ t \in Nat
  BY TicksFinite
<1> DEFINE S == Span(a, t)
<1>2. IsFiniteSet(S) /\ \A u \in S : u \in Ticks /\ u \in Nat
  BY TicksFinite
<1>3. now \in S <=> a < now /\ now <= t
  BY <1>1 DEF Span
<1> HIDE DEF S
<1>4. \A u \in S : g[u] \in Int /\ h[u] \in Int
  BY <1>2 DEF OneMore
<1>5. ASSUME now \in S
      PROVE  Total(h, S) = Total(g, S) + 1
  <2>1. \A u \in S \ {now} : g[u] = h[u]
    BY <1>2 DEF OneMore
  <2>2. h[now] = g[now] + 1
    BY DEF OneMore
  <2>3. QED
    BY ONLY <1>2, <1>4, <1>5, <2>1, <2>2, TotalOneMore
<1>6. ASSUME now \notin S
      PROVE  Total(h, S) = Total(g, S)
  <2>1. \A u \in S : h[u] = g[u]
    BY <1>2, <1>6 DEF OneMore
  <2>2. QED
    BY <1>2, <2>1, TotalSame
<1>7. QED
  BY <1>3, <1>5, <1>6 DEF Between, S

\* After it, nothing is allowed later than now.
LEMMA GrantSilent ==
  ASSUME NEW g \in [Ticks -> Nat], NEW now \in Ticks, NEW h, OneMore(g, h, now),
         Silent(g, now)
  PROVE  Silent(h, now)
BY TicksFinite DEF Silent, OneMore

\* The log a decision works with holds what was allowed in the window.
LEMMA LogOfWindow ==
  ASSUME clock \in Ticks, NEW g \in [Ticks -> Nat], NEW st, Silent(g, clock),
         st = NoState => \A u \in Ticks : g[u] = 0,
         LogGood(g, st, clock),
         NEW times, times = IF st = NoState THEN NoTimes ELSE Recent(st.times)
  PROVE  /\ times \in [Ticks -> Nat]
         /\ \A u \in Ticks : u > clock - Window => times[u] = g[u]
         /\ HowMany(times) \in Nat
         /\ \A a \in Int, t \in Ticks : a + Window = t /\ t >= clock => Between(g, a, t) <= HowMany(times)
<1>1. times \in [Ticks -> Nat] /\ \A u \in Ticks : u > clock - Window => times[u] = g[u]
  BY DEF LogGood, NoTimes, Recent
<1>2. ASSUME NEW a \in Int, NEW t \in Ticks, a + Window = t, t >= clock
      PROVE  Between(g, a, t) <= HowMany(times)
  <2> DEFINE S == Span(a, t)
  <2>1. t \in Nat /\ clock \in Nat /\ Window \in Nat
    BY TicksFinite, RateAssumption
  <2>2. \A u \in S : u \in Ticks /\ u \in Nat /\ u > clock - Window
    BY <1>2, <2>1, TicksFinite DEF Span
  <2>3. IsFiniteSet(S) /\ S \in SUBSET Ticks /\ IsFiniteSet(Ticks)
    BY TicksFinite
  <2> HIDE DEF S
  <2>4. \A u \in S : g[u] = times[u]
    BY <1>1, <2>2
  <2>5. Total(g, S) = Total(times, S)
    BY <2>3, <2>4, TotalSame
  <2>6. \A u \in Ticks : times[u] \in Nat
    BY <1>1
  <2>7. Total(times, S) <= Total(times, Ticks)
    BY <2>3, <2>6, TotalOfSubset
  <2>8. QED
    BY <2>5, <2>7, HowManyIsTotal DEF Between, S
<1>3. HowMany(times) \in Nat
  <2>1. \A u \in Ticks : times[u] \in Nat
    BY <1>1
  <2>2. QED
    BY <2>1, HowManyIsTotal, TicksFinite, TotalOfSubset
<1>4. QED
  BY <1>1, <1>2, <1>3

\* A request the log has room for leaves no window with more than there may be.
LEMMA LogGrants ==
  ASSUME clock \in Ticks, NEW g \in [Ticks -> Nat], NEW st, Silent(g, clock),
         st = NoState => \A u \in Ticks : g[u] = 0,
         LogGood(g, st, clock),
         NEW times, times = IF st = NoState THEN NoTimes ELSE Recent(st.times),
         NEW most \in Int, HowMany(times) < most,
         WindowsHold(g, most),
         NEW h, OneMore(g, h, clock)
  PROVE  /\ LogGood(h, [times |-> Stamped(times)], clock)
         /\ WindowsHold(h, most)
<1>1. /\ times \in [Ticks -> Nat]
      /\ \A u \in Ticks : u > clock - Window => times[u] = g[u]
      /\ HowMany(times) \in Nat
      /\ \A a \in Int, t \in Ticks : a + Window = t /\ t >= clock => Between(g, a, t) <= HowMany(times)
  BY LogOfWindow
<1>2. clock \in Nat /\ Window \in Nat /\ Window > 0
  BY TicksFinite, RateAssumption
<1>3. LogGood(h, [times |-> Stamped(times)], clock)
  <2> DEFINE more == Stamped(times)
  <2>1. more \in [Ticks -> Nat] /\ more[clock] = times[clock] + 1
        /\ \A u \in Ticks \ {clock} : more[u] = times[u]
    BY <1>1 DEF Stamped
  <2>2. h[clock] = g[clock] + 1 /\ \A u \in Ticks \ {clock} : h[u] = g[u]
    BY DEF OneMore
  <2>3. \A u \in Ticks : u > clock - Window => more[u] = h[u]
    BY <1>1, <1>2, <2>1, <2>2
  <2> HIDE DEF more
  <2>4. [times |-> more].times = more
    OBVIOUS
  <2>5. QED
    BY <2>1, <2>3, <2>4 DEF LogGood, more
<1>4. ASSUME NEW a \in Int, NEW t \in Ticks, a + Window = t
      PROVE  Between(h, a, t) <= most
  <2>1. /\ a < clock /\ clock <= t => Between(h, a, t) = Between(g, a, t) + 1
        /\ ~(a < clock /\ clock <= t) => Between(h, a, t) = Between(g, a, t)
    BY GrantCounts
  <2>2. Between(g, a, t) \in Nat /\ Between(g, a, t) <= most
    BY <1>4, BetweenType DEF WindowsHold
  <2>3. t >= clock => Between(g, a, t) <= HowMany(times)
    BY <1>1, <1>4
  <2>4. CASE a < clock /\ clock <= t
    <3>1. t >= clock
      BY <1>2, <2>4, TicksFinite
    <3>2. /\ Between(g, a, t) <= HowMany(times) /\ Between(g, a, t) \in Nat
          /\ HowMany(times) \in Nat /\ HowMany(times) < most /\ most \in Int
          /\ Between(h, a, t) = Between(g, a, t) + 1
      BY <1>1, <2>1, <2>2, <2>3, <2>4, <3>1
    <3>3. QED
      BY ONLY <3>2
  <2>5. CASE ~(a < clock /\ clock <= t)
    BY <2>1, <2>2, <2>5
  <2>6. QED
    BY <2>4, <2>5
<1>5. QED
  BY <1>3, <1>4 DEF WindowsHold

\* A request there is no room for leaves the log as it is.
LEMMA LogStays ==
  ASSUME clock \in Ticks, NEW g \in [Ticks -> Nat], NEW st, Silent(g, clock),
         st = NoState => \A u \in Ticks : g[u] = 0,
         LogGood(g, st, clock),
         NEW times, times = IF st = NoState THEN NoTimes ELSE Recent(st.times)
  PROVE  LogGood(g, [times |-> times], clock)
<1>1. times \in [Ticks -> Nat] /\ \A u \in Ticks : u > clock - Window => times[u] = g[u]
  BY LogOfWindow
<1>2. [times |-> times].times = times
  OBVIOUS
<1>3. QED
  BY <1>1, <1>2 DEF LogGood

\* A factor that is not 0 may be left out.
LEMMA Cancelled ==
  ASSUME NEW w \in Nat, w > 0, NEW x \in Int, NEW y \in Int, w * x <= w * y
  PROVE  x <= y
<1>1. SUFFICES ASSUME y + 1 <= x PROVE FALSE
  OBVIOUS
<1>2. w * (y + 1) <= w * x
  BY <1>1
<1>3. w * (y + 1) = w * y + w
  OBVIOUS
<1>4. w * x \in Int /\ w * y \in Int
  OBVIOUS
<1>5. QED
  BY <1>2, <1>3, <1>4

\* If what was allowed since any a is at most what a bucket holds and what flows since then, no
\* window has more than twice the limit.
LEMMA FlowIsBounded ==
  ASSUME clock \in Ticks, NEW h \in [Ticks -> Nat], Silent(h, clock),
         \A a \in Int, t \in Ticks : a <= clock /\ t >= clock =>
             Window * Between(h, a, t) <= Capacity + (clock - a) * Limit,
         NEW a \in Int, NEW t \in Ticks, a + Window = t, t >= clock
  PROVE  Between(h, a, t) <= 2 * Limit
<1>1. /\ clock \in Nat /\ t \in Nat /\ Window \in Nat /\ Window > 0 /\ Limit \in Nat
      /\ Between(h, a, t) \in Nat
  BY TicksFinite, RateAssumption, BetweenType
<1>2. CASE a <= clock
  <2>1. Window * Between(h, a, t) <= Capacity + (clock - a) * Limit
    BY <1>2
  <2>2. clock - a \in Int /\ clock - a <= Window
    BY <1>1
  <2>3. (clock - a) * Limit <= Window * Limit
    BY <1>1, <2>2
  <2>4. Capacity = Window * Limit /\ Window * (2 * Limit) = Window * Limit + Window * Limit
    BY <1>1 DEF Capacity
  <2>5. Window * Limit \in Int /\ (clock - a) * Limit \in Int /\ Window * Between(h, a, t) \in Int
    BY <1>1, <2>2
  <2>6. Window * Between(h, a, t) <= Window * (2 * Limit)
    BY <2>1, <2>3, <2>4, <2>5
  <2>7. 2 * Limit \in Int /\ Between(h, a, t) \in Int
    BY <1>1
  <2>8. QED
    BY <1>1, <2>6, <2>7, Cancelled
<1>3. CASE a > clock
  <2>1. Between(h, a, t) = 0
    BY <1>1, <1>3, SilentSpan
  <2>2. QED
    BY <1>1, <2>1
<1>4. QED
  BY <1>1, <1>2, <1>3

\* Min and Max of two numbers.
LEMMA MinMaxOfTwo ==
  ASSUME NEW x \in Int, NEW y \in Int
  PROVE  /\ Min({x, y}) \in {x, y} /\ Min({x, y}) <= x /\ Min({x, y}) <= y
         /\ Max({x, y}) \in {x, y} /\ Max({x, y}) >= x /\ Max({x, y}) >= y
<1>1. \E m \in {x, y} : \A z \in {x, y} : m <= z
  <2>1. CASE x <= y
    BY <2>1
  <2>2. CASE ~(x <= y)
    BY <2>2
  <2>3. QED
    BY <2>1, <2>2
<1>2. \E m \in {x, y} : \A z \in {x, y} : m >= z
  <2>1. CASE x <= y
    BY <2>1
  <2>2. CASE ~(x <= y)
    BY <2>2
  <2>3. QED
    BY <2>1, <2>2
<1>3. Min({x, y}) \in {x, y} /\ \A z \in {x, y} : Min({x, y}) <= z
  BY <1>1 DEF Min
<1>4. Max({x, y}) \in {x, y} /\ \A z \in {x, y} : Max({x, y}) >= z
  BY <1>2 DEF Max
<1>5. QED
  BY <1>3, <1>4

\* What the tokens of a decision, before it takes one, leave for the requests since a.
LEMMA TokensFlow ==
  ASSUME clock \in Ticks, NEW g \in [Ticks -> Nat], NEW st, Silent(g, clock),
         st = NoState => \A u \in Ticks : g[u] = 0,
         TokensGood(g, st, clock),
         NEW tokens, st = NoState => tokens = Capacity,
         st # NoState => tokens = Min({Capacity, st.tokens + (clock - st.refilled) * Limit})
  PROVE  /\ tokens \in Nat /\ tokens <= Capacity
         /\ \A a \in Int, t \in Ticks : a <= clock /\ t >= clock =>
                Window * Between(g, a, t) + tokens <= Capacity + (clock - a) * Limit
<1>1. clock \in Nat /\ Window \in Nat /\ Limit \in Nat /\ Capacity \in Nat
  BY TicksFinite, RateAssumption DEF Capacity
<1>2. \A a \in Int : a <= clock => (clock - a) * Limit \in Nat
  BY <1>1
<1>3. ASSUME tokens \in Nat, tokens <= Capacity, NEW a \in Int, NEW t \in Ticks, a <= clock,
             Between(g, a, t) = 0
      PROVE  Window * Between(g, a, t) + tokens <= Capacity + (clock - a) * Limit
  <2>1. Window * Between(g, a, t) = 0
    BY <1>1, <1>3
  <2>2. (clock - a) * Limit \in Nat
    BY <1>2, <1>3
  <2>3. QED
    BY ONLY <1>1, <1>3, <2>1, <2>2
<1>4. CASE st = NoState
  <2>1. \A a \in Int, t \in Ticks : Between(g, a, t) = 0
    <3>1. ASSUME NEW a \in Int, NEW t \in Ticks PROVE Between(g, a, t) = 0
      <4>1. \A u \in Span(a, t) : g[u] = 0
        BY <1>4, TicksFinite
      <4>2. QED
        BY <4>1, TicksFinite, TotalOfZeros DEF Between
    <3>2. QED
      BY <3>1
  <2>2. tokens \in Nat /\ tokens <= Capacity
    BY <1>1, <1>4
  <2>3. QED
    BY <1>3, <2>1, <2>2
<1>5. CASE st # NoState
  <2> DEFINE k == st.tokens
             r == st.refilled
             flow == (clock - r) * Limit
  <2>1. /\ k \in Nat /\ r \in Nat /\ r <= clock /\ Silent(g, r)
        /\ \A a \in Int, t \in Ticks : a <= r /\ t >= clock =>
               Window * Between(g, a, t) + k <= Capacity + (r - a) * Limit
    BY <1>5 DEF TokensGood
  <2>2. flow \in Nat
    <3> DEFINE past == clock - r
    <3>1. past \in Nat
      BY <1>1, <2>1
    <3> HIDE DEF past
    <3>2. past * Limit \in Nat
      BY ONLY <1>1, <3>1
    <3>3. QED
      BY <3>2 DEF past
  <2>3. tokens = Min({Capacity, k + flow})
    BY <1>5
  <2>4. tokens \in {Capacity, k + flow} /\ tokens <= Capacity /\ tokens <= k + flow
    <3> DEFINE sum == k + flow
    <3>1. tokens = Min({Capacity, sum})
      BY <2>3
    <3>2. sum \in Int /\ Capacity \in Int
      <4> HIDE DEF k, flow
      <4>1. QED
        BY ONLY <1>1, <2>1, <2>2 DEF sum
    <3> HIDE DEF sum
    <3>3. tokens \in {Capacity, sum} /\ tokens <= Capacity /\ tokens <= sum
      BY ONLY <3>1, <3>2, MinMaxOfTwo
    <3>4. QED
      BY <3>3 DEF sum
  <2>5. tokens \in Nat
    BY <1>1, <2>1, <2>2, <2>4
  <2>6. ASSUME NEW a \in Int, NEW t \in Ticks, a <= clock, t >= clock
        PROVE  Window * Between(g, a, t) + tokens <= Capacity + (clock - a) * Limit
    <3>1. CASE a <= r
      <4>1. Window * Between(g, a, t) + k <= Capacity + (r - a) * Limit
        BY <2>1, <2>6, <3>1
      <4>2. (r - a) * Limit + flow = (clock - a) * Limit
        BY <1>1, <2>1
      <4>3. /\ Window * Between(g, a, t) \in Int /\ (r - a) * Limit \in Int
            /\ (clock - a) * Limit \in Int
        BY <1>1, <2>1, BetweenType
      <4> HIDE DEF k, r, flow
      <4>4. QED
        BY ONLY <1>1, <2>1, <2>2, <2>4, <2>5, <4>1, <4>2, <4>3
    <3>2. CASE a > r
      <4>1. Between(g, a, t) = 0
        BY <2>1, <3>2, SilentSpan
      <4>2. QED
        BY <1>3, <2>4, <2>5, <2>6, <4>1
    <3>3. QED
      BY <2>1, <3>1, <3>2
  <2>7. QED
    BY <2>4, <2>5, <2>6
<1>6. QED
  BY <1>4, <1>5

\* A whole part, in a product.
LEMMA WholePart ==
  ASSUME NEW x \in Nat, NEW w \in Nat, w > 0
  PROVE  x \div w \in Nat /\ (x \div w) * w <= x
OBVIOUS

\* A bucket from which less has leaked than flowed keeps what it holds covered.
LEMMA LeakArithmetic ==
  ASSUME NEW w \in Nat, NEW size \in Nat, NEW leaked \in Nat, NEW flow \in Nat, leaked * w <= flow,
         NEW left \in Nat, left >= size - leaked
  PROVE  size * w <= left * w + flow
<1>1. left + leaked \in Nat /\ size <= left + leaked
  OBVIOUS
<1>2. size * w <= (left + leaked) * w
  BY <1>1
<1>3. (left + leaked) * w = left * w + leaked * w
  OBVIOUS
<1>4. size * w \in Int /\ left * w \in Int /\ leaked * w \in Int
  OBVIOUS
<1>5. QED
  BY <1>2, <1>3, <1>4

\* What the bucket of a decision holds, before a request is added, for the requests since a.
LEMMA LeakFlows ==
  ASSUME clock \in Ticks, NEW g \in [Ticks -> Nat], NEW st, Silent(g, clock),
         st = NoState => \A u \in Ticks : g[u] = 0,
         LeakGood(g, st, clock),
         NEW size, st = NoState => size = 0,
         st # NoState => size = Max({0, st.size - ((clock - st.leaked) * Limit) \div Window})
  PROVE  /\ size \in Nat /\ size <= Limit
         /\ \A a \in Int, t \in Ticks : a <= clock /\ t >= clock =>
                Window * Between(g, a, t) <= size * Window + (clock - a) * Limit
<1>1. clock \in Nat /\ Window \in Nat /\ Window > 0 /\ Limit \in Nat
  BY TicksFinite, RateAssumption
<1>2. ASSUME size \in Nat, NEW a \in Int, NEW t \in Ticks, a <= clock,
             Between(g, a, t) = 0
      PROVE  Window * Between(g, a, t) <= size * Window + (clock - a) * Limit
  <2>1. Window * Between(g, a, t) = 0
    BY <1>1, <1>2
  <2>2. (clock - a) * Limit \in Nat /\ size * Window \in Nat
    BY <1>1, <1>2
  <2>3. QED
    BY ONLY <2>1, <2>2
<1>3. CASE st = NoState
  <2>1. \A a \in Int, t \in Ticks : Between(g, a, t) = 0
    <3>1. ASSUME NEW a \in Int, NEW t \in Ticks PROVE Between(g, a, t) = 0
      <4>1. \A u \in Span(a, t) : g[u] = 0
        BY <1>3, TicksFinite
      <4>2. QED
        BY <4>1, TicksFinite, TotalOfZeros DEF Between
    <3>2. QED
      BY <3>1
  <2>2. size \in Nat /\ size <= Limit
    BY <1>1, <1>3
  <2>3. QED
    BY <1>2, <2>1, <2>2
<1>4. CASE st # NoState
  <2> DEFINE k == st.size
             l == st.leaked
             flow == (clock - l) * Limit
             leaked == flow \div Window
  <2>1. /\ k \in Nat /\ k <= Limit /\ l \in Nat /\ l <= clock /\ Silent(g, l)
        /\ \A a \in Int, t \in Ticks : a <= l /\ t >= clock =>
               Window * Between(g, a, t) <= k * Window + (l - a) * Limit
    BY <1>1, <1>4 DEF LeakGood
  <2>2. flow \in Nat
    <3> DEFINE past == clock - l
    <3>1. past \in Nat
      BY <1>1, <2>1
    <3> HIDE DEF past
    <3>2. past * Limit \in Nat
      BY ONLY <1>1, <3>1
    <3>3. QED
      BY <3>2 DEF past
  <2>3. leaked \in Nat /\ leaked * Window <= flow
    <3> HIDE DEF flow
    <3>1. QED
      BY <1>1, <2>2, WholePart
  <2>4. size \in {0, k - leaked} /\ size >= 0 /\ size >= k - leaked
    <3> DEFINE rest == k - leaked
    <3>1. size = Max({0, rest})
      BY <1>4
    <3>2. rest \in Int /\ 0 \in Int
      <4> HIDE DEF k, leaked
      <4>1. QED
        BY ONLY <2>1, <2>3 DEF rest
    <3> HIDE DEF rest
    <3>3. size \in {0, rest} /\ size >= 0 /\ size >= rest
      BY ONLY <3>1, <3>2, MinMaxOfTwo
    <3>4. QED
      BY <3>3 DEF rest
  <2>5. size \in Nat /\ size <= Limit
    <3> HIDE DEF k, leaked
    <3>1. QED
      BY ONLY <1>1, <2>1, <2>3, <2>4
  <2>6. k * Window <= size * Window + flow
    <3> HIDE DEF k, leaked, flow
    <3>1. QED
      BY ONLY <1>1, <2>1, <2>2, <2>3, <2>4, <2>5, LeakArithmetic
  <2>7. ASSUME NEW a \in Int, NEW t \in Ticks, a <= clock, t >= clock
        PROVE  Window * Between(g, a, t) <= size * Window + (clock - a) * Limit
    <3>1. CASE a <= l
      <4>1. Window * Between(g, a, t) <= k * Window + (l - a) * Limit
        BY <2>1, <2>7, <3>1
      <4>2. (l - a) * Limit + flow = (clock - a) * Limit
        BY <1>1, <2>1
      <4>3. /\ Window * Between(g, a, t) \in Int /\ (l - a) * Limit \in Int
            /\ (clock - a) * Limit \in Int /\ k * Window \in Int /\ size * Window \in Int
        BY <1>1, <2>1, <2>5, BetweenType
      <4> HIDE DEF k, l, flow
      <4>4. QED
        BY ONLY <2>2, <2>6, <4>1, <4>2, <4>3
    <3>2. CASE a > l
      <4>1. Between(g, a, t) = 0
        BY <2>1, <3>2, SilentSpan
      <4>2. QED
        BY <1>2, <2>5, <2>7, <4>1
    <3>3. QED
      BY <2>1, <3>1, <3>2
  <2>8. QED
    BY <2>5, <2>7
<1>5. QED
  BY <1>3, <1>4

\* One more request, now, weighs a window in all that was allowed since an earlier tick.
LEMMA GrantWeighs ==
  ASSUME clock \in Ticks, NEW g \in [Ticks -> Nat], Silent(g, clock),
         NEW h, OneMore(g, h, clock),
         NEW a \in Int, NEW t \in Ticks, a <= clock, t >= clock
  PROVE  /\ Window * Between(g, a, t) \in Nat
         /\ a < clock => Window * Between(h, a, t) = Window * Between(g, a, t) + Window
         /\ a = clock => Window * Between(h, a, t) = 0
<1>1. clock \in Nat /\ t \in Nat /\ Window \in Nat
  BY TicksFinite, RateAssumption
<1>2. Between(g, a, t) \in Nat
  BY BetweenType
<1>3. ASSUME a < clock
      PROVE  Between(h, a, t) = Between(g, a, t) + 1
  BY <1>1, <1>3, GrantCounts
<1>4. ASSUME a = clock
      PROVE  Between(h, a, t) = 0
  <2>1. Silent(h, clock)
    BY GrantSilent
  <2>2. clock \in Int /\ clock <= a
    BY <1>1, <1>4
  <2>3. QED
    BY <2>1, <2>2, SilentSpan
<1>5. ASSUME a < clock
      PROVE  Window * Between(h, a, t) = Window * Between(g, a, t) + Window
  <2> DEFINE b == Between(g, a, t)
  <2>1. Between(h, a, t) = b + 1 /\ b \in Nat
    BY <1>2, <1>3, <1>5
  <2> HIDE DEF b
  <2>2. Window * (b + 1) = Window * b + Window
    BY ONLY <1>1, <2>1
  <2>3. QED
    BY <2>1, <2>2 DEF b
<1>6. Window * Between(g, a, t) \in Nat
  BY ONLY <1>1, <1>2
<1>7. ASSUME a = clock
      PROVE  Window * Between(h, a, t) = 0
  BY ONLY <1>1, <1>4, <1>7
<1>8. QED
  BY <1>5, <1>6, <1>7

\* If what was allowed up to now is covered, no window has too many, whichever it is.
LEMMA FlowKeepsWindows ==
  ASSUME clock \in Ticks, NEW g \in [Ticks -> Nat], Silent(g, clock),
         WindowsHold(g, 2 * Limit), NEW h, OneMore(g, h, clock),
         \A a \in Int, t \in Ticks : a <= clock /\ t >= clock =>
             Window * Between(h, a, t) <= Capacity + (clock - a) * Limit
  PROVE  WindowsHold(h, 2 * Limit)
<1>1. ASSUME NEW a \in Int, NEW t \in Ticks, a + Window = t
      PROVE  Between(h, a, t) <= 2 * Limit
  <2>1. clock \in Nat /\ t \in Nat
    BY TicksFinite
  <2>2. CASE t >= clock
    <3>1. h \in [Ticks -> Nat] /\ Silent(h, clock)
      BY GrantSilent DEF OneMore
    <3>2. QED
      BY <1>1, <2>2, <3>1, FlowIsBounded
  <2>3. CASE ~(t >= clock)
    <3>1. ~(a < clock /\ clock <= t)
      BY <2>1, <2>3
    <3>2. Between(h, a, t) = Between(g, a, t)
      BY <3>1, GrantCounts
    <3>3. Between(g, a, t) <= 2 * Limit
      BY <1>1 DEF WindowsHold
    <3>4. QED
      BY <3>2, <3>3
  <2>4. QED
    BY <2>2, <2>3
<1>2. QED
  BY <1>1 DEF WindowsHold

\* A request there is a token for.
LEMMA TokenGrants ==
  ASSUME clock \in Ticks, NEW g \in [Ticks -> Nat], NEW st, Silent(g, clock),
         st = NoState => \A u \in Ticks : g[u] = 0,
         TokensGood(g, st, clock), WindowsHold(g, 2 * Limit),
         NEW tokens, st = NoState => tokens = Capacity,
         st # NoState => tokens = Min({Capacity, st.tokens + (clock - st.refilled) * Limit}),
         tokens >= Window, NEW left, left = tokens - Window,
         NEW h, OneMore(g, h, clock)
  PROVE  /\ TokensGood(h, [tokens |-> left, refilled |-> clock], clock)
         /\ WindowsHold(h, 2 * Limit)
<1>1. /\ clock \in Nat /\ Window \in Nat /\ Limit \in Nat /\ Capacity \in Nat
      /\ Silent(h, clock)
  BY TicksFinite, RateAssumption, GrantSilent DEF Capacity
<1>2. /\ tokens \in Nat /\ tokens <= Capacity
      /\ \A a \in Int, t \in Ticks : a <= clock /\ t >= clock =>
             Window * Between(g, a, t) + tokens <= Capacity + (clock - a) * Limit
  BY TokensFlow
<1>3. left \in Nat /\ left <= Capacity /\ left + Window = tokens
  BY <1>1, <1>2
<1>4. ASSUME NEW a \in Int, NEW t \in Ticks, a <= clock, t >= clock
      PROVE  /\ Window * Between(h, a, t) + left <= Capacity + (clock - a) * Limit
             /\ Window * Between(h, a, t) <= Capacity + (clock - a) * Limit
  <2> DEFINE b == Window * Between(g, a, t)
             c == Window * Between(h, a, t)
             flow == (clock - a) * Limit
  <2>1. b \in Nat /\ (a < clock => c = b + Window) /\ (a = clock => c = 0)
    BY <1>4, GrantWeighs
  <2>2. b + tokens <= Capacity + flow
    BY <1>2, <1>4
  <2>3. flow \in Nat
    <3> DEFINE past == clock - a
    <3>1. past \in Nat
      BY <1>1, <1>4
    <3> HIDE DEF past
    <3>2. past * Limit \in Nat
      BY ONLY <1>1, <3>1
    <3>3. QED
      BY <3>2 DEF past
  <2> HIDE DEF b, c, flow
  <2>4. c + left <= Capacity + flow /\ c <= Capacity + flow
    BY ONLY <1>1, <1>2, <1>3, <1>4, <2>1, <2>2, <2>3
  <2>5. QED
    BY <2>4 DEF b, c, flow
<1>5. TokensGood(h, [tokens |-> left, refilled |-> clock], clock)
  <2> DEFINE new == [tokens |-> left, refilled |-> clock]
  <2>1. new.tokens = left /\ new.refilled = clock
    OBVIOUS
  <2> HIDE DEF new
  <2>2. QED
    BY <1>1, <1>3, <1>4, <2>1 DEF TokensGood, new
<1>6. WindowsHold(h, 2 * Limit)
  BY <1>4, FlowKeepsWindows
<1>7. QED
  BY <1>5, <1>6

\* A request there is no token for.
LEMMA TokenDenies ==
  ASSUME clock \in Ticks, NEW g \in [Ticks -> Nat], NEW st, Silent(g, clock),
         st = NoState => \A u \in Ticks : g[u] = 0,
         TokensGood(g, st, clock),
         NEW tokens, st = NoState => tokens = Capacity,
         st # NoState => tokens = Min({Capacity, st.tokens + (clock - st.refilled) * Limit})
  PROVE  TokensGood(g, [tokens |-> tokens, refilled |-> clock], clock)
<1>1. /\ tokens \in Nat
      /\ \A a \in Int, t \in Ticks : a <= clock /\ t >= clock =>
             Window * Between(g, a, t) + tokens <= Capacity + (clock - a) * Limit
  BY TokensFlow
<1>2. clock \in Nat /\ clock <= clock
  BY TicksFinite
<1> DEFINE new == [tokens |-> tokens, refilled |-> clock]
<1>3. new.tokens = tokens /\ new.refilled = clock
  OBVIOUS
<1> HIDE DEF new
<1>4. TokensGood(g, new, clock)
  BY <1>1, <1>2, <1>3 DEF TokensGood
<1>5. QED
  BY <1>4 DEF new

\* A request the bucket has room for.
LEMMA LeakGrants ==
  ASSUME clock \in Ticks, NEW g \in [Ticks -> Nat], NEW st, Silent(g, clock),
         st = NoState => \A u \in Ticks : g[u] = 0,
         LeakGood(g, st, clock), WindowsHold(g, 2 * Limit),
         NEW size, st = NoState => size = 0,
         st # NoState => size = Max({0, st.size - ((clock - st.leaked) * Limit) \div Window}),
         size < Limit, NEW more, more = size + 1,
         NEW h, OneMore(g, h, clock)
  PROVE  /\ LeakGood(h, [size |-> more, leaked |-> clock], clock)
         /\ WindowsHold(h, 2 * Limit)
<1>1. /\ clock \in Nat /\ Window \in Nat /\ Limit \in Nat /\ Capacity \in Nat
      /\ Silent(h, clock)
  BY TicksFinite, RateAssumption, GrantSilent DEF Capacity
<1>2. /\ size \in Nat
      /\ \A a \in Int, t \in Ticks : a <= clock /\ t >= clock =>
             Window * Between(g, a, t) <= size * Window + (clock - a) * Limit
  BY LeakFlows
<1>3. more \in 0 .. Limit
  BY <1>1, <1>2
<1>4. /\ size * Window \in Nat /\ more * Window = size * Window + Window
      /\ more * Window <= Capacity
  <2>1. size \in Nat /\ more = size + 1 /\ more \in Nat /\ more <= Limit
    BY <1>1, <1>2, <1>3
  <2>2. size * Window \in Nat /\ (size + 1) * Window = size * Window + Window
    BY ONLY <1>1, <2>1
  <2>3. more * Window <= Limit * Window
    BY ONLY <1>1, <2>1
  <2>4. QED
    BY <2>1, <2>2, <2>3 DEF Capacity
<1>5. ASSUME NEW a \in Int, NEW t \in Ticks, a <= clock, t >= clock
      PROVE  /\ Window * Between(h, a, t) <= more * Window + (clock - a) * Limit
             /\ Window * Between(h, a, t) <= Capacity + (clock - a) * Limit
  <2> DEFINE b == Window * Between(g, a, t)
             c == Window * Between(h, a, t)
             flow == (clock - a) * Limit
             held == size * Window
             holds == more * Window
  <2>1. b \in Nat /\ (a < clock => c = b + Window) /\ (a = clock => c = 0)
    BY <1>5, GrantWeighs
  <2>2. b <= held + flow
    BY <1>2, <1>5
  <2>3. flow \in Nat
    <3> DEFINE past == clock - a
    <3>1. past \in Nat
      BY <1>1, <1>5
    <3> HIDE DEF past
    <3>2. past * Limit \in Nat
      BY ONLY <1>1, <3>1
    <3>3. QED
      BY <3>2 DEF past
  <2>4. held \in Nat /\ holds = held + Window /\ holds <= Capacity
    BY <1>4
  <2> HIDE DEF b, c, flow, held, holds
  <2>5. c <= holds + flow /\ c <= Capacity + flow
    BY ONLY <1>1, <1>5, <2>1, <2>2, <2>3, <2>4
  <2>6. QED
    BY <2>5 DEF b, c, flow, holds
<1>6. LeakGood(h, [size |-> more, leaked |-> clock], clock)
  <2> DEFINE new == [size |-> more, leaked |-> clock]
  <2>1. new.size = more /\ new.leaked = clock
    OBVIOUS
  <2> HIDE DEF new
  <2>2. QED
    BY <1>1, <1>3, <1>5, <2>1 DEF LeakGood, new
<1>7. WindowsHold(h, 2 * Limit)
  BY <1>5, FlowKeepsWindows
<1>8. QED
  BY <1>6, <1>7

\* A request the bucket has no room for.
LEMMA LeakDenies ==
  ASSUME clock \in Ticks, NEW g \in [Ticks -> Nat], NEW st, Silent(g, clock),
         st = NoState => \A u \in Ticks : g[u] = 0,
         LeakGood(g, st, clock),
         NEW size, st = NoState => size = 0,
         st # NoState => size = Max({0, st.size - ((clock - st.leaked) * Limit) \div Window})
  PROVE  LeakGood(g, [size |-> size, leaked |-> clock], clock)
<1>1. /\ size \in Nat /\ size <= Limit
      /\ \A a \in Int, t \in Ticks : a <= clock /\ t >= clock =>
             Window * Between(g, a, t) <= size * Window + (clock - a) * Limit
  BY LeakFlows
<1>2. clock \in Nat /\ clock <= clock /\ size \in 0 .. Limit
  BY <1>1, TicksFinite, RateAssumption
<1> DEFINE new == [size |-> size, leaked |-> clock]
<1>3. new.size = size /\ new.leaked = clock
  OBVIOUS
<1> HIDE DEF new
<1>4. LeakGood(g, new, clock)
  BY <1>1, <1>2, <1>3 DEF LeakGood
<1>5. QED
  BY <1>4 DEF new

\* A stored state is not the one that says nothing is stored.
LEMMA StatesDiffer ==
  \A x, y : /\ [times |-> x] # NoState
            /\ [tokens |-> x, refilled |-> y] # NoState
            /\ [size |-> x, leaked |-> y] # NoState
<1>1. DOMAIN NoState = {"none"}
  BY DEF NoState
<1>2. \A x, y : /\ "times" \in DOMAIN [times |-> x]
                /\ "tokens" \in DOMAIN [tokens |-> x, refilled |-> y]
                /\ "size" \in DOMAIN [size |-> x, leaked |-> y]
  OBVIOUS
<1>3. "times" \notin {"none"} /\ "tokens" \notin {"none"} /\ "size" \notin {"none"}
  OBVIOUS
<1>4. QED
  BY <1>1, <1>2, <1>3

\* Whatever the score, the adaptive limit is at most twice the base limit.
LEMMA AdaptiveLimitBounded == AdaptiveLimit \in Int /\ AdaptiveLimit <= 2 * Limit
<1> DEFINE multiplier == UserMultiplier(UserScore)
           scaled == (Limit * 106 * multiplier) \div 1000
           least == (Limit * 3) \div 10
           most == Limit * 2
           capped == Min({most, scaled})
<1>1. Limit \in Nat
  BY RateAssumption
<1>2. multiplier \in {15, 12, 10, 7, 3}
  BY DEF UserMultiplier
<1>3. scaled \in Int
  <2>1. multiplier \in Nat
    BY <1>2
  <2> HIDE DEF multiplier
  <2>2. Limit * 106 * multiplier \in Int
    BY <1>1, <2>1
  <2>3. QED
    BY <2>2
<1>4. least \in Int /\ least <= most /\ most \in Int
  BY <1>1
<1> HIDE DEF scaled, least, most
<1>5. capped \in Int /\ capped <= most
  BY <1>3, <1>4, MinMaxOfTwo
<1>6. AdaptiveLimit = Max({least, capped})
  BY DEF AdaptiveLimit, least, most, scaled
<1> HIDE DEF capped
<1>7. AdaptiveLimit \in {least, capped}
  BY <1>4, <1>5, <1>6, MinMaxOfTwo
<1>8. QED
  BY <1>1, <1>4, <1>5, <1>7 DEF most

\* What a decision makes of a strategy's state, for a request it allows (h) and one it does not.
DecisionGood(s, g, d) ==
    /\ d.allowed => \A h : OneMore(g, h, clock) => StrategyGood(s, h, d.state, clock)
    /\ ~d.allowed => StrategyGood(s, g, d.state, clock)

\* The sliding window decides well.
LEMMA SlidingDecides ==
  ASSUME clock \in Ticks, NEW g, NEW st, StrategyGood("sliding", g, st, clock)
  PROVE  DecisionGood("sliding", g, SlidingWindow(st))
<1> DEFINE times == IF st = NoState THEN NoTimes ELSE Recent(st.times)
           d == SlidingWindow(st)
<1>1. /\ g \in [Ticks -> Nat] /\ Silent(g, clock) /\ LogGood(g, st, clock)
      /\ st = NoState => \A u \in Ticks : g[u] = 0
      /\ WindowsHold(g, Limit)
  BY DEF StrategyGood, Bound
<1>2. /\ d.allowed <=> HowMany(times) < Limit
      /\ d.allowed => d.state = [times |-> Stamped(times)]
      /\ ~d.allowed => d.state = [times |-> times]
  BY DEF SlidingWindow, Decision
<1>3. times = IF st = NoState THEN NoTimes ELSE Recent(st.times)
  OBVIOUS
<1>4. Limit \in Int
  BY RateAssumption
<1> HIDE DEF d, times
<1>5. ASSUME d.allowed, NEW h, OneMore(g, h, clock)
      PROVE  StrategyGood("sliding", h, d.state, clock)
  <2>1. LogGood(h, d.state, clock) /\ WindowsHold(h, Limit)
    BY <1>1, <1>2, <1>3, <1>4, <1>5, LogGrants
  <2>2. d.state # NoState
    BY <1>2, <1>5, StatesDiffer
  <2>3. h \in [Ticks -> Nat] /\ Silent(h, clock)
    BY <1>1, <1>5, GrantSilent DEF OneMore
  <2>4. QED
    BY <2>1, <2>2, <2>3 DEF StrategyGood, Bound
<1>6. ASSUME ~d.allowed
      PROVE  StrategyGood("sliding", g, d.state, clock)
  <2>1. LogGood(g, d.state, clock)
    BY <1>1, <1>2, <1>3, <1>6, LogStays
  <2>2. d.state # NoState
    BY <1>2, <1>6, StatesDiffer
  <2>3. QED
    BY <1>1, <2>1, <2>2 DEF StrategyGood, Bound
<1>7. QED
  BY <1>5, <1>6 DEF DecisionGood, d

\* So does the adaptive strategy, which leaves the log alone when it refuses.
LEMMA AdaptiveDecides ==
  ASSUME clock \in Ticks, NEW g, NEW st, StrategyGood("adaptive", g, st, clock)
  PROVE  DecisionGood("adaptive", g, Adaptive(st))
<1> DEFINE times == IF st = NoState THEN NoTimes ELSE Recent(st.times)
           d == Adaptive(st)
           most == 2 * Limit
<1>1. /\ g \in [Ticks -> Nat] /\ Silent(g, clock) /\ LogGood(g, st, clock)
      /\ st = NoState => \A u \in Ticks : g[u] = 0
      /\ WindowsHold(g, most)
  BY DEF StrategyGood, Bound
<1>2. /\ d.allowed <=> HowMany(times) < AdaptiveLimit
      /\ d.allowed => d.state = [times |-> Stamped(times)]
      /\ ~d.allowed => d.state = st
  BY DEF Adaptive, Decision
<1>3. times = IF st = NoState THEN NoTimes ELSE Recent(st.times)
  OBVIOUS
<1>4. most \in Int /\ AdaptiveLimit \in Int /\ AdaptiveLimit <= most
  BY RateAssumption, AdaptiveLimitBounded
<1> HIDE DEF d, times, most
<1>5. ASSUME d.allowed, NEW h, OneMore(g, h, clock)
      PROVE  StrategyGood("adaptive", h, d.state, clock)
  <2>1. HowMany(times) \in Nat
    BY <1>1, <1>3, LogOfWindow
  <2>2. HowMany(times) < most
    BY <1>2, <1>4, <1>5, <2>1
  <2>3. LogGood(h, d.state, clock) /\ WindowsHold(h, most)
    BY <1>1, <1>2, <1>3, <1>4, <1>5, <2>2, LogGrants
  <2>4. d.state # NoState
    BY <1>2, <1>5, StatesDiffer
  <2>5. h \in [Ticks -> Nat] /\ Silent(h, clock)
    BY <1>1, <1>5, GrantSilent DEF OneMore
  <2>6. QED
    BY <2>3, <2>4, <2>5 DEF StrategyGood, Bound, most
<1>6. ASSUME ~d.allowed
      PROVE  StrategyGood("adaptive", g, d.state, clock)
  BY <1>2, <1>6
<1>7. QED
  BY <1>5, <1>6 DEF DecisionGood, d

\* So does the token bucket.
LEMMA TokensDecide ==
  ASSUME clock \in Ticks, NEW g, NEW st, StrategyGood("token", g, st, clock)
  PROVE  DecisionGood("token", g, TokenBucket(st))
<1> DEFINE tokens == IF st = NoState THEN Capacity
                     ELSE Min({Capacity, st.tokens + (clock - st.refilled) * Limit})
           left == tokens - Window
           d == TokenBucket(st)
<1>1. /\ g \in [Ticks -> Nat] /\ Silent(g, clock) /\ TokensGood(g, st, clock)
      /\ st = NoState => \A u \in Ticks : g[u] = 0
      /\ WindowsHold(g, 2 * Limit)
  BY DEF StrategyGood, Bound
<1>2. /\ d.allowed <=> tokens >= Window
      /\ d.allowed => d.state = [tokens |-> left, refilled |-> clock]
      /\ ~d.allowed => d.state = [tokens |-> tokens, refilled |-> clock]
  BY DEF TokenBucket, Decision, Capacity
<1>3. /\ st = NoState => tokens = Capacity
      /\ st # NoState => tokens = Min({Capacity, st.tokens + (clock - st.refilled) * Limit})
  OBVIOUS
<1>4. left = tokens - Window
  OBVIOUS
<1> HIDE DEF d, tokens, left
<1>5. ASSUME d.allowed, NEW h, OneMore(g, h, clock)
      PROVE  StrategyGood("token", h, d.state, clock)
  <2>1. TokensGood(h, d.state, clock) /\ WindowsHold(h, 2 * Limit)
    BY <1>1, <1>2, <1>3, <1>4, <1>5, TokenGrants
  <2>2. d.state # NoState
    BY <1>2, <1>5, StatesDiffer
  <2>3. h \in [Ticks -> Nat] /\ Silent(h, clock)
    BY <1>1, <1>5, GrantSilent DEF OneMore
  <2>4. QED
    BY <2>1, <2>2, <2>3 DEF StrategyGood, Bound
<1>6. ASSUME ~d.allowed
      PROVE  StrategyGood("token", g, d.state, clock)
  <2>1. TokensGood(g, d.state, clock)
    BY <1>1, <1>2, <1>3, <1>6, TokenDenies
  <2>2. d.state # NoState
    BY <1>2, <1>6, StatesDiffer
  <2>3. QED
    BY <1>1, <2>1, <2>2 DEF StrategyGood, Bound
<1>7. QED
  BY <1>5, <1>6 DEF DecisionGood, d

\* So does the leaky bucket.
LEMMA LeakDecides ==
  ASSUME clock \in Ticks, NEW g, NEW st, StrategyGood("leaky", g, st, clock)
  PROVE  DecisionGood("leaky", g, LeakyBucket(st))
<1> DEFINE size == IF st = NoState THEN 0
                   ELSE Max({0, st.size - ((clock - st.leaked) * Limit) \div Window})
           more == size + 1
           d == LeakyBucket(st)
<1>1. /\ g \in [Ticks -> Nat] /\ Silent(g, clock) /\ LeakGood(g, st, clock)
      /\ st = NoState => \A u \in Ticks : g[u] = 0
      /\ WindowsHold(g, 2 * Limit)
  BY DEF StrategyGood, Bound
<1>2. /\ d.allowed <=> size < Limit
      /\ d.allowed => d.state = [size |-> more, leaked |-> clock]
      /\ ~d.allowed => d.state = [size |-> size, leaked |-> clock]
  <2>1. CASE st = NoState
    BY <2>1 DEF LeakyBucket, Decision
  <2>2. CASE st # NoState
    BY <2>2 DEF LeakyBucket, Decision
  <2>3. QED
    BY <2>1, <2>2
<1>3. /\ st = NoState => size = 0
      /\ st # NoState => size = Max({0, st.size - ((clock - st.leaked) * Limit) \div Window})
  OBVIOUS
<1>4. more = size + 1
  OBVIOUS
<1> HIDE DEF d, size, more
<1>5. ASSUME d.allowed, NEW h, OneMore(g, h, clock)
      PROVE  StrategyGood("leaky", h, d.state, clock)
  <2>1. LeakGood(h, d.state, clock) /\ WindowsHold(h, 2 * Limit)
    BY <1>1, <1>2, <1>3, <1>4, <1>5, LeakGrants
  <2>2. d.state # NoState
    BY <1>2, <1>5, StatesDiffer
  <2>3. h \in [Ticks -> Nat] /\ Silent(h, clock)
    BY <1>1, <1>5, GrantSilent DEF OneMore
  <2>4. QED
    BY <2>1, <2>2, <2>3 DEF StrategyGood, Bound
<1>6. ASSUME ~d.allowed
      PROVE  StrategyGood("leaky", g, d.state, clock)
  <2>1. LeakGood(g, d.state, clock)
    BY <1>1, <1>2, <1>3, <1>6, LeakDenies
  <2>2. d.state # NoState
    BY <1>2, <1>6, StatesDiffer
  <2>3. QED
    BY <1>1, <2>1, <2>2 DEF StrategyGood, Bound
<1>7. QED
  BY <1>5, <1>6 DEF DecisionGood, d

\* What holds of a strategy holds a tick later.
LEMMA GoodLater ==
  ASSUME NEW s, NEW g, NEW st, NEW now \in Nat, StrategyGood(s, g, st, now)
  PROVE  StrategyGood(s, g, st, now + 1)
<1> DEFINE next == now + 1
<1>1. next \in Nat /\ Window \in Nat /\ \A u \in Nat : u > next => u > now
  BY RateAssumption
<1>2. \A u \in Nat : u >= next => u >= now
  BY <1>1
<1>3. \A u \in Nat : u <= now => u <= next
  BY <1>1
<1>4. \A u \in Nat : u > next - Window => u > now - Window
  BY <1>1
<1>5. Ticks \subseteq Nat
  BY TicksFinite
<1> HIDE DEF next
<1>6. Silent(g, next)
  BY <1>1, <1>5 DEF StrategyGood, Silent
<1>7. LogGood(g, st, now) => LogGood(g, st, next)
  BY <1>4, <1>5 DEF LogGood
<1>8. TokensGood(g, st, now) => TokensGood(g, st, next)
  BY <1>2, <1>3, <1>5 DEF TokensGood
<1>9. LeakGood(g, st, now) => LeakGood(g, st, next)
  BY <1>2, <1>3, <1>5 DEF LeakGood
<1>10. QED
  BY <1>6, <1>7, <1>8, <1>9 DEF StrategyGood, next

\* A step that changes neither what is stored nor what was allowed, and excuses no strategy back.
LEMMA StrategiesStay ==
  ASSUME StrategyInv, UNCHANGED <<clock, stored, granted>>, excused \subseteq excused'
  PROVE  \A s \in Limited \ excused' : StrategyGood(s, granted'[s], stored'[s], clock')
BY DEF StrategyInv

\* A strategy's state is read.
LEMMA ReadKeeps ==
  ASSUME StrategyInv, NEW c \in Clients, NEW s \in Strategies, StrategyRead(c, s)
  PROVE  StrategyInv'
<1>1. /\ check' = [check EXCEPT ![c] =
             [place |-> "strategy", strategy |-> s, state |-> IF up THEN stored[s] ELSE NoState]]
      /\ UNCHANGED <<clock, stored, granted>>
      /\ excused \subseteq excused'
  BY DEF StrategyRead
<1>2. s \notin excused' =>
          up /\ s \notin excused
             /\ \A d \in Clients : ~(check[d].place = "strategy" /\ check[d].strategy = s)
  BY DEF StrategyRead
<1> DEFINE read == check'[c]
<1>3. /\ DOMAIN check' = Clients /\ \A d \in Clients : d # c => check'[d] = check[d]
      /\ read.place = "strategy" /\ read.strategy = s /\ (up => read.state = stored[s])
  BY <1>1 DEF StrategyInv
<1>4. ReadGood(c)'
  <2>1. ASSUME s \notin excused', NEW d \in Clients,
               check'[d].place = "strategy", check'[d].strategy = s
        PROVE  d = c
    BY <1>2, <1>3, <2>1
  <2>2. s \notin excused' => check'[c].state = stored'[s]
    BY <1>1, <1>2, <1>3
  <2>3. check'[c].strategy = s /\ s \in Strategies
    BY <1>3
  <2>4. QED
    BY <2>1, <2>2, <2>3 DEF ReadGood
<1>5. ASSUME NEW d \in Clients, d # c
      PROVE  ReadGood(d)'
  <2>1. SUFFICES ASSUME check[d].place = "strategy"
                 PROVE  ReadGood(d)'
    BY <1>3, <1>5 DEF ReadGood
  <2> DEFINE u == check[d].strategy
  <2>2. check'[d] = check[d] /\ u \in Strategies
    BY <1>3, <1>5, <2>1 DEF StrategyInv, ReadGood
  <2>3. ASSUME u \notin excused'
        PROVE  /\ check[d].state = stored'[u]
               /\ \A e \in Clients : check'[e].place = "strategy" /\ check'[e].strategy = u => e = d
    <3>1. u \notin excused
      BY <1>1, <2>3
    <3>2. /\ check[d].state = stored[u]
          /\ \A e \in Clients : check[e].place = "strategy" /\ check[e].strategy = u => e = d
      BY <2>1, <3>1 DEF StrategyInv, ReadGood
    <3>3. u # s
      BY <1>2, <2>1, <2>3
    <3>4. QED
      BY <1>1, <1>3, <3>2, <3>3
  <2>4. QED
    BY <2>2, <2>3 DEF ReadGood
<1>6. \A t \in Limited \ excused' : StrategyGood(t, granted'[t], stored'[t], clock')
  BY <1>1, StrategiesStay
<1>7. \A d \in Clients : ReadGood(d)'
  BY <1>4, <1>5
<1>8. clock' \in Ticks /\ DOMAIN stored' = Strategies /\ DOMAIN granted' = Strategies
  BY <1>1 DEF StrategyInv
<1>9. QED
  BY <1>3, <1>6, <1>7, <1>8 DEF StrategyInv

\* The decision for a strategy that is not excused keeps what holds of it.
LEMMA DecisionKeeps ==
  ASSUME clock \in Ticks, NEW s \in Limited, NEW g, NEW st, StrategyGood(s, g, st, clock)
  PROVE  DecisionGood(s, g, Decide(s, st))
<1>1. CASE s = "sliding"
  BY <1>1, SlidingDecides DEF Decide
<1>2. CASE s = "token"
  BY <1>2, TokensDecide DEF Decide
<1>3. CASE s = "leaky"
  BY <1>3, LeakDecides DEF Decide
<1>4. CASE s = "adaptive"
  BY <1>4, AdaptiveDecides DEF Decide
<1>5. QED
  BY <1>1, <1>2, <1>3, <1>4 DEF Limited

\* A request is decided, and the new state set.
LEMMA WriteKeeps ==
  ASSUME StrategyInv, NEW c \in Clients, StrategyWrite(c)
  PROVE  StrategyInv'
<1> DEFINE s == check[c].strategy
           d == Decide(s, check[c].state)
<1>1. /\ check[c].place = "strategy"
      /\ up => stored' = [stored EXCEPT ![s] = d.state] /\ excused' = excused
      /\ ~up => stored' = stored /\ excused' = excused \cup {s}
      /\ d.allowed /\ s \notin excused' => granted' = [granted EXCEPT ![s][clock] = @ + 1]
      /\ ~(d.allowed /\ s \notin excused') => granted' = granted
      /\ check' = [check EXCEPT ![c] = Waiting]
      /\ clock' = clock
  BY DEF StrategyWrite
<1>2. s \in Strategies
  BY <1>1 DEF StrategyInv, ReadGood
<1> HIDE DEF d
<1>3. /\ DOMAIN stored' = Strategies /\ DOMAIN granted' = Strategies
      /\ \A t \in Strategies : t # s => stored'[t] = stored[t] /\ granted'[t] = granted[t]
      /\ excused \subseteq excused'
  BY <1>1 DEF StrategyInv
<1>4. /\ DOMAIN check' = Clients /\ \A e \in Clients : e # c => check'[e] = check[e]
      /\ check'[c].place = "idle"
  BY <1>1 DEF StrategyInv, Waiting
<1>5. ASSUME s \notin excused'
      PROVE  /\ up /\ s \notin excused /\ stored'[s] = d.state /\ d = Decide(s, stored[s])
             /\ \A e \in Clients : check[e].place = "strategy" /\ check[e].strategy = s => e = c
  <2>1. up /\ s \notin excused /\ stored'[s] = d.state
    BY <1>1, <1>2, <1>5 DEF StrategyInv
  <2>2. ReadGood(c)
    BY DEF StrategyInv
  <2>3. /\ check[c].state = stored[s]
        /\ \A e \in Clients : check[e].place = "strategy" /\ check[e].strategy = s => e = c
    BY <1>1, <2>1, <2>2 DEF ReadGood
  <2>4. QED
    BY <2>1, <2>3 DEF d
<1>6. ASSUME NEW t \in Limited, t \notin excused'
      PROVE  StrategyGood(t, granted'[t], stored'[t], clock')
  <2>1. t \in Strategies /\ t \notin excused /\ clock \in Ticks
    BY <1>3, <1>6 DEF Limited, Strategies, StrategyInv
  <2>2. StrategyGood(t, granted[t], stored[t], clock)
    BY <1>6, <2>1 DEF StrategyInv
  <2>3. CASE t # s
    BY <1>1, <1>3, <2>1, <2>2, <2>3
  <2>4. CASE t = s
    <3>1. DecisionGood(s, granted[s], d)
      BY <1>5, <1>6, <2>1, <2>2, <2>4, DecisionKeeps
    <3>2. stored'[s] = d.state
      BY <1>5, <1>6, <2>4
    <3>3. CASE d.allowed
      <4>1. granted' = [granted EXCEPT ![s][clock] = @ + 1]
        BY <1>1, <1>6, <2>4, <3>3
      <4>2. granted[s] \in [Ticks -> Nat]
        BY <2>2, <2>4 DEF StrategyGood
      <4>3. granted'[s] = [granted[s] EXCEPT ![clock] = @ + 1]
        BY <1>2, <4>1 DEF StrategyInv
      <4>4. OneMore(granted[s], granted'[s], clock)
        BY <2>1, <4>2, <4>3 DEF OneMore
      <4>5. QED
        BY <1>1, <2>4, <3>1, <3>2, <3>3, <4>4 DEF DecisionGood
    <3>4. CASE ~d.allowed
      BY <1>1, <2>4, <3>1, <3>2, <3>4 DEF DecisionGood
    <3>5. QED
      BY <3>3, <3>4
  <2>5. QED
    BY <2>3, <2>4
<1>7. ASSUME NEW e \in Clients
      PROVE  ReadGood(e)'
  <2>1. CASE e = c
    BY <1>4, <2>1 DEF ReadGood
  <2>2. CASE e # c
    <3>1. SUFFICES ASSUME check[e].place = "strategy"
                   PROVE  ReadGood(e)'
      BY <1>4, <2>2 DEF ReadGood
    <3> DEFINE u == check[e].strategy
    <3>2. check'[e] = check[e] /\ u \in Strategies
      BY <1>4, <2>2, <3>1 DEF StrategyInv, ReadGood
    <3>3. ASSUME u \notin excused'
          PROVE  /\ check[e].state = stored'[u]
                 /\ \A f \in Clients : check'[f].place = "strategy" /\ check'[f].strategy = u => f = e
      <4>1. u \notin excused
        BY <1>3, <3>3
      <4>2. /\ check[e].state = stored[u]
            /\ \A f \in Clients : check[f].place = "strategy" /\ check[f].strategy = u => f = e
        BY <3>1, <4>1 DEF StrategyInv, ReadGood
      <4>3. u # s
        BY <1>5, <2>2, <3>1, <3>3
      <4>4. stored'[u] = stored[u]
        BY <1>3, <3>2, <4>3
      <4>5. QED
        BY <1>4, <4>2, <4>4
    <3>4. QED
      BY <3>2, <3>3 DEF ReadGood
  <2>3. QED
    BY <2>1, <2>2
<1>8. clock' \in Ticks
  BY <1>1 DEF StrategyInv
<1>9. QED
  BY <1>3, <1>4, <1>6, <1>7, <1>8 DEF StrategyInv

\* Time passes.
LEMMA TickKeeps ==
  ASSUME StrategyInv, ClockTicks
  PROVE  StrategyInv'
<1>1. clock < MaxClock /\ clock' = clock + 1 /\ UNCHANGED <<check, stored, granted, excused>>
  BY DEF ClockTicks, Strategic
<1>2. clock \in Nat /\ clock' \in Ticks
  BY <1>1, RateAssumption DEF StrategyInv, Ticks
<1>3. ASSUME NEW s \in Limited, s \notin excused'
      PROVE  StrategyGood(s, granted'[s], stored'[s], clock')
  <2>1. StrategyGood(s, granted[s], stored[s], clock)
    BY <1>1, <1>3 DEF StrategyInv
  <2>2. StrategyGood(s, granted[s], stored[s], clock + 1)
    BY <1>2, <2>1, GoodLater
  <2>3. QED
    BY <1>1, <2>2
<1>4. \A c \in Clients : ReadGood(c)'
  BY <1>1 DEF StrategyInv, ReadGood
<1>5. QED
  BY <1>1, <1>2, <1>3, <1>4 DEF StrategyInv

\* Other steps touch none of it.
LEMMA OthersKeep ==
  ASSUME StrategyInv, RedisConnection \/ UNCHANGED rateVars
  PROVE  StrategyInv'
<1>1. UNCHANGED <<clock, check, stored, granted, excused>>
  BY DEF RedisConnection, Strategic, rateVars
<1>2. QED
  BY <1>1 DEF StrategyInv, ReadGood

\* At first nothing is stored and nothing was allowed.
LEMMA StrategiesStart == RateInit => StrategyInv
<1> SUFFICES ASSUME RateInit PROVE StrategyInv
  OBVIOUS
<1>1. /\ clock = 0 /\ stored = [s \in Strategies |-> NoState] /\ check = [c \in Clients |-> Waiting]
      /\ granted = [s \in Strategies |-> [t \in Ticks |-> 0]]
  BY DEF RateInit
<1>2. clock \in Ticks /\ Limit \in Nat
  BY <1>1, TicksFinite, RateAssumption
<1>3. \A c \in Clients : ReadGood(c)
  BY <1>1 DEF ReadGood, Waiting
<1>4. ASSUME NEW s \in Limited
      PROVE  StrategyGood(s, granted[s], stored[s], clock)
  <2> DEFINE g == granted[s]
             st == stored[s]
  <2>1. g = [t \in Ticks |-> 0] /\ st = NoState
    BY <1>1 DEF Limited, Strategies
  <2> HIDE DEF g, st
  <2>2. g \in [Ticks -> Nat] /\ \A u \in Ticks : g[u] = 0
    BY <2>1
  <2>3. ASSUME NEW a, NEW t
        PROVE  Between(g, a, t) = 0
    <3>1. \A u \in Span(a, t) : g[u] = 0
      BY <2>2, TicksFinite
    <3>2. QED
      BY <3>1, TicksFinite, TotalOfZeros DEF Between
  <2>4. 0 <= Bound(s)
    BY <1>2 DEF Bound
  <2>5. WindowsHold(g, Bound(s))
    BY <2>3, <2>4 DEF WindowsHold
  <2>6. Silent(g, clock)
    BY <2>2 DEF Silent
  <2>7. LogGood(g, st, clock) /\ TokensGood(g, st, clock) /\ LeakGood(g, st, clock)
    BY <2>1 DEF LogGood, TokensGood, LeakGood
  <2>8. StrategyGood(s, g, st, clock)
    BY <2>2, <2>5, <2>6, <2>7 DEF StrategyGood
  <2>9. QED
    BY <2>8 DEF g, st
<1>5. DOMAIN check = Clients /\ DOMAIN stored = Strategies /\ DOMAIN granted = Strategies
  BY <1>1
<1>6. QED
  BY <1>2, <1>3, <1>4, <1>5 DEF StrategyInv

\* While Redis answers and requests are checked one after another, a sliding window allows no
\* more than the limit in any window, and the buckets and the adaptive limit at most twice it.
THEOREM StrategiesKeepTheirLimits == StrategySpec => []StrategyLimit
<1>1. RateInit => StrategyInv
  BY StrategiesStart
<1>2. StrategyInv /\ [\E s \in Strategies : StrategyNext(s)]_rateVars => StrategyInv'
  <2> SUFFICES ASSUME StrategyInv, [\E s \in Strategies : StrategyNext(s)]_rateVars
               PROVE  StrategyInv'
    OBVIOUS
  <2>1. ASSUME NEW s \in Strategies, StrategyNext(s)
        PROVE  StrategyInv'
    <3>1. ASSUME NEW c \in Clients, StrategyRead(c, s) PROVE StrategyInv'
      BY <3>1, ReadKeeps
    <3>2. ASSUME NEW c \in Clients, StrategyWrite(c) PROVE StrategyInv'
      BY <3>2, WriteKeeps
    <3>3. CASE ClockTicks
      BY <3>3, TickKeeps
    <3>4. CASE RedisConnection
      BY <3>4, OthersKeep
    <3>5. QED
      BY <2>1, <3>1, <3>2, <3>3, <3>4 DEF StrategyNext
  <2>2. CASE UNCHANGED rateVars
    BY <2>2, OthersKeep
  <2>3. QED
    BY <2>1, <2>2
<1>3. StrategyInv => StrategyLimit
  <2> SUFFICES ASSUME StrategyInv, NEW s \in Limited, s \notin excused, NEW t \in Ticks
               PROVE  InWindow(s, t) <= Bound(s)
    BY DEF StrategyLimit, Limited, Bound
  <2> DEFINE a == t - Window
  <2>1. a \in Int /\ a + Window = t
    BY TicksFinite, RateAssumption
  <2>2. InWindow(s, t) = Between(granted[s], a, t)
    BY WindowIsSpan
  <2> HIDE DEF a
  <2>3. WindowsHold(granted[s], Bound(s))
    BY DEF StrategyInv, StrategyGood
  <2>4. QED
    BY <2>1, <2>2, <2>3 DEF WindowsHold
<1>4. QED
  BY <1>1, <1>2, <1>3, PTL DEF StrategySpec

-----------------------------------------------------------------------------
(***************************************************************************)
(* The shares of the load balancer.  Round robin and its weighted form     *)
(* both lay the healthy instances side by side, each as wide as its share, *)
(* and take the one that covers the index modulo the whole width.          *)
(***************************************************************************)

\* How much of a share of w places has been passed at v places from its start.
Passed(v, w) == IF v < 0 THEN 0 ELSE IF v > w THEN w ELSE v

\* How often indexes below x fall on the w places from s, of n.
Turns(x, s, w, n) == w * (x \div n) + Passed((x % n) - s, w)

\* Division with a remainder.
LEMMA Division ==
  ASSUME NEW x \in Nat, NEW n \in Nat, n > 0
  PROVE  x \div n \in Nat /\ x % n \in 0 .. (n - 1) /\ x = n * (x \div n) + (x % n)
OBVIOUS

\* It has one result.
LEMMA DivisionUnique ==
  ASSUME NEW n \in Nat, n > 0, NEW q \in Nat, NEW r \in Nat, r < n,
         NEW x \in Nat, NEW before \in Nat, before = n * q, x = before + r
  PROVE  x \div n = q /\ x % n = r
<1> DEFINE d == x \div n
           m == x % n
<1>1. d \in Nat /\ m \in Nat /\ m < n /\ x = n * d + m
  BY Division
<1> HIDE DEF d, m
<1>2. n * d \in Int /\ n * q \in Int
  BY <1>1
<1>3. CASE d >= q + 1
  <2>1. n * (q + 1) <= n * d
    BY <1>1, <1>3
  <2>2. n * (q + 1) = n * q + n
    OBVIOUS
  <2>3. QED
    BY <1>1, <1>2, <2>1, <2>2
<1>4. CASE q >= d + 1
  <2>1. n * (d + 1) <= n * q
    BY <1>1, <1>4
  <2>2. n * (d + 1) = n * d + n
    BY <1>1
  <2>3. QED
    BY <1>1, <1>2, <2>1, <2>2
<1>5. d = q
  BY <1>1, <1>3, <1>4
<1>6. m = r
  BY <1>1, <1>2, <1>5
<1>7. QED
  BY <1>5, <1>6 DEF d, m

\* The next number is in the same round, or starts the next one.
LEMMA NextPlace ==
  ASSUME NEW x \in Nat, NEW n \in Nat, n > 0
  PROVE  \/ (x + 1) \div n = x \div n /\ (x + 1) % n = (x % n) + 1
         \/ x % n = n - 1 /\ (x + 1) \div n = (x \div n) + 1 /\ (x + 1) % n = 0
<1> DEFINE q == x \div n
           r == x % n
           y == x + 1
<1>1. q \in Nat /\ r \in Nat /\ r < n /\ x = n * q + r
  BY Division
<1>2. y \in Nat /\ y = x + 1
  OBVIOUS
<1> HIDE DEF q, r, y
<1>3. CASE r + 1 < n
  <2>1. y = n * q + (r + 1) /\ r + 1 \in Nat
    BY <1>1, <1>2
  <2> DEFINE e == r + 1
  <2> HIDE DEF e
  <2>2. y = n * q + e /\ e \in Nat /\ e < n
    BY <1>3, <2>1 DEF e
  <2> DEFINE before == n * q
  <2>3. before = n * q /\ y = before + e
    BY <2>2
  <2> HIDE DEF before
  <2>4. n \in Nat /\ n > 0 /\ q \in Nat /\ e \in Nat /\ e < n /\ y \in Nat /\ before \in Nat
    BY <1>1, <1>2, <2>2 DEF before
  <2>5. y \div n = q /\ y % n = e
    BY ONLY <2>4, <2>3, DivisionUnique
  <2>6. QED
    BY <2>5 DEF q, r, y, e
<1>4. CASE r + 1 >= n
  <2> DEFINE e == q + 1
  <2>1. e \in Nat /\ r = n - 1
    BY <1>1, <1>4
  <2>2. n * (q + 1) = n * q + n /\ n * q \in Int
    BY <1>1
  <2>3. y = n * e + 0
    BY <1>1, <1>2, <2>1, <2>2
  <2> HIDE DEF e
  <2>4. 0 \in Nat /\ 0 < n
    OBVIOUS
  <2>5. y \div n = e /\ y % n = 0
    BY <1>2, <2>1, <2>3, <2>4, DivisionUnique
  <2>6. QED
    BY <2>1, <2>5 DEF q, r, y, e
<1>5. QED
  BY <1>1, <1>3, <1>4

\* An index counts for the share that covers it, once.
LEMMA TurnsCount ==
  ASSUME NEW x \in Nat, NEW n \in Nat, n > 0, NEW s \in Nat, NEW w \in Nat, s + w <= n
  PROVE  /\ Turns(x, s, w, n) \in Nat
         /\ s <= x % n /\ x % n < s + w => Turns(x + 1, s, w, n) = Turns(x, s, w, n) + 1
         /\ ~(s <= x % n /\ x % n < s + w) => Turns(x + 1, s, w, n) = Turns(x, s, w, n)
<1> DEFINE q == x \div n
           r == x % n
           e == (x + 1) \div n
           f == (x + 1) % n
<1>1. q \in Nat /\ r \in Nat /\ r < n
  BY Division
<1>2. (e = q /\ f = r + 1) \/ (r = n - 1 /\ e = q + 1 /\ f = 0)
  BY NextPlace
<1>3. /\ Turns(x, s, w, n) = w * q + Passed(r - s, w)
      /\ Turns(x + 1, s, w, n) = w * e + Passed(f - s, w)
  BY DEF Turns
<1> HIDE DEF q, r, e, f
<1>4. w * q \in Nat /\ w * (q + 1) = w * q + w
  BY <1>1
<1>5. Passed(r - s, w) \in Nat
  BY <1>1 DEF Passed
<1>6. CASE e = q /\ f = r + 1
  <2>1. /\ s <= r /\ r < s + w => Passed(f - s, w) = Passed(r - s, w) + 1
        /\ ~(s <= r /\ r < s + w) => Passed(f - s, w) = Passed(r - s, w)
    BY <1>1, <1>6 DEF Passed
  <2>2. QED
    BY <1>3, <1>4, <1>5, <1>6, <2>1 DEF r
<1>7. CASE r = n - 1 /\ e = q + 1 /\ f = 0
  <2>1. Passed(f - s, w) = 0
    BY <1>7 DEF Passed
  <2>2. /\ s <= r /\ r < s + w => Passed(r - s, w) = w - 1
        /\ ~(s <= r /\ r < s + w) => Passed(r - s, w) = w
    BY <1>1, <1>7 DEF Passed
  <2>3. QED
    BY <1>3, <1>4, <1>5, <1>7, <2>1, <2>2 DEF r
<1>8. QED
  BY <1>2, <1>6, <1>7

\* Since any index the shares have been gone round the same number of times, but for one.
LEMMA TurnsInRounds ==
  ASSUME NEW start \in Nat, NEW x \in Nat, start <= x, NEW n \in Nat, n > 0
  PROVE  \E rounds \in Int : \A s \in Nat, w \in Nat : s + w <= n =>
             /\ w * rounds <= Turns(x, s, w, n) - Turns(start, s, w, n)
             /\ Turns(x, s, w, n) - Turns(start, s, w, n) <= w * rounds + w
<1> DEFINE q == x \div n
           r == x % n
           e == start \div n
           f == start % n
<1>1. q \in Nat /\ r \in Nat /\ e \in Nat /\ f \in Nat
  BY Division
<1>2. \A s, w : /\ Turns(x, s, w, n) = w * q + Passed(r - s, w)
                /\ Turns(start, s, w, n) = w * e + Passed(f - s, w)
  BY DEF Turns
<1> HIDE DEF q, r, e, f
<1>3. ASSUME NEW s \in Nat, NEW w \in Nat
      PROVE  /\ Passed(r - s, w) \in 0 .. w /\ Passed(f - s, w) \in 0 .. w
             /\ r >= f => Passed(r - s, w) >= Passed(f - s, w)
             /\ f >= r => Passed(f - s, w) >= Passed(r - s, w)
  BY <1>1 DEF Passed
<1>4. ASSUME NEW s \in Nat, NEW w \in Nat
      PROVE  /\ w * q \in Int /\ w * e \in Int
             /\ w * (q - e) = w * q - w * e
             /\ w * (q - e - 1) = w * q - w * e - w
  BY <1>1
<1>5. CASE r >= f
  <2>1. ASSUME NEW s \in Nat, NEW w \in Nat
        PROVE  /\ w * (q - e) <= Turns(x, s, w, n) - Turns(start, s, w, n)
               /\ Turns(x, s, w, n) - Turns(start, s, w, n) <= w * (q - e) + w
    <3> DEFINE a == Turns(x, s, w, n)
               b == Turns(start, s, w, n)
               i == Passed(r - s, w)
               j == Passed(f - s, w)
               u == w * q
               v == w * e
               m == w * (q - e)
    <3>1. a = u + i /\ b = v + j
      BY <1>2
    <3>2. i \in 0 .. w /\ j \in 0 .. w /\ (r >= f => i >= j) /\ (f >= r => j >= i)
      BY <1>3
    <3>3. u \in Int /\ v \in Int /\ m = u - v
      BY <1>4
    <3>4. w \in Nat
      BY <2>1
    <3> HIDE DEF a, b, i, j, u, v, m
    <3>5. m <= a - b /\ a - b <= m + w
      BY ONLY <1>1, <1>5, <3>1, <3>2, <3>3, <3>4
    <3>6. QED
      BY <3>5 DEF a, b, m
  <2>2. q - e \in Int
    BY <1>1
  <2>3. QED
    BY <2>1, <2>2
<1>6. CASE ~(r >= f)
  <2>1. ASSUME NEW s \in Nat, NEW w \in Nat
        PROVE  /\ w * (q - e - 1) <= Turns(x, s, w, n) - Turns(start, s, w, n)
               /\ Turns(x, s, w, n) - Turns(start, s, w, n) <= w * (q - e - 1) + w
    <3> DEFINE a == Turns(x, s, w, n)
               b == Turns(start, s, w, n)
               i == Passed(r - s, w)
               j == Passed(f - s, w)
               u == w * q
               v == w * e
               m == w * (q - e - 1)
    <3>1. a = u + i /\ b = v + j
      BY <1>2
    <3>2. i \in 0 .. w /\ j \in 0 .. w /\ (r >= f => i >= j) /\ (f >= r => j >= i)
      BY <1>3
    <3>3. u \in Int /\ v \in Int /\ m = u - v - w
      BY <1>4
    <3>4. w \in Nat
      BY <2>1
    <3> HIDE DEF a, b, i, j, u, v, m
    <3>5. m <= a - b /\ a - b <= m + w
      BY ONLY <1>1, <1>6, <3>1, <3>2, <3>3, <3>4
    <3>6. QED
      BY <3>5 DEF a, b, m
  <2>2. q - e - 1 \in Int
    BY <1>1
  <2>3. QED
    BY <2>1, <2>2
<1>7. QED
  BY <1>5, <1>6

Instance == [url : Urls, healthy : BOOLEAN, weight : Weights, slow : 0 .. 1, open : Nat]

\* How wide an instance's share is in either form, and how wide those of some places are.
Share(mode, k) == IF mode = "roundRobin" THEN 1 ELSE Weight[k]
Width(mode, places) == IF mode = "roundRobin" THEN Cardinality(places) ELSE TotalWeight(places)

\* How often indexes below x fall on the share of the healthy instance at k.
Taken(x, mode, k) == Turns(x, Width(mode, Earlier(k)), Share(mode, k), Width(mode, Healthy))

Sharing == {"roundRobin", "weighted"}
Modes == Sharing \cup {"none", "ipHash", "healthBased"}

\* The picks of either form are those of the indexes since it started.
SharesCounted ==
    \A mode \in Sharing, x \in Nat : served.mode = mode /\ index = x =>
        \E start \in Nat : /\ start <= x
                           /\ \A k \in Healthy : served.picks[instances[k].url] =
                                                     Taken(x, mode, k) - Taken(start, mode, k)

LBInv ==
    /\ instances \in Seq(Instance)
    /\ \A j, k \in DOMAIN instances : instances[j].url = instances[k].url => j = k
    /\ index \in Nat
    /\ served \in [mode : Modes, picks : [Urls -> Nat]]
    /\ SharesCounted

\* Shares are laid side by side: each begins where the earlier ones end.
LEMMA SharesSideBySide ==
  ASSUME LBInv, NEW mode \in Sharing
  PROVE  /\ \A k \in Healthy :
                /\ Width(mode, Earlier(k)) \in Nat /\ Share(mode, k) \in Nat
                /\ Share(mode, k) > 0
                /\ Width(mode, Earlier(k) \cup {k}) = Width(mode, Earlier(k)) + Share(mode, k)
                /\ Width(mode, Earlier(k)) + Share(mode, k) <= Width(mode, Healthy)
                /\ \A j \in Healthy : j < k =>
                       Width(mode, Earlier(j)) + Share(mode, j) <= Width(mode, Earlier(k))
         /\ Width(mode, Healthy) \in Nat
<1>1. DOMAIN instances = 1 .. Len(instances) /\ Len(instances) \in Nat
  BY DEF LBInv
<1>2. IsFiniteSet(Healthy) /\ Healthy \subseteq Nat
  <2>1. IsFiniteSet(1 .. Len(instances)) /\ 1 .. Len(instances) \subseteq Nat
    BY <1>1, FS_Interval
  <2>2. Healthy \subseteq 1 .. Len(instances)
    BY <1>1 DEF Healthy
  <2>3. QED
    BY <2>1, <2>2, FS_Subset
<1>3. \A k \in Healthy : Weight[k] \in Nat /\ Weight[k] > 0
  <2>1. instances \in Seq(Instance)
    BY DEF LBInv
  <2>2. \A k \in DOMAIN instances : instances[k] \in Instance
    BY ONLY <1>1, <2>1
  <2>3. \A k \in DOMAIN instances : instances[k].weight \in Nat
    BY <2>2, WeightsAssumption DEF Instance
  <2>4. QED
    BY <2>3 DEF Weight, Healthy
<1>4. ASSUME NEW P \in SUBSET Healthy
      PROVE  /\ Width(mode, P) \in Nat
             /\ \A Q \in SUBSET P : Width(mode, Q) <= Width(mode, P)
             /\ \A k \in Healthy : k \notin P => Width(mode, P \cup {k}) = Width(mode, P) + Share(mode, k)
  <2>1. IsFiniteSet(P)
    BY <1>2, FS_Subset
  <2>2. CASE mode = "roundRobin"
    <3>1. \A Q : Width(mode, Q) = Cardinality(Q)
      BY <2>2 DEF Width
    <3>2. \A k : Share(mode, k) = 1
      BY <2>2 DEF Share
    <3>3. Cardinality(P) \in Nat
      BY <2>1, FS_CardinalityType
    <3>4. \A Q \in SUBSET P : Cardinality(Q) <= Cardinality(P)
      BY <2>1, FS_Subset
    <3>5. \A k : k \notin P => Cardinality(P \cup {k}) = Cardinality(P) + 1
      BY <2>1, FS_AddElement
    <3>6. QED
      BY <3>1, <3>2, <3>3, <3>4, <3>5
  <2>3. CASE mode # "roundRobin"
    <3>1. \A Q : Width(mode, Q) = Total(Weight, Q)
      BY <2>3 DEF Width, TotalWeight, Total
    <3>2. \A k : Share(mode, k) = Weight[k]
      BY <2>3 DEF Share
    <3>3. \A k \in P : Weight[k] \in Nat
      BY <1>3
    <3>4. Total(Weight, P) \in Nat
      BY <2>1, <3>3, TotalOfSubset
    <3>5. \A Q \in SUBSET P : Total(Weight, Q) <= Total(Weight, P)
      BY <2>1, <3>3, TotalOfSubset
    <3>6. ASSUME NEW k \in Healthy, k \notin P
          PROVE  Total(Weight, P \cup {k}) = Total(Weight, P) + Weight[k]
      <4>1. \A i \in P \cup {k} : Weight[i] \in Int
        BY <1>3
      <4>2. Total(Weight, P \cup {k}) = Weight[k] + Total(Weight, P)
        BY <2>1, <3>6, <4>1, TotalAdds
      <4>3. QED
        BY <1>3, <3>4, <4>2
    <3>7. QED
      BY <3>1, <3>2, <3>4, <3>5, <3>6
  <2>4. QED
    BY <2>2, <2>3
<1>5. ASSUME NEW k \in Healthy
      PROVE  /\ Width(mode, Earlier(k)) \in Nat /\ Share(mode, k) \in Nat /\ Share(mode, k) > 0
             /\ Width(mode, Earlier(k) \cup {k}) = Width(mode, Earlier(k)) + Share(mode, k)
             /\ Width(mode, Earlier(k) \cup {k}) <= Width(mode, Healthy)
             /\ \A j \in Healthy : j < k =>
                    Width(mode, Earlier(j) \cup {j}) <= Width(mode, Earlier(k))
  <2>1. Earlier(k) \in SUBSET Healthy /\ k \notin Earlier(k)
    BY <1>2 DEF Earlier
  <2>2. Earlier(k) \cup {k} \in SUBSET Healthy
    BY <2>1
  <2>3. Share(mode, k) \in Nat /\ Share(mode, k) > 0
    BY <1>3 DEF Share
  <2>4. ASSUME NEW j \in Healthy, j < k
        PROVE  Earlier(j) \cup {j} \in SUBSET Earlier(k)
    <3>1. j \in Nat /\ k \in Nat /\ Healthy \subseteq Nat
      BY <1>2
    <3>2. \A i \in Healthy : i < j => i < k
      BY <2>4, <3>1
    <3>3. QED
      BY <2>4, <3>2 DEF Earlier
  <2>5. QED
    BY <1>4, <2>1, <2>2, <2>3, <2>4
<1>6. Width(mode, Healthy) \in Nat
  BY <1>4
<1>7. QED
  BY <1>5, <1>6

\* The instance whose share covers the index is picked, and no other.
LEMMA PickCounts ==
  ASSUME LBInv, NEW mode \in Sharing, NEW k \in Healthy,
         Width(mode, Earlier(k)) <= index % Width(mode, Healthy),
         index % Width(mode, Healthy) < Width(mode, Earlier(k)) + Share(mode, k)
  PROVE  \A j \in Healthy :
             /\ Taken(index, mode, j) \in Nat
             /\ j = k => Taken(index + 1, mode, j) = Taken(index, mode, j) + 1
             /\ j # k => Taken(index + 1, mode, j) = Taken(index, mode, j)
<1> DEFINE n == Width(mode, Healthy)
           s(j) == Width(mode, Earlier(j))
           w(j) == Share(mode, j)
           place == index % n
<1>1. /\ n \in Nat
      /\ \A j \in Healthy : /\ s(j) \in Nat /\ w(j) \in Nat /\ w(j) > 0 /\ s(j) + w(j) <= n
                            /\ \A i \in Healthy : i < j => s(i) + w(i) <= s(j)
  BY SharesSideBySide
<1>2. n > 0 /\ index \in Nat /\ Healthy \subseteq Nat
  <2>1. DOMAIN instances = 1 .. Len(instances) /\ Len(instances) \in Nat
    BY DEF LBInv
  <2>2. Healthy \subseteq Nat
    BY <2>1 DEF Healthy
  <2>3. n > 0
    <3>1. s(k) \in Nat /\ w(k) \in Nat /\ w(k) > 0 /\ s(k) + w(k) <= n
      BY <1>1
    <3> HIDE DEF n, s, w
    <3>2. QED
      BY ONLY <1>1, <3>1
  <2>4. QED
    BY <2>2, <2>3 DEF LBInv
<1>3. place \in Nat /\ s(k) <= place /\ place < s(k) + w(k)
  BY <1>1, <1>2, Division
<1>4. ASSUME NEW j \in Healthy
      PROVE  /\ Taken(index, mode, j) \in Nat
             /\ s(j) <= place /\ place < s(j) + w(j) =>
                    Taken(index + 1, mode, j) = Taken(index, mode, j) + 1
             /\ ~(s(j) <= place /\ place < s(j) + w(j)) =>
                    Taken(index + 1, mode, j) = Taken(index, mode, j)
  <2> DEFINE from == s(j)
             wide == w(j)
  <2>1. from \in Nat /\ wide \in Nat /\ from + wide <= n /\ n \in Nat /\ n > 0 /\ index \in Nat
    BY <1>1, <1>2
  <2>2. \A x : Taken(x, mode, j) = Turns(x, from, wide, n)
    BY DEF Taken
  <2> HIDE DEF n, from, wide
  <2>3. /\ Turns(index, from, wide, n) \in Nat
        /\ from <= index % n /\ index % n < from + wide =>
               Turns(index + 1, from, wide, n) = Turns(index, from, wide, n) + 1
        /\ ~(from <= index % n /\ index % n < from + wide) =>
               Turns(index + 1, from, wide, n) = Turns(index, from, wide, n)
    BY ONLY <2>1, TurnsCount
  <2>4. QED
    BY <2>2, <2>3 DEF from, wide
<1>5. ASSUME NEW j \in Healthy, j # k
      PROVE  ~(s(j) <= place /\ place < s(j) + w(j))
  <2>1. j \in Nat /\ k \in Nat
    BY <1>2
  <2>2. j < k => s(j) + w(j) <= s(k)
    BY <1>1
  <2>3. k < j => s(k) + w(k) <= s(j)
    BY <1>1
  <2>4. s(j) \in Nat /\ s(k) \in Nat /\ w(j) \in Nat /\ w(k) \in Nat
    BY <1>1
  <2> HIDE DEF s, w, place
  <2>5. QED
    BY ONLY <1>3, <1>5, <2>1, <2>2, <2>3, <2>4
<1>6. QED
  BY <1>3, <1>4, <1>5

\* What the shares depend on: which instances there are, in which order, and which are healthy.
SameInstances ==
    /\ DOMAIN instances' = DOMAIN instances
    /\ \A k \in DOMAIN instances : /\ instances'[k].url = instances[k].url
                                   /\ instances'[k].healthy = instances[k].healthy
                                   /\ instances'[k].weight = instances[k].weight

\* The weights' sum, as a sum of the library.
LEMMA TotalWeightIsTotal == \A P : TotalWeight(P) = Total(Weight, P)
BY DEF TotalWeight, Total

\* The shares are the same then.
LEMMA SameShares ==
  ASSUME SameInstances
  PROVE  Healthy' = Healthy /\ \A x, mode, k : Taken(x, mode, k)' = Taken(x, mode, k)
<1>1. Healthy' = Healthy
  BY DEF SameInstances, Healthy
<1>2. Weight' = Weight
  BY DEF SameInstances, Weight
<1>3. \A k : Earlier(k)' = Earlier(k)
  BY <1>1 DEF Earlier
<1>4. \A mode, k : Share(mode, k)' = Share(mode, k)
  BY <1>2 DEF Share
<1>5. \A P : TotalWeight(P)' = TotalWeight(P)
  <2>1. (\A P : TotalWeight(P) = Total(Weight, P))'
    BY TotalWeightIsTotal, PTL
  <2>2. QED
    BY <1>2, <2>1, TotalWeightIsTotal
<1>6. \A mode, k : Width(mode, Earlier(k))' = Width(mode, Earlier(k))
  BY <1>3, <1>5 DEF Width
<1>7. \A mode : Width(mode, Healthy)' = Width(mode, Healthy)
  BY <1>1, <1>5 DEF Width
<1>8. QED
  BY <1>1, <1>4, <1>6, <1>7 DEF Taken

\* The instance whose share covers the index is picked.
LEMMA PickKeeps ==
  ASSUME LBInv, NEW mode \in Sharing, NEW k \in Healthy,
         Width(mode, Earlier(k)) <= index % Width(mode, Healthy),
         index % Width(mode, Healthy) < Width(mode, Earlier(k)) + Share(mode, k),
         Picked(mode, k), index' = index + 1, UNCHANGED instances
  PROVE  LBInv'
<1>1. /\ instances \in Seq(Instance) /\ index \in Nat
      /\ served \in [mode : Modes, picks : [Urls -> Nat]]
      /\ \A i, j \in DOMAIN instances : instances[i].url = instances[j].url => i = j
  BY DEF LBInv
<1>2. Healthy' = Healthy /\ \A x, m, j : Taken(x, m, j)' = Taken(x, m, j)
  BY SameShares DEF SameInstances
<1>3. \A j \in Healthy :
          /\ Taken(index, mode, j) \in Nat
          /\ j = k => Taken(index + 1, mode, j) = Taken(index, mode, j) + 1
          /\ j # k => Taken(index + 1, mode, j) = Taken(index, mode, j)
  BY PickCounts
<1>4. \A j \in Healthy : instances[j].url \in Urls /\ (instances[j].url = instances[k].url => j = k)
  <2>1. \A j \in DOMAIN instances : instances[j] \in Instance
    BY ONLY <1>1
  <2>2. QED
    BY <1>1, <2>1 DEF Instance, Healthy
<1> DEFINE before == IF served.mode = mode THEN served.picks ELSE [u \in Urls |-> 0]
           url == instances[k].url
<1>5. /\ before \in [Urls -> Nat]
      /\ served' = [mode |-> mode, picks |-> [before EXCEPT ![url] = @ + 1]]
  <2>1. CASE served.mode = mode
    BY <1>1, <2>1 DEF Picked
  <2>2. CASE served.mode # mode
    BY <2>2 DEF Picked, Fresh
  <2>3. QED
    BY <2>1, <2>2
<1>6. \E start \in Nat : /\ start <= index
                         /\ \A j \in Healthy : before[instances[j].url] =
                                Taken(index, mode, j) - Taken(start, mode, j)
  <2>1. CASE served.mode = mode
    BY <1>1, <2>1 DEF LBInv, SharesCounted
  <2>2. CASE served.mode # mode
    <3>1. \A j \in Healthy : before[instances[j].url] = 0
      BY <1>4, <2>2
    <3>2. \A j \in Healthy : Taken(index, mode, j) - Taken(index, mode, j) = 0
      BY <1>3
    <3>3. index <= index
      BY <1>1
    <3>4. QED
      BY <1>1, <3>1, <3>2, <3>3
  <2>3. QED
    BY <2>1, <2>2
<1> HIDE DEF before, url
<1>7. /\ served' \in [mode : Modes, picks : [Urls -> Nat]] /\ served'.mode = mode
      /\ served'.picks[url] = before[url] + 1
      /\ \A u \in Urls : u # url => served'.picks[u] = before[u]
  <2>1. url \in Urls
    BY <1>4 DEF url
  <2>2. mode \in Modes
    BY DEF Sharing, Modes
  <2>3. QED
    BY <1>5, <2>1, <2>2
<1>8. PICK start \in Nat : /\ start <= index
                           /\ \A j \in Healthy : before[instances[j].url] =
                                  Taken(index, mode, j) - Taken(start, mode, j)
  BY <1>6
<1>9. PICK next \in Nat : next = index + 1 /\ start <= next /\ index' = next
  BY <1>1, <1>8
<1>10. \A j \in Healthy : Taken(start, mode, j) \in Int
  <2>1. \A j \in Healthy : /\ Width(mode, Earlier(j)) \in Nat /\ Share(mode, j) \in Nat
                           /\ Share(mode, j) > 0
                           /\ Width(mode, Earlier(j)) + Share(mode, j) <= Width(mode, Healthy)
    BY SharesSideBySide
  <2>2. Width(mode, Healthy) \in Nat
    BY SharesSideBySide
  <2>3. ASSUME NEW j \in Healthy
        PROVE  Taken(start, mode, j) \in Int
    <3> DEFINE from == Width(mode, Earlier(j))
               wide == Share(mode, j)
               n == Width(mode, Healthy)
    <3>1. from \in Nat /\ wide \in Nat /\ wide > 0 /\ from + wide <= n /\ n \in Nat
      BY <2>1, <2>2
    <3>2. Taken(start, mode, j) = Turns(start, from, wide, n)
      BY DEF Taken
    <3> HIDE DEF from, wide, n
    <3>3. n > 0
      BY <3>1
    <3>4. Turns(start, from, wide, n) \in Nat
      BY ONLY <1>8, <3>1, <3>3, TurnsCount
    <3>5. QED
      BY <3>2, <3>4
  <2>4. QED
    BY <2>3
<1>11. ASSUME NEW j \in Healthy
       PROVE  served'.picks[instances[j].url] = Taken(next, mode, j) - Taken(start, mode, j)
  <2> DEFINE was == Taken(index, mode, j)
             first == Taken(start, mode, j)
             is == Taken(next, mode, j)
             u == instances[j].url
  <2>1. was \in Nat /\ first \in Int /\ before[u] = was - first
    BY <1>3, <1>8, <1>10
  <2>2. (j = k => is = was + 1) /\ (j # k => is = was)
    BY <1>3, <1>9
  <2>3. (j = k => u = url) /\ (j # k => u # url) /\ u \in Urls
    BY <1>4 DEF url
  <2>4. (j = k => served'.picks[u] = before[u] + 1) /\ (j # k => served'.picks[u] = before[u])
    BY <1>7, <2>3
  <2> HIDE DEF was, first, is, u
  <2>5. served'.picks[u] = is - first
    BY ONLY <2>1, <2>2, <2>4
  <2>6. QED
    BY <2>5 DEF is, first, u
<1>12. SharesCounted'
  <2>1. ASSUME NEW m \in Sharing, NEW x \in Nat, served'.mode = m, index' = x
        PROVE  \E s \in Nat : /\ s <= x
                              /\ \A j \in Healthy' : served'.picks[instances'[j].url] =
                                                       Taken(x, m, j)' - Taken(s, m, j)'
    <3>1. m = mode /\ x = next
      BY <1>7, <1>9, <2>1
    <3>2. \A j \in Healthy' : served'.picks[instances'[j].url] =
                                  Taken(next, mode, j)' - Taken(start, mode, j)'
      BY <1>2, <1>11
    <3>3. QED
      BY <1>9, <3>1, <3>2
  <2>2. QED
    BY <2>1 DEF SharesCounted
<1>13. instances' \in Seq(Instance) /\ index' \in Nat
       /\ \A i, j \in DOMAIN instances' : instances'[i].url = instances'[j].url => i = j
  BY <1>1, <1>9
<1>14. QED
  BY <1>7, <1>12, <1>13 DEF LBInv

\* The changes of an instance that leave its url.
LEMMA ChangeFacts ==
  ASSUME instances \in Seq(Instance),
         \A j, k \in DOMAIN instances : instances[j].url = instances[k].url => j = k,
         DOMAIN instances' = DOMAIN instances,
         instances' = [k \in DOMAIN instances |-> instances'[k]],
         \A k \in DOMAIN instances : instances'[k] \in Instance /\ instances'[k].url = instances[k].url
  PROVE  /\ instances' \in Seq(Instance)
         /\ \A j, k \in DOMAIN instances' : instances'[j].url = instances'[k].url => j = k
<1>1. DOMAIN instances = 1 .. Len(instances) /\ Len(instances) \in Nat
  OBVIOUS
<1> DEFINE n == Len(instances)
<1> HIDE DEF n
<1>2. n \in Nat /\ DOMAIN instances = 1 .. n
  BY <1>1 DEF n
<1>3. instances' \in [1 .. n -> Instance]
  BY <1>2
<1>4. instances' \in Seq(Instance)
  BY ONLY <1>2, <1>3
<1>5. QED
  BY <1>4

\* The instance with this url becomes a new one.
Replaced(u, new) ==
    instances' = [k \in DOMAIN instances |-> IF instances[k].url = u THEN new[k] ELSE instances[k]]

\* An instance is changed, and keeps its url.
LEMMA ChangeKeeps ==
  ASSUME LBInv, NEW u, NEW new, Replaced(u, new),
         \A k \in DOMAIN instances : new[k] \in Instance /\ new[k].url = instances[k].url
  PROVE  /\ instances' \in Seq(Instance)
         /\ \A j, k \in DOMAIN instances' : instances'[j].url = instances'[k].url => j = k
<1>1. /\ instances \in Seq(Instance)
      /\ \A j, k \in DOMAIN instances : instances[j].url = instances[k].url => j = k
  BY DEF LBInv
<1>2. \A k \in DOMAIN instances : instances[k] \in Instance
  BY ONLY <1>1
<1>3. DOMAIN instances' = DOMAIN instances /\ instances' = [k \in DOMAIN instances |-> instances'[k]]
  BY DEF Replaced
<1>4. \A k \in DOMAIN instances : instances'[k] \in Instance /\ instances'[k].url = instances[k].url
  BY <1>2 DEF Replaced
<1>5. QED
  BY <1>1, <1>3, <1>4, ChangeFacts

\* When the instances change the shares start afresh.
LEMMA FreshCounted ==
  ASSUME served' = Fresh
  PROVE  SharesCounted' /\ served' \in [mode : Modes, picks : [Urls -> Nat]]
<1>1. served'.mode = "none" /\ "none" \notin Sharing /\ "none" \in Modes
  BY DEF Fresh, Sharing, Modes
<1>2. QED
  BY <1>1 DEF SharesCounted, Fresh

\* A registration.
LEMMA RegisterKeeps ==
  ASSUME LBInv, NEW u \in Urls, NEW w \in Weights, RegisterInstance(u, w)
  PROVE  LBInv'
<1>1. /\ instances \in Seq(Instance) /\ index \in Nat
      /\ \A j, k \in DOMAIN instances : instances[j].url = instances[k].url => j = k
  BY DEF LBInv
<1>2. \A k \in DOMAIN instances : instances[k] \in Instance
  BY ONLY <1>1
<1>3. index' = index /\ served' = Fresh
  BY DEF RegisterInstance
<1>4. /\ instances' \in Seq(Instance)
      /\ \A j, k \in DOMAIN instances' : instances'[j].url = instances'[k].url => j = k
  <2>1. CASE Registered(u)
    <3> DEFINE new == [k \in DOMAIN instances |-> [instances[k] EXCEPT !.weight = w]]
    <3>1. Replaced(u, new)
      BY <2>1 DEF RegisterInstance, Change, Replaced
    <3>2. \A k \in DOMAIN instances : new[k] \in Instance /\ new[k].url = instances[k].url
      BY <1>2 DEF Instance
    <3> HIDE DEF new
    <3>3. QED
      BY <3>1, <3>2, ChangeKeeps
  <2>2. CASE ~Registered(u)
    <3> DEFINE i == [url |-> u, healthy |-> TRUE, weight |-> w, slow |-> 0, open |-> 0]
    <3>1. i \in Instance /\ i.url = u
      BY DEF Instance
    <3>2. instances' = Append(instances, i)
      BY <2>2 DEF RegisterInstance
    <3>3. \A k \in DOMAIN instances : instances[k].url # i.url
      BY <2>2, <3>1 DEF Registered
    <3> HIDE DEF i
    <3>4. instances' \in Seq(Instance)
      BY ONLY <1>1, <3>1, <3>2
    <3> DEFINE n == Len(instances)
    <3>5. /\ n \in Nat /\ DOMAIN instances = 1 .. n /\ DOMAIN instances' = 1 .. (n + 1)
          /\ instances'[n + 1] = i /\ \A k \in 1 .. n : instances'[k] = instances[k]
      BY ONLY <1>1, <3>1, <3>2
    <3> HIDE DEF n
    <3>6. ASSUME NEW j \in DOMAIN instances', NEW k \in DOMAIN instances',
                 instances'[j].url = instances'[k].url
          PROVE  j = k
      <4>1. (j \in 1 .. n \/ j = n + 1) /\ (k \in 1 .. n \/ k = n + 1)
        BY <3>5
      <4>2. CASE j \in 1 .. n /\ k \in 1 .. n
        BY <1>1, <3>5, <3>6, <4>2
      <4>3. CASE j = n + 1 /\ k \in 1 .. n
        BY <3>3, <3>5, <3>6, <4>3
      <4>4. CASE j \in 1 .. n /\ k = n + 1
        BY <3>3, <3>5, <3>6, <4>4
      <4>5. QED
        BY <4>1, <4>2, <4>3, <4>4
    <3>7. QED
      BY <3>4, <3>6
  <2>3. QED
    BY <2>1, <2>2
<1>5. QED
  BY <1>1, <1>3, <1>4, FreshCounted DEF LBInv

\* A change of an instance's health.
LEMMA HealthKeeps ==
  ASSUME LBInv, NEW u \in Urls, NEW healthy \in BOOLEAN, NEW slow \in 0 .. 1,
         UpdateInstanceHealth(u, healthy, slow)
  PROVE  LBInv'
<1>1. instances \in Seq(Instance) /\ index \in Nat /\ index' = index /\ served' = Fresh
  BY DEF LBInv, UpdateInstanceHealth
<1>2. \A k \in DOMAIN instances : instances[k] \in Instance
  BY ONLY <1>1
<1> DEFINE new == [k \in DOMAIN instances |-> [instances[k] EXCEPT !.healthy = healthy, !.slow = slow]]
<1>3. Replaced(u, new)
  BY DEF UpdateInstanceHealth, Change, Replaced
<1>4. \A k \in DOMAIN instances : new[k] \in Instance /\ new[k].url = instances[k].url
  BY <1>2 DEF Instance
<1> HIDE DEF new
<1>5. /\ instances' \in Seq(Instance)
      /\ \A j, k \in DOMAIN instances' : instances'[j].url = instances'[k].url => j = k
  BY <1>3, <1>4, ChangeKeeps
<1>6. QED
  BY <1>1, <1>5, FreshCounted DEF LBInv

\* The picks so far stay counted when index and history stay, and the instances but for what
\* the shares do not depend on.
LEMMA CountedStays ==
  ASSUME SharesCounted, SameInstances, UNCHANGED <<index, served>>
  PROVE  SharesCounted'
<1>1. Healthy' = Healthy /\ \A x, mode, k : Taken(x, mode, k)' = Taken(x, mode, k)
  BY SameShares
<1>2. \A k \in Healthy : instances'[k].url = instances[k].url
  BY DEF SameInstances, Healthy
<1>3. ASSUME NEW mode \in Sharing, NEW x \in Nat, served'.mode = mode, index' = x
      PROVE  \E start \in Nat : /\ start <= x
                                /\ \A k \in Healthy' : served'.picks[instances'[k].url] =
                                       Taken(x, mode, k)' - Taken(start, mode, k)'
  <2>1. PICK start \in Nat : /\ start <= x
                             /\ \A k \in Healthy : served.picks[instances[k].url] =
                                    Taken(x, mode, k) - Taken(start, mode, k)
    BY <1>3 DEF SharesCounted
  <2>2. \A k \in Healthy' : served'.picks[instances'[k].url] =
                                Taken(x, mode, k)' - Taken(start, mode, k)'
    BY <1>1, <1>2, <2>1
  <2>3. QED
    BY <2>1, <2>2
<1>4. QED
  BY <1>3 DEF SharesCounted

\* The instance with this url has new open connections.
Opened(u, new) ==
    instances' = [k \in DOMAIN instances |->
        IF instances[k].url = u THEN [instances[k] EXCEPT !.open = new[k]] ELSE instances[k]]

\* A connection is opened, or closed.
LEMMA ConnectionKeeps ==
  ASSUME LBInv, NEW u, NEW new, \A k \in DOMAIN instances : new[k] \in Nat,
         Opened(u, new), UNCHANGED <<index, served>>
  PROVE  LBInv'
<1>1. instances \in Seq(Instance)
  BY DEF LBInv
<1>2. \A k \in DOMAIN instances : instances[k] \in Instance
  BY ONLY <1>1
<1> DEFINE edited == [k \in DOMAIN instances |-> [instances[k] EXCEPT !.open = new[k]]]
<1>3. Replaced(u, edited)
  BY DEF Replaced, Opened
<1>4. \A k \in DOMAIN instances : /\ edited[k] \in Instance /\ edited[k].url = instances[k].url
                                  /\ edited[k].healthy = instances[k].healthy
                                  /\ edited[k].weight = instances[k].weight
  BY <1>2 DEF Instance
<1> HIDE DEF edited
<1>5. /\ instances' \in Seq(Instance)
      /\ \A j, k \in DOMAIN instances' : instances'[j].url = instances'[k].url => j = k
  BY <1>3, <1>4, ChangeKeeps
<1>6. SameInstances
  BY <1>3, <1>4 DEF SameInstances, Replaced
<1>7. SharesCounted'
  BY <1>6, CountedStays DEF LBInv
<1>8. index' \in Nat /\ served' \in [mode : Modes, picks : [Urls -> Nat]]
  BY DEF LBInv
<1>9. QED
  BY <1>5, <1>7, <1>8 DEF LBInv

\* A pick that counts for no share starts the history afresh.
LEMMA OtherPickKeeps ==
  ASSUME LBInv, NEW mode, mode \in {"ipHash", "healthBased"}, NEW k \in Healthy,
         served' = [Fresh EXCEPT !.mode = mode, !.picks[instances[k].url] = 1],
         UNCHANGED <<instances, index>>
  PROVE  LBInv'
<1>1. served'.mode = mode /\ mode \notin Sharing /\ mode \in Modes
  BY DEF Fresh, Sharing, Modes
<1>2. served' \in [mode : Modes, picks : [Urls -> Nat]]
  BY <1>1 DEF Fresh
<1>3. SharesCounted'
  BY <1>1 DEF SharesCounted
<1>4. QED
  BY <1>2, <1>3 DEF LBInv

\* A round robin pick.
LEMMA RoundRobinKeeps ==
  ASSUME LBInv, RoundRobin
  PROVE  LBInv'
<1>1. PICK k \in Healthy :
          /\ Cardinality(Earlier(k)) = index % Cardinality(Healthy)
          /\ Picked("roundRobin", k) /\ index' = index + 1 /\ UNCHANGED instances
  BY DEF RoundRobin
<1>2. "roundRobin" \in Sharing
  BY DEF Sharing
<1> DEFINE mode == "roundRobin"
<1>3. /\ Width(mode, Earlier(k)) = Cardinality(Earlier(k))
      /\ Width(mode, Healthy) = Cardinality(Healthy) /\ Share(mode, k) = 1
  BY DEF Width, Share
<1>4. Width(mode, Earlier(k)) \in Nat
  BY <1>2, SharesSideBySide
<1> DEFINE place == index % Width(mode, Healthy)
           from == Width(mode, Earlier(k))
           wide == Share(mode, k)
<1>5. place = from
  BY <1>1, <1>3
<1> HIDE DEF place, from
<1>6. from \in Nat /\ wide = 1
  BY <1>3, <1>4 DEF from
<1> HIDE DEF wide
<1>7. from <= place /\ place < from + wide
  BY ONLY <1>5, <1>6
<1> HIDE DEF mode
<1>8. Picked(mode, k) /\ mode \in Sharing
  BY <1>1, <1>2 DEF mode
<1>9. QED
  BY <1>1, <1>7, <1>8, PickKeeps DEF place, from, wide

\* A weighted pick.
LEMMA WeightedKeeps ==
  ASSUME LBInv, WeightedRoundRobin
  PROVE  LBInv'
<1>1. PICK k \in Healthy :
          /\ index % TotalWeight(Healthy) >= TotalWeight(Earlier(k))
          /\ index % TotalWeight(Healthy) < TotalWeight(Earlier(k) \cup {k})
          /\ Picked("weighted", k) /\ index' = index + 1 /\ UNCHANGED instances
  BY DEF WeightedRoundRobin
<1>2. "weighted" \in Sharing /\ "weighted" # "roundRobin"
  BY DEF Sharing
<1> DEFINE mode == "weighted"
<1>3. /\ \A P : Width(mode, P) = TotalWeight(P)
      /\ Share(mode, k) = Weight[k]
  BY DEF Width, Share
<1>4. Width(mode, Earlier(k) \cup {k}) = Width(mode, Earlier(k)) + Share(mode, k)
  BY <1>2, SharesSideBySide
<1>5. /\ index % Width(mode, Healthy) >= Width(mode, Earlier(k))
      /\ index % Width(mode, Healthy) < Width(mode, Earlier(k) \cup {k})
  BY <1>1, <1>3
<1> HIDE DEF mode
<1>6. Picked(mode, k) /\ mode \in Sharing
  BY <1>1, <1>2 DEF mode
<1> DEFINE place == index % Width(mode, Healthy)
           from == Width(mode, Earlier(k))
           wide == Share(mode, k)
<1>7. from <= place /\ place < from + wide
  <2>1. index \in Nat /\ Width(mode, Healthy) \in Nat /\ from \in Nat
    BY <1>6, SharesSideBySide DEF LBInv
  <2>2. QED
    BY <1>4, <1>5, <2>1
<1>8. QED
  BY <1>1, <1>6, <1>7, PickKeeps

\* A connection is opened at the least loaded.
LEMMA LeastConnectionsKeeps ==
  ASSUME LBInv, LeastConnections
  PROVE  LBInv'
<1>1. PICK k \in Healthy :
          /\ instances' = Change(instances[k].url, LAMBDA i : [i EXCEPT !.open = @ + 1])
          /\ UNCHANGED <<index, served>>
  BY DEF LeastConnections
<1>2. \A j \in DOMAIN instances : instances[j].open \in Nat
  <2>1. instances \in Seq(Instance)
    BY DEF LBInv
  <2>2. \A j \in DOMAIN instances : instances[j] \in Instance
    BY ONLY <2>1
  <2>3. QED
    BY <2>2 DEF Instance
<1> DEFINE new == [j \in DOMAIN instances |-> instances[j].open + 1]
           u == instances[k].url
<1>3. instances' = [j \in DOMAIN instances |->
          IF instances[j].url = u THEN [instances[j] EXCEPT !.open = new[j]] ELSE instances[j]]
  BY <1>1 DEF Change
<1>4. \A j \in DOMAIN instances : new[j] \in Nat
  BY <1>2
<1> HIDE DEF new, u
<1>5. Opened(u, new)
  BY <1>3 DEF Opened
<1>6. QED
  BY <1>1, <1>4, <1>5, ConnectionKeeps

\* A connection is closed, if one is open.
LEMMA DecrementKeeps ==
  ASSUME LBInv, NEW u \in Urls, DecrementConnections(u)
  PROVE  LBInv'
<1>1. \A j \in DOMAIN instances : instances[j].open \in Nat
  <2>1. instances \in Seq(Instance)
    BY DEF LBInv
  <2>2. \A j \in DOMAIN instances : instances[j] \in Instance
    BY ONLY <2>1
  <2>3. QED
    BY <2>2 DEF Instance
<1> DEFINE new == [j \in DOMAIN instances |->
                      IF instances[j].open > 0 THEN instances[j].open - 1 ELSE instances[j].open]
<1>2. instances' = [j \in DOMAIN instances |->
          IF instances[j].url = u THEN [instances[j] EXCEPT !.open = new[j]] ELSE instances[j]]
  BY DEF DecrementConnections, Change
<1>3. \A j \in DOMAIN instances : new[j] \in Nat
  BY <1>1
<1> HIDE DEF new
<1>4. Opened(u, new)
  BY <1>2 DEF Opened
<1>5. QED
  BY <1>3, <1>4, ConnectionKeeps DEF DecrementConnections

\* Every step of the load balancer.
LEMMA BalancerSteps ==
  ASSUME LBInv, [LBNext]_lbVars
  PROVE  LBInv'
<1>1. CASE UNCHANGED lbVars
  <2>1. UNCHANGED <<index, served>> /\ instances' = instances
    BY <1>1 DEF lbVars
  <2>2. SharesCounted'
    BY <2>1, CountedStays DEF LBInv, SameInstances
  <2>3. QED
    BY <2>1, <2>2 DEF LBInv
<1>2. CASE \E u \in Urls, w \in Weights : RegisterInstance(u, w)
  BY <1>2, RegisterKeeps
<1>3. CASE \E u \in Urls, healthy \in BOOLEAN, slow \in 0 .. 1 : UpdateInstanceHealth(u, healthy, slow)
  BY <1>3, HealthKeeps
<1>4. CASE RoundRobin
  BY <1>4, RoundRobinKeeps
<1>5. CASE WeightedRoundRobin
  BY <1>5, WeightedKeeps
<1>6. CASE LeastConnections
  BY <1>6, LeastConnectionsKeeps
<1>7. CASE HealthBased
  BY <1>7, OtherPickKeeps DEF HealthBased
<1>8. CASE \E hash \in 0 .. 3 : IpHash(hash)
  BY <1>8, OtherPickKeeps DEF IpHash
<1>9. CASE \E u \in Urls : DecrementConnections(u)
  BY <1>9, DecrementKeeps
<1>10. QED
  BY <1>1, <1>2, <1>3, <1>4, <1>5, <1>6, <1>7, <1>8, <1>9 DEF LBNext

\* At the start no instance is registered.
LEMMA BalancerStarts == LBInit => LBInv
<1> SUFFICES ASSUME LBInit PROVE LBInv
  OBVIOUS
<1>1. instances = <<>> /\ index = 0 /\ served = Fresh
  BY DEF LBInit
<1>2. served.mode = "none" /\ "none" \notin Sharing /\ served \in [mode : Modes, picks : [Urls -> Nat]]
  BY <1>1 DEF Fresh, Sharing, Modes
<1>3. SharesCounted
  BY <1>2 DEF SharesCounted
<1>4. <<>> \in Seq(Instance) /\ DOMAIN <<>> = {}
  OBVIOUS
<1>5. QED
  BY <1>1, <1>2, <1>3, <1>4 DEF LBInv

\* Shares of v and w that were passed as often but for one are in proportion but for one round.
LEMMA InProportion ==
  ASSUME NEW a \in Int, NEW b \in Int, NEW rounds \in Int, NEW v \in Nat, NEW w \in Nat,
         a <= v * rounds + v, w * rounds <= b
  PROVE  a * w - b * v <= v * w
<1> DEFINE p == v * rounds
           q == w * rounds
           m == p * w
           t == v * w
<1>1. p \in Int /\ q \in Int /\ m \in Int /\ t \in Int
  OBVIOUS
<1>2. a * w <= (p + v) * w /\ q * v <= b * v
  BY <1>1
<1>3. (p + v) * w = m + t
  BY <1>1
<1>4. q * v = m
  OBVIOUS
<1>5. a * w \in Int /\ b * v \in Int
  OBVIOUS
<1> DEFINE aw == a * w
           bv == b * v
<1>6. aw <= m + t /\ m <= bv /\ aw \in Int /\ bv \in Int
  BY <1>2, <1>3, <1>4, <1>5
<1> HIDE DEF p, q, m, t, aw, bv
<1>7. aw - bv <= t
  BY ONLY <1>1, <1>6
<1>8. QED
  BY <1>7 DEF aw, bv, t

\* The picks of the healthy instances are those of as many rounds, but for one.
LEMMA SharesInRounds ==
  ASSUME LBInv, served.mode \in Sharing
  PROVE  \E rounds \in Int : \A j \in Healthy :
             LET a == served.picks[instances[j].url]
                 w == Share(served.mode, j)
             IN  a \in Int /\ w \in Nat /\ w * rounds <= a /\ a <= w * rounds + w
<1> DEFINE mode == served.mode
           n == Width(mode, Healthy)
<1>1. index \in Nat /\ n \in Nat /\ mode \in Sharing
  BY SharesSideBySide DEF LBInv
<1>2. \A j \in Healthy : /\ Width(mode, Earlier(j)) \in Nat /\ Share(mode, j) \in Nat
                         /\ Share(mode, j) > 0
                         /\ Width(mode, Earlier(j)) + Share(mode, j) <= n
  BY SharesSideBySide
<1>3. PICK start \in Nat : /\ start <= index
                           /\ \A j \in Healthy : served.picks[instances[j].url] =
                                  Taken(index, mode, j) - Taken(start, mode, j)
  BY <1>1 DEF LBInv, SharesCounted
<1>4. \A x, j : Taken(x, mode, j) = Turns(x, Width(mode, Earlier(j)), Share(mode, j), n)
  BY DEF Taken
<1> HIDE DEF mode, n
<1>5. CASE n = 0
  <2>1. Healthy = {}
    BY <1>1, <1>2, <1>5
  <2>2. QED
    BY <2>1 DEF mode
<1>6. CASE n > 0
  <2>1. PICK rounds \in Int : \A s \in Nat, w \in Nat : s + w <= n =>
            /\ w * rounds <= Turns(index, s, w, n) - Turns(start, s, w, n)
            /\ Turns(index, s, w, n) - Turns(start, s, w, n) <= w * rounds + w
    BY <1>1, <1>3, <1>6, TurnsInRounds
  <2>2. \A s \in Nat, w \in Nat : s + w <= n =>
            Turns(index, s, w, n) \in Nat /\ Turns(start, s, w, n) \in Nat
    BY <1>1, <1>3, <1>6, TurnsCount
  <2>3. ASSUME NEW j \in Healthy
        PROVE  /\ served.picks[instances[j].url] \in Int /\ Share(mode, j) \in Nat
               /\ Share(mode, j) * rounds <= served.picks[instances[j].url]
               /\ served.picks[instances[j].url] <= Share(mode, j) * rounds + Share(mode, j)
    <3> DEFINE s == Width(mode, Earlier(j))
               w == Share(mode, j)
               a == served.picks[instances[j].url]
    <3>1. s \in Nat /\ w \in Nat /\ s + w <= n
      BY <1>2
    <3>2. a = Turns(index, s, w, n) - Turns(start, s, w, n)
      BY <1>3, <1>4
    <3> HIDE DEF s, w, a
    <3>3. a \in Int /\ w * rounds <= a /\ a <= w * rounds + w
      BY <2>1, <2>2, <3>1, <3>2
    <3>4. QED
      BY <3>1, <3>3 DEF w, a
  <2>4. QED
    BY <2>3 DEF mode
<1>7. QED
  BY <1>1, <1>5, <1>6

\* The invariant makes the shares fair.
LEMMA SharesAreFair == LBInv => FairShare
<1> SUFFICES ASSUME LBInv, NEW j \in Healthy, NEW k \in Healthy
             PROVE  LET a == served.picks[instances[j].url]
                        b == served.picks[instances[k].url]
                    IN  CASE served.mode = "roundRobin" -> a - b <= 1
                          [] served.mode = "weighted" -> a * Weight[k] - b * Weight[j] <= Weight[j] * Weight[k]
                          [] OTHER -> TRUE
  BY DEF FairShare
<1> DEFINE a == served.picks[instances[j].url]
           b == served.picks[instances[k].url]
<1>1. CASE served.mode = "roundRobin"
  <2>1. Share(served.mode, j) = 1 /\ Share(served.mode, k) = 1 /\ served.mode \in Sharing
    BY <1>1 DEF Share, Sharing
  <2>2. PICK rounds \in Int : /\ a \in Int /\ a <= 1 * rounds + 1
                              /\ b \in Int /\ 1 * rounds <= b
    BY <2>1, SharesInRounds
  <2> HIDE DEF a, b
  <2>3. a - b <= 1
    BY ONLY <2>2
  <2>4. QED
    BY <1>1, <2>3 DEF a, b
<1>2. CASE served.mode = "weighted"
  <2> DEFINE v == Weight[j]
             w == Weight[k]
  <2>1. Share(served.mode, j) = v /\ Share(served.mode, k) = w /\ served.mode \in Sharing
    BY <1>2 DEF Share, Sharing
  <2>2. PICK rounds \in Int : /\ a \in Int /\ v \in Nat /\ a <= v * rounds + v
                              /\ b \in Int /\ w \in Nat /\ w * rounds <= b
    BY <2>1, SharesInRounds
  <2> HIDE DEF a, b, v, w
  <2>3. a * w - b * v <= v * w
    BY <2>2, InProportion
  <2>4. QED
    BY <1>2, <2>3 DEF a, b, v, w
<1>3. CASE served.mode \notin {"roundRobin", "weighted"}
  BY <1>3
<1>4. QED
  BY <1>1, <1>2, <1>3

\* However the two forms of round robin follow one another, whatever was registered and whichever
\* instances were healthy before: since the last change of the instances or of the form, any two
\* healthy ones were picked equally often but for one, or in proportion to their weights but for
\* one round.
THEOREM SharesStayFair == LBSpec => []FairShare
<1>1. LBInv /\ [LBNext]_lbVars => LBInv'
  BY BalancerSteps
<1>2. QED
  BY <1>1, BalancerStarts, SharesAreFair, PTL DEF LBSpec

=============================================================================
