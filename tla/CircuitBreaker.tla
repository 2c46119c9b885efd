--------------------------- MODULE CircuitBreaker ---------------------------
(***************************************************************************)
(* The circuit breaker of the API gateway (CircuitBreakerService), for one *)
(* backend service.  The breaker keeps one row of circuit_breaker_states;  *)
(* every operation reads that row, awaits, and then writes a part of it    *)
(* back, so the decision it writes rests on a snapshot that other callers  *)
(* may have overtaken.                                                     *)
(*                                                                         *)
(* nextRetryAt is kept as the time that is left until it (0 = reached):    *)
(* the code only ever compares it with the current time.                   *)
(***************************************************************************)
EXTENDS Integers

CONSTANTS
    Callers,            \* requests in flight through the gateway
    FailureThreshold,   \* defaultConfig.failureThreshold
    SuccessThreshold,   \* defaultConfig.successThreshold
    Timeout,            \* defaultConfig.timeout, in ticks
    MaxSuccess,         \* bound: successes counted in one row
    NoRow,              \* the service has no row yet
    Null                \* the SQL NULL of nextRetryAt

ASSUME ThresholdsPositive ==
    /\ FailureThreshold \in Nat \ {0}
    /\ SuccessThreshold \in Nat \ {0}
    /\ Timeout \in Nat \ {0}
    /\ MaxSuccess \in Nat

States == {"CLOSED", "OPEN", "HALF_OPEN"}

\* The time left until nextRetryAt, or no such time.
RetryTimes == (0 .. Timeout) \cup {Null}

Row == [state : States, failureCount : Nat, successCount : Nat,
        nextRetryAt : RetryTimes]

ASSUME SentinelsDistinct == NoRow \notin Row /\ Null \notin 0 .. Timeout

VARIABLES
    row,    \* the row of this service
    pc,     \* where each caller is
    snap    \* the row recordSuccess or recordFailure read, until it has written

vars == <<row, pc, snap>>

\* The row getState creates, and upsert's create branch.
InitialRow == [state |-> "CLOSED", failureCount |-> 0, successCount |-> 0,
               nextRetryAt |-> Null]

Init ==
    /\ row = NoRow
    /\ pc = [c \in Callers |-> "idle"]
    /\ snap = [c \in Callers |-> InitialRow]

-----------------------------------------------------------------------------
(***************************************************************************)
(* The three transitions, each a partial update of the row as it is when   *)
(* the write arrives.                                                      *)
(***************************************************************************)
TransitionToOpen_NoRetryTime(r) ==    \* mutant: forgets nextRetryAt
    [r EXCEPT !.state = "OPEN"]

TransitionToOpen(r) ==
    [r EXCEPT !.state = "OPEN", !.nextRetryAt = Timeout]

TransitionToHalfOpen(r) ==
    [r EXCEPT !.state = "HALF_OPEN", !.successCount = 0, !.failureCount = 0]

TransitionToClosed(r) ==
    [r EXCEPT !.state = "CLOSED", !.failureCount = 0, !.successCount = 0,
              !.nextRetryAt = Null]

\* What recordSuccess writes over r after it read s.
AfterSuccess(s, r) ==
    IF s.state = "HALF_OPEN"
    THEN IF s.successCount + 1 >= SuccessThreshold
         THEN TransitionToClosed(r)
         ELSE [r EXCEPT !.successCount = s.successCount + 1]
    ELSE [r EXCEPT !.failureCount = 0, !.successCount = s.successCount + 1]

AfterFailure_Exceeds(s, r) ==    \* mutant: > for >=
    IF s.state = "HALF_OPEN" \/ s.failureCount + 1 > FailureThreshold
    THEN TransitionToOpen(r)
    ELSE [r EXCEPT !.failureCount = s.failureCount + 1]

\* What recordFailure writes over r after it read s.
AfterFailure(s, r) ==
    IF s.state = "HALF_OPEN" \/ s.failureCount + 1 >= FailureThreshold
    THEN TransitionToOpen(r)
    ELSE [r EXCEPT !.failureCount = s.failureCount + 1]

-----------------------------------------------------------------------------
Goto(c, label) == pc' = [pc EXCEPT ![c] = label]

Admit_NeverRetries(c, r) ==    \* mutant: an OPEN breaker is never tried again
    \/ r.state # "OPEN" /\ Goto(c, "calling")
    \/ r.state = "OPEN" /\ Goto(c, "idle")

\* canExecute's verdict on the row r it read.
Admit(c, r) ==
    \/ /\ r.state \in {"CLOSED", "HALF_OPEN"}
       /\ Goto(c, "calling")
    \/ /\ r.state = "OPEN"
       /\ r.nextRetryAt = 0
       /\ Goto(c, "halfOpening")
    \/ /\ r.state = "OPEN"
       /\ r.nextRetryAt # 0
       /\ Goto(c, "idle")

\* canExecute: getState finds the row.
CanExecute(c) ==
    /\ pc[c] = "idle"
    /\ row # NoRow
    /\ Admit(c, row)
    /\ UNCHANGED <<row, snap>>

CanExecuteNoRow_NoCreate(c) ==    \* mutant: admits without creating the row
    /\ pc[c] = "idle"
    /\ row = NoRow
    /\ Goto(c, "calling")
    /\ UNCHANGED <<row, snap>>

\* canExecute: getState finds no row and goes on to create it.
CanExecuteNoRow(c) ==
    /\ pc[c] = "idle"
    /\ row = NoRow
    /\ Goto(c, "creating")
    /\ UNCHANGED <<row, snap>>

\* getState's create; serviceName is unique, so a second create throws.
CreateRow(c) ==
    /\ pc[c] = "creating"
    /\ \/ /\ row = NoRow
          /\ row' = InitialRow
          /\ Goto(c, "calling")
       \/ /\ row # NoRow
          /\ row' = row
          /\ Goto(c, "idle")
    /\ UNCHANGED snap

\* canExecute: the write of transitionToHalfOpen, then the request proceeds.
HalfOpen(c) ==
    /\ pc[c] = "halfOpening"
    /\ row' = TransitionToHalfOpen(row)
    /\ Goto(c, "calling")
    /\ UNCHANGED snap

\* The backend answers; recordSuccess or recordFailure reads the row.
BackendAnswers(c) ==
    /\ pc[c] = "calling"
    /\ \/ row.successCount < MaxSuccess /\ Goto(c, "succeeded")
       \/ Goto(c, "failed")
    /\ snap' = [snap EXCEPT ![c] = row]
    /\ UNCHANGED row

RecordSuccess(c) ==
    /\ pc[c] = "succeeded"
    /\ row' = AfterSuccess(snap[c], row)
    /\ Goto(c, "idle")
    /\ snap' = [snap EXCEPT ![c] = InitialRow]

RecordFailure(c) ==
    /\ pc[c] = "failed"
    /\ row' = AfterFailure(snap[c], row)
    /\ Goto(c, "idle")
    /\ snap' = [snap EXCEPT ![c] = InitialRow]

\* An administrator resets the breaker: an upsert.
Reset ==
    /\ row' = IF row = NoRow THEN InitialRow ELSE TransitionToClosed(row)
    /\ UNCHANGED <<pc, snap>>

\* A tick of the clock brings nextRetryAt nearer.
Tick ==
    /\ row # NoRow
    /\ row.nextRetryAt \in 1 .. Timeout
    /\ row' = [row EXCEPT !.nextRetryAt = @ - 1]
    /\ UNCHANGED <<pc, snap>>

Step(c) ==
    \/ CanExecute(c)
    \/ CanExecuteNoRow(c)
    \/ CreateRow(c)
    \/ HalfOpen(c)
    \/ BackendAnswers(c)
    \/ RecordSuccess(c)
    \/ RecordFailure(c)

Next ==
    \/ \E c \in Callers : Step(c)
    \/ Reset
    \/ Tick

\* The breaker as requests alone drive it, with no administrator.
NextUnattended ==
    \/ \E c \in Callers : Step(c)
    \/ Tick

Spec == Init /\ [][Next]_vars

UnattendedSpec == Init /\ [][NextUnattended]_vars

(***************************************************************************)
(* Time passes, and every caller keeps sending requests and finishes the   *)
(* ones it began.  An administrator need not ever reset the breaker.       *)
(***************************************************************************)
FairSpec == Spec /\ WF_vars(Tick) /\ \A c \in Callers : WF_vars(Step(c))

-----------------------------------------------------------------------------
Labels == {"idle", "creating", "halfOpening", "calling", "succeeded", "failed"}

\* Every variable has its type, and only a caller that met no row, or has yet
\* to look, can be on its way while the row is missing.
TypeOK ==
    /\ row \in Row \cup {NoRow}
    /\ pc \in [Callers -> Labels]
    /\ snap \in [Callers -> Row]
    /\ row = NoRow => \A c \in Callers : pc[c] \in {"idle", "creating"}

(***************************************************************************)
(* However the read-then-write pairs of the callers interleave, an OPEN    *)
(* row names the time of its next retry.  canExecute rejects every request *)
(* on an OPEN row whose nextRetryAt is null, so without this the breaker   *)
(* would never let a request through again.                                *)
(***************************************************************************)
OpenHasRetryTime ==
    row # NoRow => (row.state = "OPEN" => row.nextRetryAt # Null)

(***************************************************************************)
(* Lost updates make recordFailure count too low, never too high: no       *)
(* interleaving leaves a row whose failureCount has reached the threshold, *)
(* so the step that reaches it is always the one that opens the breaker.   *)
(***************************************************************************)
FailureCountBelowThreshold ==
    row # NoRow => row.failureCount < FailureThreshold

(***************************************************************************)
(* The flow the service's comment documents: an edge of the state machine  *)
(* is one of the four it lists, and OPEN is left only after the timeout.   *)
(***************************************************************************)
DocumentedEdge ==
    row # NoRow /\ row'.state # row.state =>
        \/ row.state = "CLOSED" /\ row'.state = "OPEN"
        \/ row.state = "OPEN" /\ row'.state = "HALF_OPEN" /\ row.nextRetryAt = 0
        \/ row.state = "HALF_OPEN" /\ row'.state \in {"CLOSED", "OPEN"}

DocumentedFlow == [][DocumentedEdge]_vars

(***************************************************************************)
(* An OPEN breaker is eventually left: canExecute, called again and again, *)
(* moves it on once the timeout has passed.                                *)
(***************************************************************************)
IsOpen == row # NoRow /\ row.state = "OPEN"

OpenIsLeft == IsOpen ~> ~IsOpen

=============================================================================
