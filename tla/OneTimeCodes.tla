---------------------------- MODULE OneTimeCodes ----------------------------
(***************************************************************************)
(* AuthService: the six-digit codes of one user, for verifying the e-mail   *)
(* address and for resetting the password, and the web token that verifies  *)
(* the address too.  Every request reads the user's row, decides, awaits    *)
(* (the password's hash, the next statement) and writes; Handlers are the   *)
(* requests that overlap.  Codes are numbered in the order they are stored; *)
(* a guess is a number, 0 being a guess that no code has.  Mail, Clerk's    *)
(* metadata and the tokens handed out follow the write and change nothing   *)
(* here.                                                                    *)
(***************************************************************************)
EXTENDS Integers, FiniteSets

CONSTANTS Handlers,     \* requests being served
          MaxCodes,     \* bound: codes issued for each purpose
          MaxAttempts,  \* wrong guesses after which a code is refused (5)
          MaxGuesses    \* bound: wrong guesses against one code

ASSUME CodesAssumption ==
    /\ IsFiniteSet(Handlers)
    /\ MaxCodes \in Nat \ {0}
    /\ MaxAttempts \in Nat \ {0}
    /\ MaxGuesses \in Nat

VARIABLES verification, \* columns emailVerif*: verified, code, expired, used, attempts, recent, token
          reset,        \* columns passwordReset* and password (the code that set it, 0 at first)
          at,           \* at[h]: the await request h is at
          job,          \* job[h]: the code it presented (or guessed against), or the count to write
          issued,       \* history: codes stored, per purpose
          grants,       \* history: what each code granted, per purpose
          wrong         \* history: wrong guesses read against the present verification code

vars == <<verification, reset, at, job, issued, grants, wrong>>

Codes == 1 .. MaxCodes
Guesses == 0 .. MaxCodes
None == 0
Places == {"idle", "verifyCount", "verifyApply", "tokenApply", "resendWrite",
           "forgotWrite", "resetReread", "resetCount", "resetApply"}

\* register stores the first verification code and the web token.
Init ==
    /\ verification = [verified |-> FALSE, code |-> 1, expired |-> FALSE, used |-> FALSE,
                       attempts |-> 0, recent |-> TRUE, token |-> "valid"]
    /\ reset = [code |-> None, expired |-> TRUE, used |-> FALSE, attempts |-> 0,
                recent |-> FALSE, password |-> 0]
    /\ at = [h \in Handlers |-> "idle"]
    /\ job = [h \in Handlers |-> 0]
    /\ issued = [verification |-> 1, reset |-> 0]
    /\ grants = [verification |-> [c \in Codes |-> 0], reset |-> [c \in Codes |-> 0]]
    /\ wrong = 0

Go(h, place, value) ==
    /\ at' = [at EXCEPT ![h] = place]
    /\ job' = [job EXCEPT ![h] = value]

Done(h) == Go(h, "idle", 0)

\* The checks both purposes make of the row whose code was presented.
Usable(row) == ~row.used /\ ~row.expired /\ row.attempts < MaxAttempts

-----------------------------------------------------------------------------
(* E-mail verification.                                                     *)

\* A row is looked for with the address, the code and emailVerified: false.
VerifyEmailWithCode(h, g) ==
    LET match == g # None /\ verification.code = g /\ ~verification.verified
    IN  /\ at[h] = "idle"
        /\ \/ /\ match /\ Usable(verification)
              /\ Go(h, "verifyApply", g)
              /\ UNCHANGED wrong
           \/ /\ match /\ ~Usable(verification)
              /\ Done(h)
              /\ UNCHANGED wrong
           \/ /\ ~match
              /\ wrong < MaxGuesses
              /\ wrong' = wrong + 1
              /\ Go(h, "verifyCount", issued.verification)
        /\ UNCHANGED <<verification, reset, issued, grants>>

\* One statement: attempts + 1 where emailVerified is still false.
VerifyCount_ReadThenWrite(h) ==
    /\ at[h] = "verifyCount"
    /\ verification' = [verification EXCEPT !.attempts = 1]
    /\ Done(h)
    /\ UNCHANGED <<reset, issued, grants, wrong>>

VerifyCount(h) ==
    /\ at[h] = "verifyCount"
    /\ verification' = IF verification.verified THEN verification
                       ELSE [verification EXCEPT !.attempts = @ + 1]
    /\ Done(h)
    /\ UNCHANGED <<reset, issued, grants, wrong>>

VerifyApply_KeepsCode(h) ==
    /\ at[h] = "verifyApply"
    /\ verification' = [verification EXCEPT !.attempts = 0]
    /\ grants' = [grants EXCEPT !.verification[job[h]] = @ + 1]
    /\ Done(h)
    /\ UNCHANGED <<reset, issued, wrong>>

VerifyApply(h) ==
    /\ at[h] = "verifyApply"
    /\ verification' = [verification EXCEPT
           !.verified = TRUE, !.code = None, !.expired = TRUE, !.used = TRUE,
           !.attempts = 0, !.token = "none"]
    /\ grants' = [grants EXCEPT !.verification[job[h]] = @ + 1]
    /\ Done(h)
    /\ UNCHANGED <<reset, issued, wrong>>

\* The link of the mail: it leaves the code's columns alone.
VerifyEmail(h) ==
    /\ at[h] = "idle"
    /\ ~verification.verified /\ verification.token = "valid"
    /\ Go(h, "tokenApply", 0)
    /\ UNCHANGED <<verification, reset, issued, grants, wrong>>

TokenApply(h) ==
    /\ at[h] = "tokenApply"
    /\ verification' = [verification EXCEPT !.verified = TRUE, !.token = "none"]
    /\ Done(h)
    /\ UNCHANGED <<reset, issued, grants, wrong>>

\* Both resend operations: one minute after the last code, another one.
ResendVerificationCode(h) ==
    /\ at[h] = "idle"
    /\ ~verification.verified /\ ~verification.recent
    /\ Go(h, "resendWrite", 0)
    /\ UNCHANGED <<verification, reset, issued, grants, wrong>>

ResendVerificationEmail(h) ==
    /\ at[h] = "idle"
    /\ ~verification.verified /\ ~verification.recent
    /\ Go(h, "resendWrite", 0)
    /\ UNCHANGED <<verification, reset, issued, grants, wrong>>

ResendWrite(h) ==
    /\ at[h] = "resendWrite"
    /\ issued.verification < MaxCodes
    /\ issued' = [issued EXCEPT !.verification = @ + 1]
    /\ verification' = [verification EXCEPT
           !.code = issued'.verification, !.expired = FALSE, !.used = FALSE,
           !.attempts = 0, !.recent = TRUE]
    /\ wrong' = 0
    /\ Done(h)
    /\ UNCHANGED <<reset, grants>>

-----------------------------------------------------------------------------
(* Password reset.                                                          *)

ForgotPassword(h) ==
    /\ at[h] = "idle"
    /\ ~reset.recent
    /\ Go(h, "forgotWrite", 0)
    /\ UNCHANGED <<verification, reset, issued, grants, wrong>>

ForgotWrite(h) ==
    /\ at[h] = "forgotWrite"
    /\ issued.reset < MaxCodes
    /\ issued' = [issued EXCEPT !.reset = @ + 1]
    /\ reset' = [reset EXCEPT
           !.code = issued'.reset, !.expired = FALSE, !.used = FALSE,
           !.attempts = 0, !.recent = TRUE]
    /\ Done(h)
    /\ UNCHANGED <<verification, grants, wrong>>

\* A right code is only confirmed; a wrong one is counted by a second read
\* of the row and a write of what was read plus one.
VerifyResetCode(h, g) ==
    /\ at[h] = "idle"
    /\ \/ g # None /\ reset.code = g /\ Done(h)
       \/ ~(g # None /\ reset.code = g) /\ reset.attempts < MaxGuesses /\ Go(h, "resetReread", 0)
    /\ UNCHANGED <<verification, reset, issued, grants, wrong>>

ResetReread_CountsDown(h) ==
    /\ at[h] = "resetReread"
    /\ IF reset.code # None THEN Go(h, "resetCount", reset.attempts - 1) ELSE Done(h)
    /\ UNCHANGED <<verification, reset, issued, grants, wrong>>

ResetReread(h) ==
    /\ at[h] = "resetReread"
    /\ IF reset.code # None THEN Go(h, "resetCount", reset.attempts + 1) ELSE Done(h)
    /\ UNCHANGED <<verification, reset, issued, grants, wrong>>

ResetCount(h) ==
    /\ at[h] = "resetCount"
    /\ reset' = [reset EXCEPT !.attempts = job[h]]
    /\ Done(h)
    /\ UNCHANGED <<verification, issued, grants, wrong>>

\* The code is checked, the new password hashed, the row written by its id.
ResetPassword(h, g) ==
    /\ at[h] = "idle"
    /\ g # None /\ reset.code = g
    /\ IF Usable(reset) THEN Go(h, "resetApply", g) ELSE Done(h)
    /\ UNCHANGED <<verification, reset, issued, grants, wrong>>

ResetApply_KeepsCode(h) ==
    /\ at[h] = "resetApply"
    /\ reset' = [reset EXCEPT !.password = job[h], !.attempts = 0, !.recent = FALSE]
    /\ grants' = [grants EXCEPT !.reset[job[h]] = @ + 1]
    /\ Done(h)
    /\ UNCHANGED <<verification, issued, wrong>>

ResetApply(h) ==
    /\ at[h] = "resetApply"
    /\ reset' = [code |-> None, expired |-> TRUE, used |-> TRUE, attempts |-> 0,
                 recent |-> FALSE, password |-> job[h]]
    /\ grants' = [grants EXCEPT !.reset[job[h]] = @ + 1]
    /\ Done(h)
    /\ UNCHANGED <<verification, issued, wrong>>

-----------------------------------------------------------------------------
(* Time, and statements that fail.                                          *)

\* isCodeExpired, isTokenExpired: the ten minutes or the day are over.
VerificationTime ==
    /\ \/ verification' = [verification EXCEPT !.recent = FALSE]
       \/ verification' = [verification EXCEPT !.expired = TRUE, !.recent = FALSE]
       \/ /\ verification.token = "valid"
          /\ verification' = [verification EXCEPT !.token = "expired"]
    /\ UNCHANGED <<reset, at, job, issued, grants, wrong>>

ResetTime ==
    /\ \/ reset' = [reset EXCEPT !.recent = FALSE]
       \/ reset' = [reset EXCEPT !.expired = TRUE, !.recent = FALSE]
    /\ UNCHANGED <<verification, at, job, issued, grants, wrong>>

\* A guess whose increment fails is not answered as wrong, but with "Email
\* verification failed. Please try again.", so it is taken back.
Fail(h) ==
    /\ at[h] # "idle"
    /\ wrong' = IF at[h] = "verifyCount" /\ job[h] = issued.verification THEN wrong - 1 ELSE wrong
    /\ Done(h)
    /\ UNCHANGED <<verification, reset, issued, grants>>

VerificationNext ==
    \/ \E h \in Handlers :
          \/ \E g \in Guesses : VerifyEmailWithCode(h, g)
          \/ VerifyCount(h) \/ VerifyApply(h)
          \/ VerifyEmail(h) \/ TokenApply(h)
          \/ ResendVerificationCode(h) \/ ResendVerificationEmail(h) \/ ResendWrite(h)
          \/ Fail(h)
    \/ VerificationTime

ResetNext ==
    \/ \E h \in Handlers :
          \/ ForgotPassword(h) \/ ForgotWrite(h)
          \/ \E g \in Guesses : VerifyResetCode(h, g) \/ ResetPassword(h, g)
          \/ ResetReread(h) \/ ResetCount(h) \/ ResetApply(h)
          \/ Fail(h)
    \/ ResetTime

Next == VerificationNext \/ ResetNext

Spec == Init /\ [][Next]_vars

-----------------------------------------------------------------------------
(***************************************************************************)
(* Types of the columns, of the requests and of the histories.             *)
(***************************************************************************)
TypeOK ==
    /\ verification \in [verified : BOOLEAN, code : Guesses, expired : BOOLEAN, used : BOOLEAN,
                         attempts : Nat, recent : BOOLEAN, token : {"none", "valid", "expired"}]
    /\ reset \in [code : Guesses, expired : BOOLEAN, used : BOOLEAN, attempts : Nat,
                  recent : BOOLEAN, password : Guesses]
    /\ at \in [Handlers -> Places]
    /\ job \in [Handlers -> Nat]
    /\ issued \in [verification : Guesses, reset : Guesses]
    /\ grants \in [verification : [Codes -> Nat], reset : [Codes -> Nat]]
    /\ wrong \in Nat

(***************************************************************************)
(* The documented limit on guesses is kept under overlap: while an address *)
(* is not verified, every wrong guess against the present code has been    *)
(* counted, or is the increment of a request still being served.  So a     *)
(* right guess that is accepted came after fewer than MaxAttempts +        *)
(* Cardinality(Handlers) wrong ones.                                       *)
(***************************************************************************)
EveryGuessCounted ==
    ~verification.verified =>
        wrong <= verification.attempts + Cardinality({h \in Handlers : at[h] = "verifyCount"})

(***************************************************************************)
(* Refinement: each purpose implements OneTimeCode.  A verification code   *)
(* is in force while its address is unverified and fewer than MaxAttempts  *)
(* wrong guesses are counted: once refused it stays refused.  Of the reset *)
(* code the lock is not part of the promise: ResetCount may write a count  *)
(* smaller than the one stored.                                            *)
(***************************************************************************)
AcceptedAt(place) == [h \in Handlers |-> IF at[h] = place THEN job[h] ELSE 0]

LiveVerification ==
    IF verification.verified \/ ~Usable(verification) THEN 0 ELSE verification.code

LiveReset == IF reset.used \/ reset.expired THEN 0 ELSE reset.code

VerificationCode == INSTANCE OneTimeCode WITH
    live <- LiveVerification,
    issued <- issued.verification,
    accepted <- AcceptedAt("verifyApply"),
    grants <- grants.verification

ResetCode == INSTANCE OneTimeCode WITH
    live <- LiveReset,
    issued <- issued.reset,
    accepted <- AcceptedAt("resetApply"),
    grants <- grants.reset

ImplementsVerificationCode == VerificationCode!Spec
ImplementsResetCode == ResetCode!Spec

(***************************************************************************)
(* A code is used once per overlap, never again: requests that were        *)
(* accepted together may each verify the address or set the password, but  *)
(* a code grants no more often than there are requests at once.            *)
(***************************************************************************)
GrantsBounded ==
    \A c \in Codes :
        /\ grants.verification[c] <= Cardinality(Handlers)
        /\ grants.reset[c] <= Cardinality(Handlers)

(***************************************************************************)
(* "Maximum 5 failed attempts before lockout", the verify-reset-code       *)
(* route says: a reset code with that many counted attempts has no fewer   *)
(* later, until the next code.                                             *)
(***************************************************************************)
LockoutLasts ==
    [][(reset.attempts >= MaxAttempts /\ reset'.code = reset.code /\ reset.code # None)
          => reset'.attempts >= MaxAttempts]_vars

==============================================================================
