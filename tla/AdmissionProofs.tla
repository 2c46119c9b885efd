----------------------------- MODULE AdmissionProofs -----------------------------
(***************************************************************************)
(* Proofs about who gets in: OneTimeCodes, TwoFactor, Accounts and Access. *)
(* The four share no state; each has its own specification and its own     *)
(* inductive invariant.  OneTimeCodes is proved for any number of requests *)
(* at once, any limit of attempts and any number of codes: types, that     *)
(* every wrong guess is counted, that a code's grants are bounded by the   *)
(* requests at once, and that both purposes implement OneTimeCode.         *)
(***************************************************************************)
EXTENDS OneTimeCodes, TwoFactor, Accounts, Access, FiniteSetTheorems, TLAPS

-----------------------------------------------------------------------------
(***************************************************************************)
(* One-time codes.                                                         *)
(***************************************************************************)

\* The requests at a place with a value, in given states of at and job.
Held(a, j, place, v) == {h \in Handlers : a[h] = place /\ j[h] = v}

\* Requests about to count a wrong guess of the present code, and those
\* accepted with a code.
Counting == Held(at, job, "verifyCount", issued.verification)
Verifying(c) == Held(at, job, "verifyApply", c)
Resetting(c) == Held(at, job, "resetApply", c)

\* A request that was accepted or refused holds a code that was stored.
HoldsCode ==
    \A h \in Handlers :
        /\ at[h] = "verifyCount" => job[h] <= issued.verification
        /\ at[h] = "verifyApply" => job[h] \in Codes
        /\ at[h] = "resetApply" => job[h] \in Codes /\ job[h] <= issued.reset

\* Every wrong guess of the present code is an attempt or about to be one.
GuessesAccounted ==
    /\ Cardinality(Counting) <= wrong
    /\ ~verification.verified => wrong <= verification.attempts + Cardinality(Counting)

\* Nobody is accepted any more once an address is verified.
VerificationGrants ==
    \A c \in Codes :
        /\ ~verification.verified => grants.verification[c] = 0
        /\ grants.verification[c] + Cardinality(Verifying(c)) <= Cardinality(Handlers)

\* Nobody is accepted any more with a code that has set a password.
ResetGrants ==
    /\ reset.code <= issued.reset
    /\ \A c \in Codes :
        /\ c = reset.code \/ c > issued.reset => grants.reset[c] = 0
        /\ grants.reset[c] + Cardinality(Resetting(c)) <= Cardinality(Handlers)

\* The inductive invariant.
CodesInv == TypeOK /\ HoldsCode /\ GuessesAccounted /\ VerificationGrants /\ ResetGrants

-----------------------------------------------------------------------------
(***************************************************************************)
(* Counting requests: what one request does to a set of held values.       *)
(***************************************************************************)

\* The requests at a place are finitely many, no more than there are.
LEMMA HeldBounded ==
    ASSUME NEW a, NEW j, NEW place, NEW v
    PROVE  /\ IsFiniteSet(Held(a, j, place, v))
           /\ Cardinality(Held(a, j, place, v)) \in Nat
           /\ Cardinality(Held(a, j, place, v)) <= Cardinality(Handlers)
           /\ Cardinality(Handlers) \in Nat
<1>1. Held(a, j, place, v) \in SUBSET Handlers
  BY DEF Held
<1>2. QED
  BY <1>1, FS_Subset, FS_CardinalityType, CodesAssumption

-----------------------------------------------------------------------------
(***************************************************************************)
(* What a step keeps that does not touch a purpose's columns.              *)
(***************************************************************************)

\* A request that goes on takes one away from where it was and adds one to
\* where it goes.
LEMMA GoMoves ==
    ASSUME TypeOK, NEW h \in Handlers, NEW p, NEW w, Go(h, p, w), NEW place, NEW v
    PROVE  /\ Cardinality(Held(at, job, place, v)) \in Nat
           /\ Cardinality(Held(at', job', place, v))
                = Cardinality(Held(at, job, place, v)) + (IF p = place /\ w = v THEN 1 ELSE 0)
                                                       - (IF at[h] = place /\ job[h] = v THEN 1 ELSE 0)
<1> DEFINE now == Held(at, job, place, v)
           next == Held(at', job', place, v)
           from == IF at[h] = place /\ job[h] = v THEN 1 ELSE 0
           to == IF p = place /\ w = v THEN 1 ELSE 0
<1>0. /\ at \in [Handlers -> Places] /\ job \in [Handlers -> Nat]
      /\ at' = [at EXCEPT ![h] = p] /\ job' = [job EXCEPT ![h] = w]
  BY DEF TypeOK, Go
<1>1. from = IF h \in now THEN 1 ELSE 0
  BY DEF Held
<1>2. to = 1 => next = now \cup {h}
  BY <1>0 DEF Held
<1>3. to # 1 => to = 0 /\ next = now \ {h}
  BY <1>0 DEF Held
<1>4. IsFiniteSet(now) /\ Cardinality(now) \in Nat
  BY HeldBounded
<1>5. /\ Cardinality(now \cup {h}) = IF h \in now THEN Cardinality(now) ELSE Cardinality(now) + 1
      /\ Cardinality(now \ {h}) = IF h \in now THEN Cardinality(now) - 1 ELSE Cardinality(now)
  BY <1>4, FS_AddElement, FS_RemoveElement
<1>6. from \in {0, 1} /\ to \in {0, 1}
  OBVIOUS
<1> HIDE DEF now, next, from, to
<1>7. Cardinality(next) = Cardinality(now) + to - from
  BY <1>1, <1>2, <1>3, <1>4, <1>5, <1>6
<1>8. QED
  BY <1>4, <1>7 DEF now, next, from, to

\* A request that neither comes to nor leaves the count keeps the accounts.
LEMMA GuessesKept ==
    ASSUME TypeOK, GuessesAccounted, NEW h \in Handlers, NEW p, NEW w, Go(h, p, w),
           at[h] # "verifyCount", p # "verifyCount",
           issued'.verification = issued.verification, wrong' = wrong,
           verification'.attempts = verification.attempts \/ verification'.verified,
           verification.verified => verification'.verified
    PROVE  GuessesAccounted'
<1>1. Cardinality(Counting') = Cardinality(Counting)
  BY GoMoves DEF Counting
<1>2. QED
  BY <1>1 DEF GuessesAccounted

\* A request that is not accepted leaves the verification grants bounded.
LEMMA VerificationGrantsKept ==
    ASSUME TypeOK, VerificationGrants, NEW h \in Handlers, NEW p, NEW w, Go(h, p, w),
           p # "verifyApply", grants'.verification = grants.verification,
           verification.verified => verification'.verified
    PROVE  VerificationGrants'
<1> SUFFICES ASSUME NEW c \in Codes
             PROVE  /\ ~verification'.verified => grants'.verification[c] = 0
                    /\ grants'.verification[c] + Cardinality(Verifying(c)') <= Cardinality(Handlers)
  BY DEF VerificationGrants
<1>1. Cardinality(Verifying(c)) \in Nat /\ Cardinality(Handlers) \in Nat
  BY HeldBounded DEF Verifying
<1>2. Cardinality(Verifying(c)') = Cardinality(Verifying(c)) \/ Cardinality(Verifying(c)') = Cardinality(Verifying(c)) - 1
  BY GoMoves DEF Verifying
<1>3. grants.verification[c] \in Nat
  BY DEF TypeOK
<1>4. QED
  BY <1>1, <1>2, <1>3 DEF VerificationGrants

\* The same of the reset grants.
LEMMA ResetGrantsKept ==
    ASSUME TypeOK, ResetGrants, NEW h \in Handlers, NEW p, NEW w, Go(h, p, w),
           p # "resetApply", grants'.reset = grants.reset,
           reset'.code = reset.code, issued'.reset = issued.reset
    PROVE  ResetGrants'
<1>1. ASSUME NEW c \in Codes
      PROVE  /\ c = reset'.code \/ c > issued'.reset => grants'.reset[c] = 0
             /\ grants'.reset[c] + Cardinality(Resetting(c)') <= Cardinality(Handlers)
  <2>1. Cardinality(Resetting(c)) \in Nat /\ Cardinality(Handlers) \in Nat
    BY HeldBounded DEF Resetting
  <2>2. Cardinality(Resetting(c)') = Cardinality(Resetting(c)) \/ Cardinality(Resetting(c)') = Cardinality(Resetting(c)) - 1
    BY GoMoves DEF Resetting
  <2>3. grants.reset[c] \in Nat
    BY DEF TypeOK
  <2>4. QED
    BY <2>1, <2>2, <2>3 DEF ResetGrants
<1>2. QED
  BY <1>1 DEF ResetGrants

\* Time passing moves no request.
LEMMA RestKept ==
    ASSUME CodesInv, UNCHANGED <<at, job, issued, grants, wrong>>,
           verification'.verified = verification.verified, verification'.attempts = verification.attempts,
           reset'.code = reset.code
    PROVE  HoldsCode' /\ GuessesAccounted' /\ VerificationGrants' /\ ResetGrants'
BY DEF CodesInv, HoldsCode, GuessesAccounted, VerificationGrants, ResetGrants, Counting, Verifying, Resetting

\* A request goes on to a place of the program, with a number.
LEMMA GoTypes ==
    ASSUME TypeOK, NEW h \in Handlers, NEW p \in Places, NEW w \in Nat, Go(h, p, w)
    PROVE  at' \in [Handlers -> Places] /\ job' \in [Handlers -> Nat]
BY DEF TypeOK, Go

\* Codes are only added, so the codes requests hold stay stored ones.
LEMMA HoldsKept ==
    ASSUME TypeOK, HoldsCode, NEW h \in Handlers, NEW p, NEW w \in Nat, Go(h, p, w),
           issued'.verification \in Nat, issued'.verification >= issued.verification,
           issued'.reset \in Nat, issued'.reset >= issued.reset,
           p = "verifyCount" => w <= issued'.verification,
           p = "verifyApply" => w \in Codes,
           p = "resetApply" => w \in Codes /\ w <= issued'.reset
    PROVE  HoldsCode'
<1> SUFFICES ASSUME NEW g \in Handlers
             PROVE  /\ at'[g] = "verifyCount" => job'[g] <= issued'.verification
                    /\ at'[g] = "verifyApply" => job'[g] \in Codes
                    /\ at'[g] = "resetApply" => job'[g] \in Codes /\ job'[g] <= issued'.reset
  BY DEF HoldsCode
<1>1. /\ at'[g] = IF g = h THEN p ELSE at[g]
      /\ job'[g] = IF g = h THEN w ELSE job[g]
      /\ job[g] \in Nat
  BY DEF TypeOK, Go
<1>2. issued.verification \in Nat /\ issued.reset \in Nat
  BY CodesAssumption DEF TypeOK, Guesses
<1>3. QED
  BY <1>1, <1>2 DEF HoldsCode

\* A step that changes no column: the request only goes on, to anything but
\* the count and the places of accepted requests.
LEMMA OnlyGoes ==
    ASSUME CodesInv, NEW h \in Handlers, NEW p \in Places, NEW w \in Nat, Go(h, p, w),
           at[h] # "verifyCount", p \notin {"verifyCount", "verifyApply", "resetApply"},
           UNCHANGED <<verification, reset, issued, grants, wrong>>
    PROVE  CodesInv'
<1>1. TypeOK'
  BY GoTypes DEF CodesInv, TypeOK
<1>2. HoldsCode'
  <2>1. issued.verification \in Nat /\ issued.reset \in Nat
    BY CodesAssumption DEF CodesInv, TypeOK, Guesses
  <2>2. QED
    BY <2>1, HoldsKept DEF CodesInv
<1>3. GuessesAccounted'
  BY GuessesKept DEF CodesInv
<1>4. VerificationGrants'
  BY VerificationGrantsKept DEF CodesInv
<1>5. ResetGrants'
  BY ResetGrantsKept DEF CodesInv
<1>6. QED
  BY <1>1, <1>2, <1>3, <1>4, <1>5 DEF CodesInv

-----------------------------------------------------------------------------
(***************************************************************************)
(* The invariant is inductive: one lemma for each step that changes more   *)
(* than where a request is.                                                *)
(***************************************************************************)

\* Numbers that the steps' arithmetic is about.
LEMMA Numbers ==
    ASSUME TypeOK
    PROVE  /\ issued.verification \in Nat /\ issued.reset \in Nat
           /\ verification.code \in Nat /\ reset.code \in Nat
           /\ verification.attempts \in Nat /\ reset.attempts \in Nat
           /\ wrong \in Nat
           /\ \A c \in Codes : grants.verification[c] \in Nat /\ grants.reset[c] \in Nat
           /\ \A h \in Handlers : job[h] \in Nat
           /\ Cardinality(Counting) \in Nat
           /\ Cardinality(Handlers) \in Nat
<1>1. Cardinality(Counting) \in Nat /\ Cardinality(Handlers) \in Nat
  BY HeldBounded DEF Counting
<1>2. QED
  BY <1>1, CodesAssumption DEF TypeOK, Guesses

\* register's first code.
LEMMA CodesInit == Init => CodesInv
<1> SUFFICES ASSUME Init PROVE CodesInv
  OBVIOUS
<1>1. TypeOK
  BY CodesAssumption DEF Init, TypeOK, Guesses, Places, None
<1>2. HoldsCode
  BY DEF Init, HoldsCode
<1>3. \A place \in Places \ {"idle"} : \A v : Held(at, job, place, v) = {}
  BY DEF Init, Held
<1>4. Counting = {} /\ \A c \in Codes : Verifying(c) = {} /\ Resetting(c) = {}
  BY <1>3 DEF Places, Counting, Verifying, Resetting
<1>5. Cardinality({}) = 0 /\ Cardinality(Handlers) \in Nat
  BY FS_EmptySet, HeldBounded
<1>6. GuessesAccounted
  BY <1>4, <1>5 DEF Init, GuessesAccounted
<1>7. VerificationGrants
  BY <1>4, <1>5 DEF Init, VerificationGrants
<1>8. ResetGrants
  <2>1. reset.code = 0 /\ issued.reset = 0 /\ \A c \in Codes : grants.reset[c] = 0
    BY DEF Init, None
  <2>2. QED
    BY <1>4, <1>5, <2>1 DEF ResetGrants
<1>9. QED
  BY <1>1, <1>2, <1>6, <1>7, <1>8 DEF CodesInv

\* A code is presented: accepted only while the address is unverified, and
\* then the code has granted nothing; counted as wrong otherwise.
LEMMA VerifyEmailWithCodeKeeps ==
    ASSUME CodesInv, NEW h \in Handlers, NEW g \in Guesses, VerifyEmailWithCode(h, g)
    PROVE  CodesInv'
<1>0. /\ TypeOK /\ HoldsCode /\ GuessesAccounted /\ VerificationGrants /\ ResetGrants
      /\ at[h] = "idle"
      /\ UNCHANGED <<verification, reset, issued, grants>>
  BY DEF CodesInv, VerifyEmailWithCode
<1>n. g \in Nat /\ MaxCodes \in Nat
  BY CodesAssumption DEF Guesses
<1>1. CASE Done(h) /\ UNCHANGED wrong
  BY <1>0, <1>1, OnlyGoes DEF Done, Places
<1>2. CASE /\ g # None /\ verification.code = g /\ ~verification.verified
           /\ Go(h, "verifyApply", g) /\ UNCHANGED wrong
  <2>1. TypeOK'
    BY <1>0, <1>2, <1>n, GoTypes DEF TypeOK, Places
  <2>2. HoldsCode'
    BY <1>0, <1>2, <1>n, Numbers, HoldsKept DEF Guesses, Codes, None
  <2>3. GuessesAccounted'
    BY <1>0, <1>2, GuessesKept
  <2>4. VerificationGrants'
    <3> SUFFICES ASSUME NEW c \in Codes
                 PROVE  /\ ~verification'.verified => grants'.verification[c] = 0
                        /\ grants'.verification[c] + Cardinality(Verifying(c)') <= Cardinality(Handlers)
      BY DEF VerificationGrants
    <3>1. grants'.verification[c] = 0
      BY <1>0, <1>2 DEF VerificationGrants
    <3>2. Cardinality(Verifying(c)') \in Nat /\ Cardinality(Verifying(c)') <= Cardinality(Handlers)
      BY HeldBounded DEF Verifying
    <3>3. QED
      BY <3>1, <3>2
  <2>5. ResetGrants'
    BY <1>0, <1>2, ResetGrantsKept
  <2>6. QED
    BY <2>1, <2>2, <2>3, <2>4, <2>5 DEF CodesInv
<1>3. CASE wrong' = wrong + 1 /\ Go(h, "verifyCount", issued.verification)
  <2>1. TypeOK'
    BY <1>0, <1>3, Numbers, GoTypes DEF TypeOK, Places
  <2>2. HoldsCode'
    BY <1>0, <1>3, Numbers, HoldsKept
  <2>3. GuessesAccounted'
    <3>1. Cardinality(Counting') = Cardinality(Counting) + 1
      BY <1>0, <1>3, GoMoves DEF Counting
    <3>2. QED
      BY <1>0, <1>3, <3>1, Numbers DEF GuessesAccounted
  <2>4. VerificationGrants'
    BY <1>0, <1>3, VerificationGrantsKept
  <2>5. ResetGrants'
    BY <1>0, <1>3, ResetGrantsKept
  <2>6. QED
    BY <2>1, <2>2, <2>3, <2>4, <2>5 DEF CodesInv
<1>4. QED
  BY <1>1, <1>2, <1>3 DEF VerifyEmailWithCode

\* The increment: the request that counts leaves, its attempt is stored.
LEMMA VerifyCountKeeps ==
    ASSUME CodesInv, NEW h \in Handlers, VerifyCount(h)
    PROVE  CodesInv'
<1>0. /\ TypeOK /\ HoldsCode /\ GuessesAccounted /\ VerificationGrants /\ ResetGrants
      /\ at[h] = "verifyCount" /\ Go(h, "idle", 0)
      /\ UNCHANGED <<reset, issued, grants, wrong>>
  BY DEF CodesInv, VerifyCount, Done
<1>1. /\ verification'.verified = verification.verified
      /\ ~verification.verified => verification'.attempts = verification.attempts + 1
  BY <1>0 DEF VerifyCount, TypeOK
<1>2. TypeOK'
  BY <1>0, GoTypes, SMTT(30) DEF VerifyCount, TypeOK, Places
<1>3. HoldsCode'
  BY <1>0, Numbers, HoldsKept
<1>4. GuessesAccounted'
  <2>1. /\ Cardinality(Counting') <= Cardinality(Counting)
        /\ Cardinality(Counting) <= Cardinality(Counting') + 1
        /\ Cardinality(Counting') \in Int
    BY <1>0, Numbers, GoMoves DEF Counting
  <2>2. QED
    BY <1>0, <1>1, <2>1, Numbers DEF GuessesAccounted
<1>5. VerificationGrants'
  BY <1>0, <1>1, VerificationGrantsKept
<1>6. ResetGrants'
  BY <1>0, ResetGrantsKept
<1>7. QED
  BY <1>2, <1>3, <1>4, <1>5, <1>6 DEF CodesInv

\* The address is verified: one accepted request fewer, one grant more.
LEMMA VerifyApplyKeeps ==
    ASSUME CodesInv, NEW h \in Handlers, VerifyApply(h)
    PROVE  CodesInv'
<1>0. /\ TypeOK /\ HoldsCode /\ GuessesAccounted /\ VerificationGrants /\ ResetGrants
      /\ at[h] = "verifyApply" /\ Go(h, "idle", 0) /\ job[h] \in Codes
      /\ UNCHANGED <<reset, issued, wrong>>
  BY DEF CodesInv, VerifyApply, Done, HoldsCode
<1>1. /\ verification'.verified
      /\ grants'.reset = grants.reset
      /\ grants'.verification \in [Codes -> Nat]
      /\ \A c \in Codes : grants'.verification[c] = grants.verification[c] + (IF c = job[h] THEN 1 ELSE 0)
  BY <1>0 DEF VerifyApply, TypeOK
<1>2. TypeOK'
  <2>0. None \in Guesses
    BY CodesAssumption DEF Guesses, None
  <2>1. verification' \in [verified : BOOLEAN, code : Guesses, expired : BOOLEAN, used : BOOLEAN,
                         attempts : Nat, recent : BOOLEAN, token : {"none", "valid", "expired"}]
    BY <1>0, <2>0 DEF VerifyApply, TypeOK
  <2>2. grants' \in [verification : [Codes -> Nat], reset : [Codes -> Nat]]
    BY <1>0 DEF VerifyApply, TypeOK
  <2>3. QED
    BY <1>0, <2>1, <2>2, GoTypes DEF TypeOK, Places
<1>3. HoldsCode'
  BY <1>0, Numbers, HoldsKept
<1>4. GuessesAccounted'
  BY <1>0, <1>1, GuessesKept
<1>5. VerificationGrants'
  <2> SUFFICES ASSUME NEW c \in Codes
               PROVE  grants'.verification[c] + Cardinality(Verifying(c)') <= Cardinality(Handlers)
    BY <1>1 DEF VerificationGrants
  <2>1. Cardinality(Verifying(c)') = Cardinality(Verifying(c)) - (IF c = job[h] THEN 1 ELSE 0)
    BY <1>0, GoMoves DEF Verifying
  <2>2. Cardinality(Verifying(c)) \in Nat
    BY HeldBounded DEF Verifying
  <2>3. QED
    BY <1>0, <1>1, <2>1, <2>2, Numbers DEF VerificationGrants
<1>6. ResetGrants'
  BY <1>0, <1>1, ResetGrantsKept
<1>7. QED
  BY <1>2, <1>3, <1>4, <1>5, <1>6 DEF CodesInv

\* The web token verifies the address, and leaves the counts alone.
LEMMA TokenApplyKeeps ==
    ASSUME CodesInv, NEW h \in Handlers, TokenApply(h)
    PROVE  CodesInv'
<1>0. /\ TypeOK /\ HoldsCode /\ GuessesAccounted /\ VerificationGrants /\ ResetGrants
      /\ at[h] = "tokenApply" /\ Go(h, "idle", 0)
      /\ UNCHANGED <<reset, issued, grants, wrong>>
  BY DEF CodesInv, TokenApply, Done
<1>1. verification'.verified
  BY <1>0 DEF TokenApply, TypeOK
<1>2. TypeOK'
  BY <1>0, GoTypes DEF TokenApply, TypeOK, Places
<1>3. HoldsCode'
  BY <1>0, Numbers, HoldsKept
<1>4. GuessesAccounted'
  BY <1>0, <1>1, GuessesKept
<1>5. VerificationGrants'
  BY <1>0, <1>1, VerificationGrantsKept
<1>6. ResetGrants'
  BY <1>0, ResetGrantsKept
<1>7. QED
  BY <1>2, <1>3, <1>4, <1>5, <1>6 DEF CodesInv

\* A new verification code: nobody is about to count a guess against it.
LEMMA ResendWriteKeeps ==
    ASSUME CodesInv, NEW h \in Handlers, ResendWrite(h)
    PROVE  CodesInv'
<1>0. /\ TypeOK /\ HoldsCode /\ GuessesAccounted /\ VerificationGrants /\ ResetGrants
      /\ at[h] = "resendWrite" /\ Go(h, "idle", 0)
      /\ wrong' = 0
      /\ UNCHANGED <<reset, grants>>
  BY DEF CodesInv, ResendWrite, Done
<1>1. /\ issued' \in [verification : Guesses, reset : Guesses]
      /\ issued'.verification = issued.verification + 1
      /\ issued'.verification \in Guesses
      /\ issued'.reset = issued.reset
  BY <1>0, CodesAssumption DEF ResendWrite, TypeOK, Guesses
<1>2. /\ verification'.verified = verification.verified
      /\ verification'.attempts = 0
  BY <1>0 DEF ResendWrite, TypeOK
<1>3. TypeOK'
  <2>1. verification' \in [verified : BOOLEAN, code : Guesses, expired : BOOLEAN, used : BOOLEAN,
                         attempts : Nat, recent : BOOLEAN, token : {"none", "valid", "expired"}]
    BY <1>0, <1>1 DEF ResendWrite, TypeOK
  <2>2. QED
    BY <1>0, <1>1, <2>1, GoTypes DEF TypeOK, Places
<1>4. HoldsCode'
  BY <1>0, <1>1, Numbers, HoldsKept
<1>5. GuessesAccounted'
  <2>1. Counting' = {}
    <3> SUFFICES ASSUME NEW k \in Handlers, at'[k] = "verifyCount", job'[k] = issued'.verification
                 PROVE  FALSE
      BY DEF Counting, Held
    <3>1. k # h /\ at[k] = "verifyCount" /\ job[k] = issued.verification + 1
      BY <1>0, <1>1 DEF TypeOK, Go
    <3>2. QED
      BY <1>0, <3>1, Numbers DEF HoldsCode
  <2>2. QED
    BY <1>0, <1>2, <2>1, FS_EmptySet DEF GuessesAccounted
<1>6. VerificationGrants'
  BY <1>0, <1>2, VerificationGrantsKept
<1>7. ResetGrants'
  BY <1>0, <1>1, ResetGrantsKept
<1>8. QED
  BY <1>3, <1>4, <1>5, <1>6, <1>7 DEF CodesInv

\* A new reset code: it is a number that has granted nothing.
LEMMA ForgotWriteKeeps ==
    ASSUME CodesInv, NEW h \in Handlers, ForgotWrite(h)
    PROVE  CodesInv'
<1>0. /\ TypeOK /\ HoldsCode /\ GuessesAccounted /\ VerificationGrants /\ ResetGrants
      /\ at[h] = "forgotWrite" /\ Go(h, "idle", 0)
      /\ UNCHANGED <<verification, grants, wrong>>
  BY DEF CodesInv, ForgotWrite, Done
<1>1. /\ issued' \in [verification : Guesses, reset : Guesses]
      /\ issued'.reset = issued.reset + 1
      /\ issued'.reset \in Guesses
      /\ issued'.verification = issued.verification
  BY <1>0, CodesAssumption DEF ForgotWrite, TypeOK, Guesses
<1>2. reset'.code = issued'.reset
  BY <1>0 DEF ForgotWrite, TypeOK
<1>3. TypeOK'
  BY <1>0, <1>1, GoTypes DEF ForgotWrite, TypeOK, Places
<1>4. HoldsCode'
  BY <1>0, <1>1, Numbers, HoldsKept
<1>5. GuessesAccounted'
  BY <1>0, <1>1, GuessesKept
<1>6. VerificationGrants'
  BY <1>0, VerificationGrantsKept
<1>7. ResetGrants'
  <2>1. ASSUME NEW c \in Codes
        PROVE  /\ c = reset'.code \/ c > issued'.reset => grants'.reset[c] = 0
               /\ grants'.reset[c] + Cardinality(Resetting(c)') <= Cardinality(Handlers)
    <3>1. c \in Nat
      BY CodesAssumption DEF Codes
    <3>2. c = reset'.code \/ c > issued'.reset => grants'.reset[c] = 0
      BY <1>0, <1>1, <1>2, <3>1, Numbers DEF ResetGrants
    <3>3. Cardinality(Resetting(c)') = Cardinality(Resetting(c))
      BY <1>0, GoMoves DEF Resetting
    <3>4. QED
      BY <1>0, <3>2, <3>3 DEF ResetGrants
  <2>2. reset'.code <= issued'.reset
    BY <1>0, <1>1, <1>2, Numbers
  <2>3. QED
    BY <2>1, <2>2 DEF ResetGrants
<1>8. QED
  BY <1>3, <1>4, <1>5, <1>6, <1>7 DEF CodesInv

\* A wrong reset code is counted by two statements.
LEMMA ResetRereadKeeps ==
    ASSUME CodesInv, NEW h \in Handlers, ResetReread(h)
    PROVE  CodesInv'
<1>1. reset.attempts \in Nat
  BY Numbers DEF CodesInv
<1>2. QED
  BY <1>1, OnlyGoes DEF ResetReread, Done, Places

\* A wrong guess of the reset code is counted.
LEMMA ResetCountKeeps ==
    ASSUME CodesInv, NEW h \in Handlers, ResetCount(h)
    PROVE  CodesInv'
<1>0. /\ TypeOK /\ HoldsCode /\ GuessesAccounted /\ VerificationGrants /\ ResetGrants
      /\ at[h] = "resetCount" /\ Go(h, "idle", 0)
      /\ UNCHANGED <<verification, issued, grants, wrong>>
  BY DEF CodesInv, ResetCount, Done
<1>1. reset'.code = reset.code
  BY <1>0 DEF ResetCount, TypeOK
<1>2. TypeOK'
  BY <1>0, GoTypes, SMTT(30) DEF ResetCount, TypeOK, Places
<1>3. HoldsCode'
  BY <1>0, Numbers, HoldsKept
<1>4. GuessesAccounted'
  BY <1>0, GuessesKept
<1>5. VerificationGrants'
  BY <1>0, VerificationGrantsKept
<1>6. ResetGrants'
  BY <1>0, <1>1, ResetGrantsKept
<1>7. QED
  BY <1>2, <1>3, <1>4, <1>5, <1>6 DEF CodesInv

\* A reset code is presented: the code in the row has granted nothing yet.
LEMMA ResetPasswordKeeps ==
    ASSUME CodesInv, NEW h \in Handlers, NEW g \in Guesses, ResetPassword(h, g)
    PROVE  CodesInv'
<1>0. /\ TypeOK /\ HoldsCode /\ GuessesAccounted /\ VerificationGrants /\ ResetGrants
      /\ at[h] = "idle" /\ g # None /\ reset.code = g
      /\ UNCHANGED <<verification, reset, issued, grants, wrong>>
  BY DEF CodesInv, ResetPassword
<1>1. g \in Nat /\ g \in Codes
  BY <1>0, CodesAssumption DEF Guesses, Codes, None
<1>2. CASE Done(h)
  BY <1>0, <1>2, OnlyGoes DEF Done, Places
<1>3. CASE Go(h, "resetApply", g)
  <2>1. TypeOK'
    BY <1>0, <1>1, <1>3, GoTypes DEF TypeOK, Places
  <2>2. HoldsCode'
    <3>1. g <= issued.reset
      BY <1>0 DEF ResetGrants
    <3>2. QED
      BY <1>0, <1>1, <1>3, <3>1, Numbers, HoldsKept
  <2>3. GuessesAccounted'
    BY <1>0, <1>3, GuessesKept
  <2>4. VerificationGrants'
    BY <1>0, <1>3, VerificationGrantsKept
  <2>5. ResetGrants'
    <3>1. ASSUME NEW c \in Codes
          PROVE  /\ c = reset'.code \/ c > issued'.reset => grants'.reset[c] = 0
                 /\ grants'.reset[c] + Cardinality(Resetting(c)') <= Cardinality(Handlers)
      <4>1. CASE c = g
        <5>1. grants'.reset[c] = 0
          BY <1>0, <4>1 DEF ResetGrants
        <5>2. Cardinality(Resetting(c)') \in Nat /\ Cardinality(Resetting(c)') <= Cardinality(Handlers)
          BY HeldBounded DEF Resetting
        <5>3. QED
          BY <5>1, <5>2
      <4>2. CASE c # g
        <5>1. Cardinality(Resetting(c)') = Cardinality(Resetting(c))
          BY <1>0, <1>3, <4>2, GoMoves DEF Resetting
        <5>2. QED
          BY <1>0, <4>2, <5>1 DEF ResetGrants
      <4>3. QED
        BY <4>1, <4>2
    <3>2. QED
      BY <1>0, <3>1 DEF ResetGrants
  <2>6. QED
    BY <2>1, <2>2, <2>3, <2>4, <2>5 DEF CodesInv
<1>4. QED
  BY <1>2, <1>3 DEF ResetPassword

\* The password is set: the code is gone, and stays below the next one.
LEMMA ResetApplyKeeps ==
    ASSUME CodesInv, NEW h \in Handlers, ResetApply(h)
    PROVE  CodesInv'
<1>0. /\ TypeOK /\ HoldsCode /\ GuessesAccounted /\ VerificationGrants /\ ResetGrants
      /\ at[h] = "resetApply" /\ Go(h, "idle", 0)
      /\ job[h] \in Codes /\ job[h] <= issued.reset
      /\ UNCHANGED <<verification, issued, wrong>>
  BY DEF CodesInv, ResetApply, Done, HoldsCode
<1>1. /\ reset'.code = 0
      /\ grants'.verification = grants.verification
      /\ grants' \in [verification : [Codes -> Nat], reset : [Codes -> Nat]]
      /\ \A c \in Codes : grants'.reset[c] = grants.reset[c] + (IF c = job[h] THEN 1 ELSE 0)
  BY <1>0 DEF ResetApply, TypeOK, None
<1>2. TypeOK'
  <2>1. job[h] \in Guesses /\ 0 \in Guesses
    BY <1>0, CodesAssumption DEF Codes, Guesses
  <2>2. QED
    BY <1>0, <1>1, <2>1, GoTypes DEF ResetApply, TypeOK, Places, None
<1>3. HoldsCode'
  BY <1>0, Numbers, HoldsKept
<1>4. GuessesAccounted'
  BY <1>0, GuessesKept
<1>5. VerificationGrants'
  BY <1>0, <1>1, VerificationGrantsKept
<1>6. ResetGrants'
  <2>1. ASSUME NEW c \in Codes
        PROVE  /\ c = reset'.code \/ c > issued'.reset => grants'.reset[c] = 0
               /\ grants'.reset[c] + Cardinality(Resetting(c)') <= Cardinality(Handlers)
    <3>1. c \in Nat /\ c # 0 /\ job[h] \in Nat
      BY <1>0, CodesAssumption DEF Codes
    <3>2. c > issued.reset => c # job[h]
      BY <1>0, <3>1, Numbers
    <3>3. Cardinality(Resetting(c)') = Cardinality(Resetting(c)) - (IF c = job[h] THEN 1 ELSE 0)
      BY <1>0, GoMoves DEF Resetting
    <3>4. Cardinality(Resetting(c)) \in Nat
      BY HeldBounded DEF Resetting
    <3>5. QED
      BY <1>0, <1>1, <3>1, <3>2, <3>3, <3>4, Numbers DEF ResetGrants
  <2>2. QED
    BY <1>0, <1>1, <2>1, Numbers DEF ResetGrants
<1>7. QED
  BY <1>2, <1>3, <1>4, <1>5, <1>6 DEF CodesInv

\* A request fails: a guess that was to be counted is taken back.
LEMMA FailKeeps ==
    ASSUME CodesInv, NEW h \in Handlers, Fail(h)
    PROVE  CodesInv'
<1>0. /\ TypeOK /\ HoldsCode /\ GuessesAccounted /\ VerificationGrants /\ ResetGrants
      /\ Go(h, "idle", 0)
      /\ UNCHANGED <<verification, reset, issued, grants>>
  BY DEF CodesInv, Fail, Done
<1> DEFINE back == IF at[h] = "verifyCount" /\ job[h] = issued.verification THEN 1 ELSE 0
<1>1. /\ wrong' = wrong - back
      /\ Cardinality(Counting') = Cardinality(Counting) - back
      /\ Cardinality(Counting') \in Nat
  <2>1. Cardinality(Counting') \in Nat
    BY HeldBounded DEF Counting
  <2>2. wrong' = wrong - back
    BY <1>0, Numbers DEF Fail
  <2>3. Cardinality(Counting') = Cardinality(Counting) - back
    BY <1>0, GoMoves DEF Counting
  <2>4. QED
    BY <2>1, <2>2, <2>3
<1>2. back \in {0, 1}
  OBVIOUS
<1> HIDE DEF back
<1>3. GuessesAccounted'
  BY <1>0, <1>1, <1>2, Numbers DEF GuessesAccounted
<1>4. TypeOK'
  <2>1. wrong' \in Nat
    BY <1>0, <1>1, <1>2, Numbers DEF GuessesAccounted
  <2>2. QED
    BY <1>0, <2>1, GoTypes DEF TypeOK, Places
<1>5. HoldsCode'
  BY <1>0, Numbers, HoldsKept
<1>6. VerificationGrants'
  BY <1>0, VerificationGrantsKept
<1>7. ResetGrants'
  BY <1>0, ResetGrantsKept
<1>8. QED
  BY <1>3, <1>4, <1>5, <1>6, <1>7 DEF CodesInv

\* Codes and tokens expire.
LEMMA TimeKeeps ==
    ASSUME CodesInv, VerificationTime \/ ResetTime
    PROVE  CodesInv'
<1>1. TypeOK
  BY DEF CodesInv
<1>2. CASE VerificationTime
  <2>1. /\ verification' \in [verified : BOOLEAN, code : Guesses, expired : BOOLEAN, used : BOOLEAN,
                              attempts : Nat, recent : BOOLEAN, token : {"none", "valid", "expired"}]
        /\ verification'.verified = verification.verified
        /\ verification'.attempts = verification.attempts
    <3>1. CASE verification' = [verification EXCEPT !.recent = FALSE]
      BY <1>1, <3>1, Zenon DEF TypeOK
    <3>2. CASE verification' = [verification EXCEPT !.expired = TRUE, !.recent = FALSE]
      BY <1>1, <3>2, Zenon DEF TypeOK
    <3>3. CASE verification' = [verification EXCEPT !.token = "expired"]
      BY <1>1, <3>3, Zenon DEF TypeOK
    <3>4. QED
      BY <1>2, <3>1, <3>2, <3>3, Zenon DEF VerificationTime
  <2>2. UNCHANGED <<reset, at, job, issued, grants, wrong>>
    BY <1>2 DEF VerificationTime
  <2>3. TypeOK'
    BY <1>1, <2>1, <2>2, Zenon DEF TypeOK
  <2>4. QED
    BY <2>1, <2>2, <2>3, RestKept, Zenon DEF CodesInv
<1>3. CASE ResetTime
  <2>1. /\ reset' \in [code : Guesses, expired : BOOLEAN, used : BOOLEAN, attempts : Nat,
                       recent : BOOLEAN, password : Guesses]
        /\ reset'.code = reset.code
    <3>1. CASE reset' = [reset EXCEPT !.recent = FALSE]
      BY <1>1, <3>1, Zenon DEF TypeOK
    <3>2. CASE reset' = [reset EXCEPT !.expired = TRUE, !.recent = FALSE]
      BY <1>1, <3>2, Zenon DEF TypeOK
    <3>3. QED
      BY <1>3, <3>1, <3>2, Zenon DEF ResetTime
  <2>2. UNCHANGED <<verification, at, job, issued, grants, wrong>>
    BY <1>3 DEF ResetTime
  <2>3. TypeOK'
    BY <1>1, <2>1, <2>2, Zenon DEF TypeOK
  <2>4. QED
    BY <2>1, <2>2, <2>3, RestKept, Zenon DEF CodesInv
<1>4. QED
  BY <1>2, <1>3

\* One step per action.
LEMMA CodesStep == CodesInv /\ [Next]_vars => CodesInv'
<1> SUFFICES ASSUME CodesInv, [Next]_vars PROVE CodesInv'
  OBVIOUS
<1>1. ASSUME NEW h \in Handlers, NEW g \in Guesses, VerifyEmailWithCode(h, g) PROVE CodesInv'
  BY <1>1, VerifyEmailWithCodeKeeps
<1>2. ASSUME NEW h \in Handlers, VerifyCount(h) PROVE CodesInv'
  BY <1>2, VerifyCountKeeps
<1>3. ASSUME NEW h \in Handlers, VerifyApply(h) PROVE CodesInv'
  BY <1>3, VerifyApplyKeeps
<1>4. ASSUME NEW h \in Handlers, VerifyEmail(h) PROVE CodesInv'
  BY <1>4, OnlyGoes DEF VerifyEmail, Places
<1>5. ASSUME NEW h \in Handlers, TokenApply(h) PROVE CodesInv'
  BY <1>5, TokenApplyKeeps
<1>6. ASSUME NEW h \in Handlers, ResendVerificationCode(h) PROVE CodesInv'
  BY <1>6, OnlyGoes DEF ResendVerificationCode, Places
<1>7. ASSUME NEW h \in Handlers, ResendVerificationEmail(h) PROVE CodesInv'
  BY <1>7, OnlyGoes DEF ResendVerificationEmail, Places
<1>8. ASSUME NEW h \in Handlers, ResendWrite(h) PROVE CodesInv'
  BY <1>8, ResendWriteKeeps
<1>9. ASSUME NEW h \in Handlers, ForgotPassword(h) PROVE CodesInv'
  BY <1>9, OnlyGoes DEF ForgotPassword, Places
<1>10. ASSUME NEW h \in Handlers, ForgotWrite(h) PROVE CodesInv'
  BY <1>10, ForgotWriteKeeps
<1>11. ASSUME NEW h \in Handlers, NEW g \in Guesses, VerifyResetCode(h, g) PROVE CodesInv'
  BY <1>11, OnlyGoes DEF VerifyResetCode, Done, Places
<1>12. ASSUME NEW h \in Handlers, ResetReread(h) PROVE CodesInv'
  BY <1>12, ResetRereadKeeps
<1>13. ASSUME NEW h \in Handlers, ResetCount(h) PROVE CodesInv'
  BY <1>13, ResetCountKeeps
<1>14. ASSUME NEW h \in Handlers, NEW g \in Guesses, ResetPassword(h, g) PROVE CodesInv'
  BY <1>14, ResetPasswordKeeps
<1>15. ASSUME NEW h \in Handlers, ResetApply(h) PROVE CodesInv'
  BY <1>15, ResetApplyKeeps
<1>16. ASSUME NEW h \in Handlers, Fail(h) PROVE CodesInv'
  BY <1>16, FailKeeps
<1>17. CASE VerificationTime \/ ResetTime
  BY <1>17, TimeKeeps
<1>18. CASE UNCHANGED vars
  BY <1>18 DEF vars, CodesInv, TypeOK, HoldsCode, GuessesAccounted, VerificationGrants, ResetGrants,
               Counting, Verifying, Resetting
<1>19. QED
  BY <1>1, <1>2, <1>3, <1>4, <1>5, <1>6, <1>7, <1>8, <1>9, <1>10, <1>11, <1>12, <1>13, <1>14,
     <1>15, <1>16, <1>17, <1>18 DEF Next, VerificationNext, ResetNext

\* The invariant holds in every state of every behaviour.
LEMMA CodesAlways == Spec => []CodesInv
BY CodesInit, CodesStep, PTL DEF Spec

-----------------------------------------------------------------------------
(***************************************************************************)
(* The types of the columns, the requests and the histories.  That `wrong' *)
(* never goes below zero needs the accounts: only a guess that was counted *)
(* is taken back.                                                          *)
(***************************************************************************)
THEOREM CodesTypeCorrect == Spec => []TypeOK
<1>1. CodesInv => TypeOK
  BY DEF CodesInv
<1>2. QED
  BY <1>1, CodesAlways, PTL

(***************************************************************************)
(* However many requests guess at once, no wrong guess of the present      *)
(* verification code goes uncounted: incrementing the column in one        *)
(* statement is enough.                                                    *)
(***************************************************************************)
THEOREM GuessesAreCounted == Spec => []EveryGuessCounted
<1>1. CodesInv => EveryGuessCounted
  <2> SUFFICES ASSUME CodesInv PROVE EveryGuessCounted
    OBVIOUS
  <2> DEFINE counting == {h \in Handlers : at[h] = "verifyCount"}
  <2>1. Counting \in SUBSET counting /\ IsFiniteSet(counting)
    <3>1. counting \in SUBSET Handlers
      OBVIOUS
    <3>2. IsFiniteSet(counting)
      BY <3>1, FS_Subset, CodesAssumption
    <3>3. QED
      BY <3>2 DEF Counting, Held
  <2>2. Cardinality(Counting) <= Cardinality(counting) /\ Cardinality(counting) \in Nat
    BY <2>1, FS_Subset, FS_CardinalityType
  <2> HIDE DEF counting
  <2>3. ~verification.verified => wrong <= verification.attempts + Cardinality(counting)
    BY <2>2, Numbers DEF CodesInv, GuessesAccounted
  <2>4. QED
    BY <2>3 DEF EveryGuessCounted, counting
<1>2. QED
  BY <1>1, CodesAlways, PTL

(***************************************************************************)
(* A code grants no more often than there are requests at once: the check  *)
(* and the write are two statements, so overlapping requests may each be   *)
(* granted, but after the first grant nobody else is accepted.             *)
(***************************************************************************)
THEOREM CodesGrantBoundedly == Spec => []GrantsBounded
<1>1. CodesInv => GrantsBounded
  <2> SUFFICES ASSUME CodesInv, NEW c \in Codes
               PROVE  /\ grants.verification[c] <= Cardinality(Handlers)
                      /\ grants.reset[c] <= Cardinality(Handlers)
    BY DEF GrantsBounded
  <2>1. Cardinality(Verifying(c)) \in Nat /\ Cardinality(Resetting(c)) \in Nat
    BY HeldBounded DEF Verifying, Resetting
  <2>2. QED
    BY <2>1, Numbers DEF CodesInv, VerificationGrants, ResetGrants
<1>2. QED
  BY <1>1, CodesAlways, PTL

-----------------------------------------------------------------------------
(***************************************************************************)
(* Refinement: the steps of each purpose are steps of OneTimeCode.         *)
(***************************************************************************)

\* What a request that goes on does to the accepted codes of a purpose.
LEMMA AcceptedGoes ==
    ASSUME TypeOK, NEW h \in Handlers, NEW p, NEW w, Go(h, p, w), NEW place
    PROVE  /\ AcceptedAt(place)' = [AcceptedAt(place) EXCEPT ![h] = IF p = place THEN w ELSE 0]
           /\ AcceptedAt(place)[h] = IF at[h] = place THEN job[h] ELSE 0
           /\ at[h] # place /\ p # place => AcceptedAt(place)' = AcceptedAt(place)
<1>1. /\ at \in [Handlers -> Places] /\ job \in [Handlers -> Nat]
      /\ at' = [at EXCEPT ![h] = p] /\ job' = [job EXCEPT ![h] = w]
  BY DEF TypeOK, Go
<1>2. AcceptedAt(place)' = [AcceptedAt(place) EXCEPT ![h] = IF p = place THEN w ELSE 0]
  BY <1>1 DEF AcceptedAt
<1>3. AcceptedAt(place)[h] = IF at[h] = place THEN job[h] ELSE 0
  BY DEF AcceptedAt
<1>4. at[h] # place /\ p # place => AcceptedAt(place)' = AcceptedAt(place)
  BY <1>1 DEF AcceptedAt
<1>5. QED
  BY <1>2, <1>3, <1>4

\* A step that accepts nobody and grants nothing at most revokes the code.
LEMMA VerificationQuiet ==
    ASSUME AcceptedAt("verifyApply")' = AcceptedAt("verifyApply"),
           LiveVerification' \in {LiveVerification, 0},
           issued'.verification = issued.verification,
           grants'.verification = grants.verification
    PROVE  [VerificationCode!Next]_(VerificationCode!vars)
<1>1. CASE LiveVerification' = LiveVerification
  BY <1>1 DEF VerificationCode!vars
<1>2. CASE LiveVerification' # LiveVerification
  BY <1>2 DEF VerificationCode!Next, VerificationCode!Revoke
<1>3. QED
  BY <1>1, <1>2

\* A step that changes nothing the abstract reset code shows, but may lose its code.
LEMMA ResetQuiet ==
    ASSUME AcceptedAt("resetApply")' = AcceptedAt("resetApply"),
           LiveReset' \in {LiveReset, 0},
           issued'.reset = issued.reset,
           grants'.reset = grants.reset
    PROVE  [ResetCode!Next]_(ResetCode!vars)
<1>1. CASE LiveReset' = LiveReset
  BY <1>1 DEF ResetCode!vars
<1>2. CASE LiveReset' # LiveReset
  BY <1>2 DEF ResetCode!Next, ResetCode!Revoke
<1>3. QED
  BY <1>1, <1>2

\* A request that goes on elsewhere, the purpose's columns being left alone.
LEMMA VerificationStutters ==
    ASSUME TypeOK, NEW h \in Handlers, NEW p, NEW w, Go(h, p, w),
           at[h] # "verifyApply", p # "verifyApply",
           verification' = verification,
           issued'.verification = issued.verification,
           grants'.verification = grants.verification
    PROVE  [VerificationCode!Next]_(VerificationCode!vars)
<1>1. AcceptedAt("verifyApply")' = AcceptedAt("verifyApply")
  BY AcceptedGoes
<1>2. LiveVerification' = LiveVerification
  BY DEF LiveVerification, Usable
<1>3. QED
  BY <1>1, <1>2, VerificationQuiet

\* A request that neither accepts nor applies a reset code.
LEMMA ResetStutters ==
    ASSUME TypeOK, NEW h \in Handlers, NEW p, NEW w, Go(h, p, w),
           at[h] # "resetApply", p # "resetApply",
           reset' = reset,
           issued'.reset = issued.reset,
           grants'.reset = grants.reset
    PROVE  [ResetCode!Next]_(ResetCode!vars)
<1>1. AcceptedAt("resetApply")' = AcceptedAt("resetApply")
  BY AcceptedGoes
<1>2. LiveReset' = LiveReset
  BY DEF LiveReset
<1>3. QED
  BY <1>1, <1>2, ResetQuiet

\* Each step of the service is a step of the verification code, or none.
LEMMA VerificationStep ==
    CodesInv /\ [Next]_vars => [VerificationCode!Next]_(VerificationCode!vars)
<1> SUFFICES ASSUME CodesInv, [Next]_vars PROVE [VerificationCode!Next]_(VerificationCode!vars)
  OBVIOUS
<1> USE DEF CodesInv
<1>0. TypeOK /\ HoldsCode
  OBVIOUS
<1>1. ASSUME NEW h \in Handlers, NEW g \in Guesses, VerifyEmailWithCode(h, g)
      PROVE  [VerificationCode!Next]_(VerificationCode!vars)
  <2>0. at[h] = "idle" /\ UNCHANGED <<verification, reset, issued, grants>>
    BY <1>1 DEF VerifyEmailWithCode
  <2>1. CASE /\ g # None /\ verification.code = g /\ ~verification.verified
             /\ Usable(verification) /\ Go(h, "verifyApply", g)
    <3>1. LiveVerification = g /\ LiveVerification' = LiveVerification
      BY <2>0, <2>1 DEF LiveVerification, Usable
    <3>2. /\ AcceptedAt("verifyApply")[h] = 0
          /\ AcceptedAt("verifyApply")' = [AcceptedAt("verifyApply") EXCEPT ![h] = g]
      BY <1>0, <2>0, <2>1, AcceptedGoes
    <3>3. VerificationCode!Accept(h)
      BY <2>0, <2>1, <3>1, <3>2 DEF VerificationCode!Accept, None
    <3>4. QED
      BY <3>3 DEF VerificationCode!Next
  <2>2. CASE Done(h)
    BY <1>0, <2>0, <2>2, VerificationStutters DEF Done
  <2>3. CASE Go(h, "verifyCount", issued.verification)
    BY <1>0, <2>0, <2>3, VerificationStutters
  <2>4. QED
    BY <1>1, <2>1, <2>2, <2>3 DEF VerifyEmailWithCode
<1>2. ASSUME NEW h \in Handlers, VerifyCount(h)
      PROVE  [VerificationCode!Next]_(VerificationCode!vars)
  <2>1. at[h] = "verifyCount" /\ Go(h, "idle", 0) /\ UNCHANGED <<issued, grants>>
    BY <1>2 DEF VerifyCount, Done
  <2>2. AcceptedAt("verifyApply")' = AcceptedAt("verifyApply")
    BY <1>0, <2>1, AcceptedGoes
  <2>3. LiveVerification' \in {LiveVerification, 0}
    BY <1>0, <1>2, CodesAssumption DEF VerifyCount, LiveVerification, Usable, TypeOK
  <2>4. QED
    BY <2>1, <2>2, <2>3, VerificationQuiet
<1>3. ASSUME NEW h \in Handlers, VerifyApply(h)
      PROVE  [VerificationCode!Next]_(VerificationCode!vars)
  <2>1. at[h] = "verifyApply" /\ Go(h, "idle", 0) /\ UNCHANGED issued /\ job[h] \in Codes
    BY <1>0, <1>3 DEF VerifyApply, Done, HoldsCode
  <2>2. /\ AcceptedAt("verifyApply")[h] = job[h]
        /\ AcceptedAt("verifyApply")' = [AcceptedAt("verifyApply") EXCEPT ![h] = 0]
    BY <1>0, <2>1, AcceptedGoes
  <2>3. job[h] # 0
    BY <2>1, CodesAssumption DEF Codes
  <2>4. LiveVerification' = 0
    BY <1>0, <1>3 DEF VerifyApply, LiveVerification, TypeOK
  <2>5. grants'.verification = [grants.verification EXCEPT ![job[h]] = @ + 1]
    BY <1>0, <1>3 DEF VerifyApply, TypeOK
  <2>6. VerificationCode!Grant(h)
    BY <2>1, <2>2, <2>3, <2>4, <2>5 DEF VerificationCode!Grant
  <2>7. QED
    BY <2>6 DEF VerificationCode!Next
<1>4. ASSUME NEW h \in Handlers, TokenApply(h)
      PROVE  [VerificationCode!Next]_(VerificationCode!vars)
  <2>1. at[h] = "tokenApply" /\ Go(h, "idle", 0) /\ UNCHANGED <<issued, grants>>
    BY <1>4 DEF TokenApply, Done
  <2>2. AcceptedAt("verifyApply")' = AcceptedAt("verifyApply")
    BY <1>0, <2>1, AcceptedGoes
  <2>3. LiveVerification' = 0
    BY <1>0, <1>4 DEF TokenApply, LiveVerification, TypeOK
  <2>4. QED
    BY <2>1, <2>2, <2>3, VerificationQuiet
<1>5. ASSUME NEW h \in Handlers, ResendWrite(h)
      PROVE  [VerificationCode!Next]_(VerificationCode!vars)
  <2>1. at[h] = "resendWrite" /\ Go(h, "idle", 0) /\ UNCHANGED grants
    BY <1>5 DEF ResendWrite, Done
  <2>2. AcceptedAt("verifyApply")' = AcceptedAt("verifyApply")
    BY <1>0, <2>1, AcceptedGoes
  <2>3. /\ issued.verification < MaxCodes
        /\ issued'.verification = issued.verification + 1
    BY <1>0, <1>5 DEF ResendWrite, TypeOK
  <2>4. LiveVerification' \in {0, issued'.verification}
    BY <1>0, <1>5 DEF ResendWrite, LiveVerification, TypeOK
  <2>5. VerificationCode!Issue
    BY <2>1, <2>2, <2>3, <2>4 DEF VerificationCode!Issue
  <2>6. QED
    BY <2>5 DEF VerificationCode!Next
<1>6. ASSUME NEW h \in Handlers, Fail(h)
      PROVE  [VerificationCode!Next]_(VerificationCode!vars)
  <2>1. Go(h, "idle", 0) /\ UNCHANGED <<verification, reset, issued, grants>>
    BY <1>6 DEF Fail, Done
  <2>2. CASE at[h] # "verifyApply"
    BY <1>0, <2>1, <2>2, VerificationStutters
  <2>3. CASE at[h] = "verifyApply"
    <3>1. /\ AcceptedAt("verifyApply")[h] = job[h]
          /\ AcceptedAt("verifyApply")' = [AcceptedAt("verifyApply") EXCEPT ![h] = 0]
      BY <1>0, <2>1, <2>3, AcceptedGoes
    <3>2. job[h] # 0
      BY <1>0, <2>3, CodesAssumption DEF HoldsCode, Codes
    <3>3. LiveVerification' = LiveVerification
      BY <2>1 DEF LiveVerification, Usable
    <3>4. VerificationCode!GiveUp(h)
      BY <2>1, <3>1, <3>2, <3>3 DEF VerificationCode!GiveUp
    <3>5. QED
      BY <3>4 DEF VerificationCode!Next
  <2>4. QED
    BY <2>2, <2>3
<1>7. CASE VerificationTime
  <2>1. AcceptedAt("verifyApply")' = AcceptedAt("verifyApply")
    BY <1>7 DEF VerificationTime, AcceptedAt
  <2>2. LiveVerification' \in {LiveVerification, 0}
    BY <1>0, <1>7, ZenonT(60) DEF VerificationTime, LiveVerification, Usable, TypeOK
  <2>3. QED
    BY <1>7, <2>1, <2>2, VerificationQuiet DEF VerificationTime
<1>8. ASSUME NEW h \in Handlers, VerifyEmail(h) \/ ResendVerificationCode(h) \/ ResendVerificationEmail(h)
      PROVE  [VerificationCode!Next]_(VerificationCode!vars)
  BY <1>0, <1>8, VerificationStutters DEF VerifyEmail, ResendVerificationCode, ResendVerificationEmail
<1>9. ASSUME NEW h \in Handlers, ForgotPassword(h) \/ ResetReread(h) \/ ResetCount(h)
      PROVE  [VerificationCode!Next]_(VerificationCode!vars)
  BY <1>0, <1>9, VerificationStutters DEF ForgotPassword, ResetReread, ResetCount, Done
<1>10. ASSUME NEW h \in Handlers, ForgotWrite(h)
       PROVE  [VerificationCode!Next]_(VerificationCode!vars)
  <2>1. at[h] = "forgotWrite" /\ Go(h, "idle", 0) /\ UNCHANGED <<verification, grants>>
    BY <1>10 DEF ForgotWrite, Done
  <2>2. issued'.verification = issued.verification
    BY <1>0, <1>10 DEF ForgotWrite, TypeOK
  <2>3. QED
    BY <1>0, <2>1, <2>2, VerificationStutters
<1>11. ASSUME NEW h \in Handlers, ResetApply(h)
       PROVE  [VerificationCode!Next]_(VerificationCode!vars)
  <2>1. at[h] = "resetApply" /\ Go(h, "idle", 0) /\ UNCHANGED <<verification, issued>>
    BY <1>11 DEF ResetApply, Done
  <2>2. grants'.verification = grants.verification
    BY <1>0, <1>11 DEF ResetApply, TypeOK
  <2>3. QED
    BY <1>0, <2>1, <2>2, VerificationStutters
<1>12. ASSUME NEW h \in Handlers, NEW g \in Guesses, VerifyResetCode(h, g) \/ ResetPassword(h, g)
       PROVE  [VerificationCode!Next]_(VerificationCode!vars)
  BY <1>0, <1>12, VerificationStutters DEF VerifyResetCode, ResetPassword, Done
<1>13. CASE ResetTime \/ UNCHANGED vars
  <2>1. UNCHANGED <<verification, at, job, issued, grants>>
    BY <1>13 DEF ResetTime, vars
  <2>2. LiveVerification' = LiveVerification /\ AcceptedAt("verifyApply")' = AcceptedAt("verifyApply")
    BY <2>1 DEF LiveVerification, Usable, AcceptedAt
  <2>3. QED
    BY <2>1, <2>2, VerificationQuiet
<1>14. QED
  BY <1>1, <1>2, <1>3, <1>4, <1>5, <1>6, <1>7, <1>8, <1>9, <1>10, <1>11, <1>12, <1>13
  DEF Next, VerificationNext, ResetNext

\* Each step of the service is a step of the reset code, or none.
LEMMA ResetStep ==
    CodesInv /\ [Next]_vars => [ResetCode!Next]_(ResetCode!vars)
<1> SUFFICES ASSUME CodesInv, [Next]_vars PROVE [ResetCode!Next]_(ResetCode!vars)
  OBVIOUS
<1> USE DEF CodesInv
<1>0. TypeOK /\ HoldsCode
  OBVIOUS
<1>1. ASSUME NEW h \in Handlers, ForgotWrite(h)
      PROVE  [ResetCode!Next]_(ResetCode!vars)
  <2>1. at[h] = "forgotWrite" /\ Go(h, "idle", 0) /\ UNCHANGED grants
    BY <1>1 DEF ForgotWrite, Done
  <2>2. AcceptedAt("resetApply")' = AcceptedAt("resetApply")
    BY <1>0, <2>1, AcceptedGoes
  <2>3. /\ issued.reset < MaxCodes
        /\ issued'.reset = issued.reset + 1
    BY <1>0, <1>1 DEF ForgotWrite, TypeOK
  <2>4. LiveReset' \in {0, issued'.reset}
    BY <1>0, <1>1 DEF ForgotWrite, LiveReset, TypeOK
  <2>5. ResetCode!Issue
    BY <2>1, <2>2, <2>3, <2>4 DEF ResetCode!Issue
  <2>6. QED
    BY <2>5 DEF ResetCode!Next
<1>2. ASSUME NEW h \in Handlers, NEW g \in Guesses, ResetPassword(h, g)
      PROVE  [ResetCode!Next]_(ResetCode!vars)
  <2>0. /\ at[h] = "idle" /\ g # None /\ reset.code = g
        /\ UNCHANGED <<verification, reset, issued, grants>>
    BY <1>2 DEF ResetPassword
  <2>1. CASE Usable(reset) /\ Go(h, "resetApply", g)
    <3>1. LiveReset = g /\ LiveReset' = LiveReset
      BY <2>0, <2>1 DEF LiveReset, Usable
    <3>2. /\ AcceptedAt("resetApply")[h] = 0
          /\ AcceptedAt("resetApply")' = [AcceptedAt("resetApply") EXCEPT ![h] = g]
      BY <1>0, <2>0, <2>1, AcceptedGoes
    <3>3. ResetCode!Accept(h)
      BY <2>0, <2>1, <3>1, <3>2 DEF ResetCode!Accept, None
    <3>4. QED
      BY <3>3 DEF ResetCode!Next
  <2>2. CASE Done(h)
    BY <1>0, <2>0, <2>2, ResetStutters DEF Done
  <2>3. QED
    BY <1>2, <2>1, <2>2 DEF ResetPassword
<1>3. ASSUME NEW h \in Handlers, ResetApply(h)
      PROVE  [ResetCode!Next]_(ResetCode!vars)
  <2>1. at[h] = "resetApply" /\ Go(h, "idle", 0) /\ UNCHANGED issued /\ job[h] \in Codes
    BY <1>0, <1>3 DEF ResetApply, Done, HoldsCode
  <2>2. /\ AcceptedAt("resetApply")[h] = job[h]
        /\ AcceptedAt("resetApply")' = [AcceptedAt("resetApply") EXCEPT ![h] = 0]
    BY <1>0, <2>1, AcceptedGoes
  <2>3. job[h] # 0
    BY <2>1, CodesAssumption DEF Codes
  <2>4. LiveReset' = 0
    BY <1>0, <1>3 DEF ResetApply, LiveReset, TypeOK
  <2>5. grants'.reset = [grants.reset EXCEPT ![job[h]] = @ + 1]
    BY <1>0, <1>3 DEF ResetApply, TypeOK
  <2>6. ResetCode!Grant(h)
    BY <2>1, <2>2, <2>3, <2>4, <2>5 DEF ResetCode!Grant
  <2>7. QED
    BY <2>6 DEF ResetCode!Next
<1>4. ASSUME NEW h \in Handlers, ResetCount(h)
      PROVE  [ResetCode!Next]_(ResetCode!vars)
  <2>1. at[h] = "resetCount" /\ Go(h, "idle", 0) /\ UNCHANGED <<issued, grants>>
    BY <1>4 DEF ResetCount, Done
  <2>2. AcceptedAt("resetApply")' = AcceptedAt("resetApply")
    BY <1>0, <2>1, AcceptedGoes
  <2>3. LiveReset' = LiveReset
    BY <1>0, <1>4 DEF ResetCount, LiveReset, TypeOK
  <2>4. QED
    BY <2>1, <2>2, <2>3, ResetQuiet
<1>5. ASSUME NEW h \in Handlers, Fail(h)
      PROVE  [ResetCode!Next]_(ResetCode!vars)
  <2>1. Go(h, "idle", 0) /\ UNCHANGED <<verification, reset, issued, grants>>
    BY <1>5 DEF Fail, Done
  <2>2. CASE at[h] # "resetApply"
    BY <1>0, <2>1, <2>2, ResetStutters
  <2>3. CASE at[h] = "resetApply"
    <3>1. /\ AcceptedAt("resetApply")[h] = job[h]
          /\ AcceptedAt("resetApply")' = [AcceptedAt("resetApply") EXCEPT ![h] = 0]
      BY <1>0, <2>1, <2>3, AcceptedGoes
    <3>2. job[h] # 0
      BY <1>0, <2>3, CodesAssumption DEF HoldsCode, Codes
    <3>3. LiveReset' = LiveReset
      BY <2>1 DEF LiveReset
    <3>4. ResetCode!GiveUp(h)
      BY <2>1, <3>1, <3>2, <3>3 DEF ResetCode!GiveUp
    <3>5. QED
      BY <3>4 DEF ResetCode!Next
  <2>4. QED
    BY <2>2, <2>3
<1>6. CASE ResetTime
  <2>1. AcceptedAt("resetApply")' = AcceptedAt("resetApply")
    BY <1>6 DEF ResetTime, AcceptedAt
  <2>2. LiveReset' \in {LiveReset, 0}
    BY <1>0, <1>6 DEF ResetTime, LiveReset, TypeOK
  <2>3. QED
    BY <1>6, <2>1, <2>2, ResetQuiet DEF ResetTime
<1>7. ASSUME NEW h \in Handlers, ForgotPassword(h) \/ ResetReread(h)
      PROVE  [ResetCode!Next]_(ResetCode!vars)
  BY <1>0, <1>7, ResetStutters DEF ForgotPassword, ResetReread, Done
<1>8. ASSUME NEW h \in Handlers, VerifyEmail(h) \/ ResendVerificationCode(h) \/ ResendVerificationEmail(h)
      PROVE  [ResetCode!Next]_(ResetCode!vars)
  BY <1>0, <1>8, ResetStutters DEF VerifyEmail, ResendVerificationCode, ResendVerificationEmail
<1>9. ASSUME NEW h \in Handlers, VerifyCount(h) \/ TokenApply(h)
      PROVE  [ResetCode!Next]_(ResetCode!vars)
  BY <1>0, <1>9, ResetStutters DEF VerifyCount, TokenApply, Done
<1>10. ASSUME NEW h \in Handlers, ResendWrite(h)
       PROVE  [ResetCode!Next]_(ResetCode!vars)
  <2>1. at[h] = "resendWrite" /\ Go(h, "idle", 0) /\ UNCHANGED <<reset, grants>>
    BY <1>10 DEF ResendWrite, Done
  <2>2. issued'.reset = issued.reset
    BY <1>0, <1>10 DEF ResendWrite, TypeOK
  <2>3. QED
    BY <1>0, <2>1, <2>2, ResetStutters
<1>11. ASSUME NEW h \in Handlers, VerifyApply(h)
       PROVE  [ResetCode!Next]_(ResetCode!vars)
  <2>1. at[h] = "verifyApply" /\ Go(h, "idle", 0) /\ UNCHANGED <<reset, issued>>
    BY <1>11 DEF VerifyApply, Done
  <2>2. grants'.reset = grants.reset
    BY <1>0, <1>11 DEF VerifyApply, TypeOK
  <2>3. QED
    BY <1>0, <2>1, <2>2, ResetStutters
<1>12. ASSUME NEW h \in Handlers, NEW g \in Guesses, VerifyEmailWithCode(h, g) \/ VerifyResetCode(h, g)
       PROVE  [ResetCode!Next]_(ResetCode!vars)
  BY <1>0, <1>12, ResetStutters DEF VerifyEmailWithCode, VerifyResetCode, Done
<1>13. CASE VerificationTime \/ UNCHANGED vars
  <2>1. UNCHANGED <<reset, at, job, issued, grants>>
    BY <1>13 DEF VerificationTime, vars
  <2>2. LiveReset' = LiveReset /\ AcceptedAt("resetApply")' = AcceptedAt("resetApply")
    BY <2>1 DEF LiveReset, AcceptedAt
  <2>3. QED
    BY <2>1, <2>2, ResetQuiet
<1>14. QED
  BY <1>1, <1>2, <1>3, <1>4, <1>5, <1>6, <1>7, <1>8, <1>9, <1>10, <1>11, <1>12, <1>13
  DEF Next, VerificationNext, ResetNext

(***************************************************************************)
(* The verification code implements OneTimeCode: a code that was used,     *)
(* expired, replaced or guessed at MaxAttempts times is never accepted     *)
(* again, however the requests overlap and whichever of them fail.         *)
(***************************************************************************)
THEOREM VerificationCodeImplemented == Spec => ImplementsVerificationCode
<1>1. Init => VerificationCode!Init
  BY CodesAssumption DEF Init, VerificationCode!Init, LiveVerification, Usable, AcceptedAt,
                         VerificationCode!Codes, Codes
<1>2. QED
  BY <1>1, VerificationStep, CodesAlways, PTL DEF Spec, ImplementsVerificationCode, VerificationCode!Spec

(***************************************************************************)
(* The reset code implements OneTimeCode too: resetPassword checks a code  *)
(* that is in force and writes after hashing the password.                 *)
(***************************************************************************)
THEOREM ResetCodeImplemented == Spec => ImplementsResetCode
<1>1. Init => ResetCode!Init
  BY DEF Init, ResetCode!Init, LiveReset, AcceptedAt, ResetCode!Codes, Codes, None
<1>2. QED
  BY <1>1, ResetStep, CodesAlways, PTL DEF Spec, ImplementsResetCode, ResetCode!Spec

-----------------------------------------------------------------------------
(***************************************************************************)
(* Two-factor authentication.                                              *)
(***************************************************************************)

\* Codes of one of the first n batches.
OfABatch(n, codes) == \E b \in 0 .. n : codes \subseteq Batch(b)

Pcs == {"idle", "secret", "enable", "disable", "regenerate", "use"}

\* What a call that read the user has in hand, whoever wrote since.
InHand(n, q) ==
    /\ q.pc \in Pcs
    /\ q.pc = "use" => OfABatch(n, q.left) /\ OfABatch(n, {q.code})

\* What it has seen, if nobody wrote since.
Current(row, q) ==
    /\ q.pc = "enable" => row.secret
    /\ q.pc = "regenerate" => row.enabled
    /\ q.pc = "use" => row.enabled /\ q.left = row.codes \ {q.code}

\* The user's columns as long as no two calls overlapped.
RowInOrder(n, used, row) ==
    /\ row.codes \subseteq Batch(n) \ used
    /\ row.enabled => row.secret
    /\ row.codes # {} => row.enabled

UserRows == [secret : BOOLEAN, enabled : BOOLEAN, codes : SUBSET (Nat \X Nat)]

\* The inductive invariant.
TFInv ==
    /\ tf \in UserRows /\ batches \in 0 .. MaxBatches /\ overlap \in BOOLEAN
    /\ DOMAIN request = Requests /\ request = [r \in Requests |-> request[r]]
    /\ OfABatch(batches, tf.codes)
    /\ \A code \in spent : OfABatch(batches, {code})
    /\ \A r \in Requests : InHand(batches, request[r])
    /\ ~overlap => RowInOrder(batches, spent, tf) /\ \A r \in Requests : Current(tf, request[r])

\* A batch is of pairs, and no code is of two batches.
LEMMA BatchCodes ==
    ASSUME NEW b \in Nat
    PROVE  Batch(b) \in SUBSET (Nat \X Nat) /\ \A code \in Batch(b) : code[1] = b
BY TwoFactorAssumption DEF Batch

\* Codes that are of a batch stay so when another is stored.
LEMMA StillOfABatch ==
    ASSUME NEW n \in Nat, NEW m \in Nat, n <= m, NEW codes, OfABatch(n, codes)
    PROVE  OfABatch(m, codes)
<1>1. PICK b \in 0 .. n : codes \subseteq Batch(b)
  BY DEF OfABatch
<1>2. b \in 0 .. m
  BY <1>1
<1>3. QED
  BY <1>1, <1>2 DEF OfABatch

\* A call that reads.
LEMMA ReadsKeeps ==
    ASSUME TFInv, NEW r \in Requests, NEW q, Reads(r, q), InHand(batches, q), Current(tf, q)
    PROVE  TFInv'
<1>1. request' = [request EXCEPT ![r] = q] /\ UNCHANGED <<tf, batches, overlap, spent>>
  BY DEF Reads
<1>2. \A p \in Requests : request'[p] = IF p = r THEN q ELSE request[p]
  BY <1>1 DEF TFInv
<1>3. DOMAIN request' = Requests /\ request' = [p \in Requests |-> request'[p]]
  BY <1>1 DEF TFInv
<1>4. \A p \in Requests : InHand(batches, request'[p])
  BY <1>2 DEF TFInv
<1>5. ~overlap => \A p \in Requests : Current(tf, request'[p])
  BY <1>2 DEF TFInv
<1>6. QED
  BY <1>1, <1>3, <1>4, <1>5 DEF TFInv

\* A call that writes: what others have seen counts only if none was under way.
LEMMA WritesKeeps ==
    ASSUME TFInv, NEW r \in Requests, NEW pc, NEW row \in UserRows, Writes(r, pc, row),
           batches' \in 0 .. MaxBatches, batches <= batches',
           OfABatch(batches', row.codes),
           \A code \in spent' : OfABatch(batches', {code}),
           ~overlap => RowInOrder(batches', spent', row)
    PROVE  TFInv'
<1>0. batches \in Nat /\ batches' \in Nat
  BY TwoFactorAssumption DEF TFInv
<1>1. /\ tf' = row /\ request' = [request EXCEPT ![r] = AtEase]
      /\ overlap' = (overlap \/ \E q \in Requests \ {r} : request[q] # AtEase)
  BY DEF Writes
<1>2. \A p \in Requests : request'[p] = IF p = r THEN AtEase ELSE request[p]
  BY <1>1 DEF TFInv
<1>3. DOMAIN request' = Requests /\ request' = [p \in Requests |-> request'[p]]
  BY <1>1 DEF TFInv
<1>4. AtEase.pc = "idle"
  BY DEF AtEase
<1>5. ASSUME NEW p \in Requests PROVE InHand(batches', request'[p])
  <2>1. CASE p = r
    BY <1>2, <1>4, <2>1 DEF InHand, Pcs
  <2>2. CASE p # r
    <3>1. InHand(batches, request[p]) /\ request'[p] = request[p]
      BY <1>2, <2>2 DEF TFInv
    <3>2. QED
      BY <1>0, <3>1, StillOfABatch DEF InHand
  <2>3. QED
    BY <2>1, <2>2
<1>6. ~overlap' => ~overlap /\ \A p \in Requests : request'[p] = AtEase
  BY <1>1, <1>2
<1>7. ~overlap' => \A p \in Requests : Current(row, request'[p])
  BY <1>4, <1>6 DEF Current
<1>8. overlap' \in BOOLEAN
  BY <1>1 DEF TFInv
<1>9. QED
  BY <1>1, <1>3, <1>5, <1>6, <1>7, <1>8 DEF TFInv

\* What the invariant says of the row.
LEMMA TFRow ==
    ASSUME TFInv
    PROVE  /\ tf \in UserRows /\ batches \in Nat /\ batches \in 0 .. MaxBatches
           /\ tf.secret \in BOOLEAN /\ tf.enabled \in BOOLEAN /\ tf.codes \in SUBSET (Nat \X Nat)
BY TwoFactorAssumption DEF TFInv, UserRows

\* A new batch: none of its codes has been accepted.
LEMMA NewBatch ==
    ASSUME TFInv, NextBatch
    PROVE  /\ batches' = batches + 1 /\ batches' \in 0 .. MaxBatches /\ batches <= batches'
           /\ Batch(batches + 1) \in SUBSET (Nat \X Nat)
           /\ OfABatch(batches', Batch(batches + 1))
           /\ \A code \in spent : OfABatch(batches', {code})
           /\ Batch(batches + 1) \subseteq Batch(batches') \ spent
<1>1. /\ batches' = batches + 1 /\ batches \in Nat /\ batches' \in Nat
      /\ batches' \in 0 .. MaxBatches /\ batches <= batches'
  BY TFRow, TwoFactorAssumption DEF NextBatch
<1>2. Batch(batches + 1) \in SUBSET (Nat \X Nat)
  BY <1>1, BatchCodes
<1>3. OfABatch(batches', Batch(batches + 1))
  BY <1>1 DEF OfABatch
<1>4. \A code \in spent : OfABatch(batches', {code})
  BY <1>1, StillOfABatch DEF TFInv
<1>5. ASSUME NEW code \in Batch(batches + 1), code \in spent PROVE FALSE
  <2>1. PICK b \in 0 .. batches : {code} \subseteq Batch(b)
    BY <1>5 DEF TFInv, OfABatch
  <2>2. b \in Nat /\ b # batches + 1
    BY <1>1
  <2>3. code[1] = b
    BY <2>1, <2>2, BatchCodes
  <2>4. code[1] = batches + 1
    BY <1>1, <1>5, BatchCodes
  <2>5. QED
    BY <2>2, <2>3, <2>4
<1>6. QED
  BY <1>1, <1>2, <1>3, <1>4, <1>5

\* The first halves.
LEMMA ReadingKeeps ==
    ASSUME TFInv, NEW r \in Requests,
           Enable2FA(r) \/ Verify2FA(r) \/ Disable2FA(r) \/ RegenerateBackupCodes(r)
    PROVE  TFInv'
<1> DEFINE q(pc) == [pc |-> pc]
<1>1. ASSUME NEW pc \in {"secret", "enable", "disable", "regenerate"}
      PROVE  InHand(batches, q(pc)) /\ q(pc).pc = pc
  BY DEF InHand, Pcs
<1>2. CASE Enable2FA(r)
  <2>1. Reads(r, q("secret")) /\ Current(tf, q("secret"))
    BY <1>2 DEF Enable2FA, Current
  <2>2. QED
    BY <1>1, <2>1, ReadsKeeps
<1>3. CASE Verify2FA(r)
  <2>1. Reads(r, q("enable")) /\ Current(tf, q("enable"))
    BY <1>3 DEF Verify2FA, Current
  <2>2. QED
    BY <1>1, <2>1, ReadsKeeps
<1>4. CASE Disable2FA(r)
  <2>1. Reads(r, q("disable")) /\ Current(tf, q("disable"))
    BY <1>4 DEF Disable2FA, Current
  <2>2. QED
    BY <1>1, <2>1, ReadsKeeps
<1>5. CASE RegenerateBackupCodes(r)
  <2>1. Reads(r, q("regenerate")) /\ Current(tf, q("regenerate"))
    BY <1>5 DEF RegenerateBackupCodes, Current
  <2>2. QED
    BY <1>1, <2>1, ReadsKeeps
<1>6. QED
  BY <1>2, <1>3, <1>4, <1>5

\* The list without the code is of the same batch.
LEMMA VerifyBackupCodeKeeps ==
    ASSUME TFInv, NEW r \in Requests, NEW code \in tf.codes, VerifyBackupCode(r, code)
    PROVE  TFInv'
<1> DEFINE q == [pc |-> "use", code |-> code, left |-> tf.codes \ {code}]
<1>1. Reads(r, q) /\ tf.enabled
  BY DEF VerifyBackupCode
<1>2. q.pc = "use" /\ q.code = code /\ q.left = tf.codes \ {code}
  OBVIOUS
<1> HIDE DEF q
<1>3. PICK b \in 0 .. batches : tf.codes \subseteq Batch(b)
  BY DEF TFInv, OfABatch
<1>4. InHand(batches, q)
  BY <1>2, <1>3 DEF InHand, OfABatch, Pcs
<1>5. Current(tf, q)
  BY <1>1, <1>2 DEF Current
<1>6. QED
  BY <1>1, <1>4, <1>5, ReadsKeeps

\* enable2FA stores a secret, disable2FA takes everything away.
LEMMA SecretWriteKeeps ==
    ASSUME TFInv, NEW r \in Requests, SecretWrite(r)
    PROVE  TFInv'
<1> DEFINE row == [tf EXCEPT !.secret = TRUE]
<1>1. Writes(r, "secret", row) /\ UNCHANGED <<batches, spent>>
  BY DEF SecretWrite
<1>2. row \in UserRows /\ row.secret /\ row.enabled = tf.enabled /\ row.codes = tf.codes
  BY TFRow DEF UserRows
<1> HIDE DEF row
<1>3. ~overlap => RowInOrder(batches', spent', row)
  BY <1>1, <1>2 DEF TFInv, RowInOrder
<1>4. OfABatch(batches', row.codes) /\ \A code \in spent' : OfABatch(batches', {code})
  BY <1>1, <1>2 DEF TFInv
<1>5. batches' \in 0 .. MaxBatches /\ batches <= batches'
  BY <1>1, TFRow
<1>6. QED
  BY <1>1, <1>2, <1>3, <1>4, <1>5, WritesKeeps

\* Disabling clears the secret and the codes.
LEMMA DisableWriteKeeps ==
    ASSUME TFInv, NEW r \in Requests, DisableWrite(r)
    PROVE  TFInv'
<1> DEFINE row == [secret |-> FALSE, enabled |-> FALSE, codes |-> {}]
<1>1. Writes(r, "disable", row) /\ UNCHANGED <<batches, spent>>
  BY DEF DisableWrite
<1>2. row \in UserRows /\ ~row.enabled /\ row.codes = {}
  BY DEF UserRows
<1> HIDE DEF row
<1>3. RowInOrder(batches', spent', row)
  BY <1>2 DEF RowInOrder
<1>4. batches' \in 0 .. MaxBatches /\ batches <= batches' /\ 0 \in 0 .. batches'
  BY <1>1, TFRow
<1>5. OfABatch(batches', row.codes) /\ \A code \in spent' : OfABatch(batches', {code})
  BY <1>1, <1>2, <1>4 DEF TFInv, OfABatch
<1>6. QED
  BY <1>1, <1>2, <1>3, <1>4, <1>5, WritesKeeps

\* verify2FA and regenerateBackupCodes store a new batch.
LEMMA EnableWriteKeeps ==
    ASSUME TFInv, NEW r \in Requests, EnableWrite(r)
    PROVE  TFInv'
<1> DEFINE row == [tf EXCEPT !.enabled = TRUE, !.codes = Batch(batches + 1)]
<1>1. NextBatch /\ Writes(r, "enable", row) /\ UNCHANGED spent /\ request[r].pc = "enable"
  BY DEF EnableWrite, Writes
<1>2. row \in UserRows /\ row.secret = tf.secret /\ row.enabled /\ row.codes = Batch(batches + 1)
  BY <1>1, TFRow, NewBatch DEF UserRows
<1> HIDE DEF row
<1>3. ~overlap => tf.secret
  BY <1>1 DEF TFInv, Current
<1>4. ~overlap => RowInOrder(batches', spent', row)
  BY <1>1, <1>2, <1>3, NewBatch DEF RowInOrder
<1>5. QED
  BY <1>1, <1>2, <1>4, NewBatch, WritesKeeps

\* Regenerating writes a whole new batch.
LEMMA RegenerateWriteKeeps ==
    ASSUME TFInv, NEW r \in Requests, RegenerateWrite(r)
    PROVE  TFInv'
<1> DEFINE row == [tf EXCEPT !.codes = Batch(batches + 1)]
<1>1. NextBatch /\ Writes(r, "regenerate", row) /\ UNCHANGED spent /\ request[r].pc = "regenerate"
  BY DEF RegenerateWrite, Writes
<1>2. row \in UserRows /\ row.secret = tf.secret /\ row.enabled = tf.enabled /\ row.codes = Batch(batches + 1)
  BY <1>1, TFRow, NewBatch DEF UserRows
<1> HIDE DEF row
<1>3. ~overlap => tf.enabled /\ (tf.enabled => tf.secret)
  BY <1>1 DEF TFInv, Current, RowInOrder
<1>4. ~overlap => RowInOrder(batches', spent', row)
  BY <1>1, <1>2, <1>3, NewBatch DEF RowInOrder
<1>5. QED
  BY <1>1, <1>2, <1>4, NewBatch, WritesKeeps

\* verifyBackupCode stores the list it kept aside.
LEMMA UseWriteKeeps ==
    ASSUME TFInv, NEW r \in Requests, UseWrite(r)
    PROVE  TFInv'
<1> DEFINE q == request[r]
           row == [tf EXCEPT !.codes = q.left]
<1>1. /\ Writes(r, "use", row) /\ q.pc = "use"
      /\ spent' = spent \cup {q.code} /\ UNCHANGED batches
  BY DEF UseWrite, Writes
<1>2. OfABatch(batches, q.left) /\ OfABatch(batches, {q.code})
  BY <1>1 DEF TFInv, InHand
<1>3. q.left \in SUBSET (Nat \X Nat)
  <2>1. PICK b \in 0 .. batches : q.left \subseteq Batch(b)
    BY <1>2 DEF OfABatch
  <2>2. b \in Nat
    BY TFRow
  <2>3. QED
    BY <2>1, <2>2, BatchCodes
<1>4. row \in UserRows /\ row.secret = tf.secret /\ row.enabled = tf.enabled /\ row.codes = q.left
  <2> HIDE DEF q
  <2>1. QED
    BY <1>3, TFRow DEF UserRows
<1>5. ~overlap => Current(tf, q) /\ RowInOrder(batches, spent, tf)
  BY DEF TFInv
<1> HIDE DEF row, q
<1>6. ~overlap => RowInOrder(batches', spent', row)
  BY <1>1, <1>4, <1>5 DEF RowInOrder, Current
<1>7. OfABatch(batches', row.codes) /\ \A code \in spent' : OfABatch(batches', {code})
  BY <1>1, <1>2, <1>4 DEF TFInv
<1>8. batches' \in 0 .. MaxBatches /\ batches <= batches'
  BY <1>1, TFRow
<1>9. QED
  BY <1>1, <1>4, <1>6, <1>7, <1>8, WritesKeeps

\* The invariant holds.
LEMMA TFInvariant == TFSpec => []TFInv
<1>1. TFInit => TFInv
  <2> SUFFICES ASSUME TFInit PROVE TFInv
    OBVIOUS
  <2>1. tf \in UserRows /\ tf.codes = {} /\ ~tf.enabled
    BY DEF TFInit, UserRows
  <2>2. batches = 0 /\ overlap = FALSE /\ spent = {} /\ 0 \in 0 .. MaxBatches /\ 0 \in 0 .. 0
    BY TwoFactorAssumption DEF TFInit
  <2>3. DOMAIN request = Requests /\ request = [r \in Requests |-> request[r]]
    BY DEF TFInit
  <2>4. \A r \in Requests : request[r].pc = "idle"
    BY DEF TFInit, AtEase
  <2>5. \A r \in Requests : InHand(batches, request[r]) /\ Current(tf, request[r])
    BY <2>4 DEF InHand, Current, Pcs
  <2>6. OfABatch(batches, tf.codes) /\ RowInOrder(batches, spent, tf)
    BY <2>1, <2>2 DEF OfABatch, RowInOrder
  <2>7. QED
    BY <2>1, <2>2, <2>3, <2>5, <2>6 DEF TFInv
<1>2. TFInv /\ [TFNext]_tfVars => TFInv'
  <2> SUFFICES ASSUME TFInv, [TFNext]_tfVars PROVE TFInv'
    OBVIOUS
  <2>1. CASE TFNext
    BY <2>1, ReadingKeeps, VerifyBackupCodeKeeps, SecretWriteKeeps, DisableWriteKeeps, EnableWriteKeeps,
       RegenerateWriteKeeps, UseWriteKeeps DEF TFNext
  <2>2. CASE UNCHANGED tfVars
    BY <2>2 DEF tfVars, TFInv, OfABatch, InHand, Current, RowInOrder
  <2>3. QED
    BY <2>1, <2>2
<1>3. QED
  BY <1>1, <1>2, PTL DEF TFSpec

\* The codes on file are of one batch, however enabling, regenerating, using and
\* disabling overlap; and without an overlap they are of the last batch, unused,
\* and on file only while two-factor authentication is on: for any number of
\* calls and batches of any size.
THEOREM BackupCodesOfOneBatch == TFSpec => []OneBatch
<1>1. TFInv => OneBatch
  <2> SUFFICES ASSUME TFInv PROVE OneBatch
    OBVIOUS
  <2>1. PICK b \in 0 .. batches : tf.codes \subseteq Batch(b)
    BY DEF TFInv, OfABatch
  <2>2. b \in 0 .. MaxBatches
    BY TFRow, TwoFactorAssumption
  <2>3. ~overlap => RowInOrder(batches, spent, tf)
    BY DEF TFInv
  <2>4. QED
    BY <2>1, <2>2, <2>3 DEF OneBatch, RowInOrder
<1>2. QED
  BY <1>1, TFInvariant, PTL

-----------------------------------------------------------------------------
(***************************************************************************)
(* The ways into an account.                                               *)
(***************************************************************************)

\* A row's columns, and a request between its read and its write.
AccountRows ==
    [exists : {TRUE}, password : BOOLEAN, ids : [Providers -> Ids \cup {NoId}],
     listed : SUBSET Providers, clerk : BOOLEAN]
TaskPlaces ==
    {"register", "create", "validate", "oauth", "sync", "link", "unlink", "clerkCreate", "clerkUpdate"}
OpenTasks ==
    [place : TaskPlaces, email : Emails, provider : Providers \cup {"none"}, id : Ids \cup {NoId},
     stale : BOOLEAN, found : BOOLEAN, google : Ids \cup {NoId}, listed : SUBSET Providers]

\* A row that only its providers let in, where nothing else does.
OnlyProviders(row) == row.exists /\ ~row.password /\ ~row.clerk

\* Such a row has an id for every provider it lists.
ListedHaveIds(row) == OnlyProviders(row) => \A p \in row.listed : row.ids[p] # NoId

\* What a request knows of the row it read, whatever was written since.
TaskGood(row, k) ==
    /\ k.place \in {"link", "unlink", "clerkUpdate"} \/ k.found => row.exists
    /\ ~row.exists => k.listed = {}
    /\ k.place \in {"oauth", "sync", "link"} => k.id \in Ids
    /\ k.place \in {"oauth", "link", "unlink"} => k.provider \in Providers

\* What its copy of the list is worth when no unlink was written since: the ids
\* of the providers it lists are there, and an unlink leaves one of them.
CopyGood(row, k) ==
    OnlyProviders(row) /\ ~k.stale =>
        /\ \A p \in k.listed : row.ids[p] # NoId
        /\ k.place = "unlink" => \E q \in k.listed : q # k.provider

\* The inductive invariant.
AccountsInv ==
    /\ rows \in [Emails -> AccountRows \cup {Absent}]
    /\ task \in [Tasks -> OpenTasks \cup {NoTask}]
    /\ \A t \in Tasks : task[t] # NoTask =>
          /\ TaskGood(rows[task[t].email], task[t])
          /\ task[t].email \notin undone => CopyGood(rows[task[t].email], task[t])
    /\ \A e \in Emails \ undone : ListedHaveIds(rows[e])

\* What a step must not do.
WaysKept == \A e \in Emails \ undone' : WayIn(rows[e]) => WayIn(rows'[e])

\* The columns of a row, and what tells the rows that are from those that are not.
LEMMA RowColumns ==
    ASSUME AccountsInv, NEW e \in Emails
    PROVE  /\ rows[e] \in AccountRows \cup {Absent}
           /\ rows[e].exists \in BOOLEAN
           /\ rows[e].exists => rows[e] \in AccountRows
           /\ ~rows[e].exists => rows[e] = Absent
<1>1. rows[e] \in AccountRows \cup {Absent}
  BY DEF AccountsInv
<1>2. CASE rows[e] \in AccountRows
  <2>1. rows[e].exists = TRUE
    BY <1>2 DEF AccountRows
  <2>2. QED
    BY <1>1, <1>2, <2>1
<1>3. CASE rows[e] = Absent
  <2>1. rows[e].exists = FALSE
    BY <1>3 DEF Absent
  <2>2. QED
    BY <1>1, <1>3, <2>1
<1>4. QED
  BY <1>1, <1>2, <1>3

\* A request is idle or between its read and its write.
LEMMA TaskFields ==
    ASSUME AccountsInv, NEW t \in Tasks
    PROVE  /\ task[t].place = "idle" <=> task[t] = NoTask
           /\ task[t] # NoTask =>
                /\ task[t] \in OpenTasks /\ task[t].email \in Emails
                /\ TaskGood(rows[task[t].email], task[t])
                /\ task[t].email \notin undone => CopyGood(rows[task[t].email], task[t])
BY DEF AccountsInv, OpenTasks, NoTask, TaskPlaces

\* A row with one provider's id and the list of providers written.
RowWith(row, p, id, listed) == [row EXCEPT !.ids[p] = id, !.listed = listed]

\* What that leaves of the row.
LEMMA ColumnsWritten ==
    ASSUME NEW row \in AccountRows, NEW p \in Providers, NEW id \in Ids \cup {NoId},
           NEW listed \in SUBSET Providers
    PROVE  /\ RowWith(row, p, id, listed) \in AccountRows
           /\ RowWith(row, p, id, listed).password = row.password
           /\ RowWith(row, p, id, listed).clerk = row.clerk
           /\ RowWith(row, p, id, listed).listed = listed
           /\ RowWith(row, p, id, listed).ids[p] = id
           /\ \A q \in Providers \ {p} : RowWith(row, p, id, listed).ids[q] = row.ids[q]
<1> DEFINE ids == [row.ids EXCEPT ![p] = id]
<1>1. row.ids \in [Providers -> Ids \cup {NoId}]
  BY DEF AccountRows
<1>2. /\ ids \in [Providers -> Ids \cup {NoId}] /\ ids[p] = id
      /\ \A q \in Providers \ {p} : ids[q] = row.ids[q]
  BY <1>1
<1> HIDE DEF ids
<1>3. RowWith(row, p, id, listed) = [row EXCEPT !.ids = ids, !.listed = listed]
  BY DEF AccountRows, RowWith, ids
<1>4. QED
  BY <1>2, <1>3 DEF AccountRows

\* A write that takes no way in: passwords and Clerk users stay, and where there
\* is neither, so do the ids.
Keeps(old, row) ==
    /\ old.exists /\ old.password => row.password
    /\ old.exists /\ old.clerk => row.clerk
    /\ old.exists /\ ~row.password /\ ~row.clerk =>
         \A p \in Providers : old.ids[p] # NoId => row.ids[p] # NoId

\* After such a write a copy is worth what it was before.
LEMMA CopyCarries ==
    ASSUME NEW k \in OpenTasks, NEW old \in AccountRows \cup {Absent}, NEW row \in AccountRows,
           Keeps(old, row), TaskGood(old, k)
    PROVE  TaskGood(row, k) /\ (CopyGood(old, k) => CopyGood(row, k))
<1>1. row.exists /\ k.listed \in SUBSET Providers
  BY DEF AccountRows, OpenTasks
<1>2. TaskGood(row, k)
  BY <1>1 DEF TaskGood
<1>3. ASSUME CopyGood(old, k), OnlyProviders(row), ~k.stale
      PROVE  /\ \A p \in k.listed : row.ids[p] # NoId
             /\ k.place = "unlink" => \E q \in k.listed : q # k.provider
  <2>1. CASE old.exists
    <3>1. OnlyProviders(old)
      BY <1>3, <2>1 DEF OnlyProviders, Keeps
    <3>2. QED
      BY <1>1, <1>3, <2>1, <3>1 DEF CopyGood, OnlyProviders, Keeps
  <2>2. CASE ~old.exists
    <3>1. k.listed = {} /\ k.place # "unlink"
      BY <2>2 DEF TaskGood
    <3>2. QED
      BY <3>1
  <2>3. QED
    BY <2>1, <2>2
<1>4. QED
  BY <1>2, <1>3 DEF CopyGood

\* It leaves a way in where there was one.
LEMMA WayStays ==
    ASSUME NEW old, NEW row \in AccountRows, Keeps(old, row), WayIn(old)
    PROVE  WayIn(row)
<1>1. row.exists
  BY DEF AccountRows
<1>2. QED
  BY <1>1 DEF WayIn, Keeps

\* The write of a request, and what it leaves of the others' copies.
LEMMA WriteKeeps ==
    ASSUME AccountsInv, NEW t \in Tasks, task[t] # NoTask, NEW row \in AccountRows,
           Write(t, task[t].email, row), undone \subseteq undone',
           Keeps(rows[task[t].email], row), task[t].email \notin undone' => ListedHaveIds(row)
    PROVE  AccountsInv' /\ WaysKept
<1> DEFINE e == task[t].email
           old == rows[e]
<1>1. e \in Emails /\ old \in AccountRows \cup {Absent}
  BY TaskFields, RowColumns
<1>2. /\ rows' = [rows EXCEPT ![e] = row]
      /\ task' = [task EXCEPT ![t] = NoTask]
  BY DEF Write
<1>3. \A f \in Emails : rows'[f] = IF f = e THEN row ELSE rows[f]
  BY <1>2 DEF AccountsInv
<1>4. \A u \in Tasks : task'[u] = IF u = t THEN NoTask ELSE task[u]
  BY <1>2 DEF AccountsInv
<1>5. rows' \in [Emails -> AccountRows \cup {Absent}] /\ task' \in [Tasks -> OpenTasks \cup {NoTask}]
  BY <1>1, <1>2 DEF AccountsInv
<1> HIDE DEF e, old
<1>6. ASSUME NEW u \in Tasks, task'[u] # NoTask
      PROVE  /\ TaskGood(rows'[task'[u].email], task'[u])
             /\ task'[u].email \notin undone' => CopyGood(rows'[task'[u].email], task'[u])
  <2> DEFINE k == task[u]
  <2>1. task'[u] = k /\ k # NoTask
    BY <1>4, <1>6
  <2>2. /\ k \in OpenTasks /\ k.email \in Emails /\ TaskGood(rows[k.email], k)
        /\ k.email \notin undone => CopyGood(rows[k.email], k)
    BY <2>1, TaskFields
  <2> HIDE DEF k
  <2>3. CASE k.email = e
    <3>1. TaskGood(row, k) /\ (CopyGood(old, k) => CopyGood(row, k))
      BY <1>1, <2>2, <2>3, CopyCarries DEF e, old
    <3>2. rows'[e] = row
      BY <1>1, <1>3
    <3>3. QED
      BY <2>1, <2>2, <2>3, <3>1, <3>2 DEF old
  <2>4. CASE k.email # e
    <3>1. rows'[k.email] = rows[k.email]
      BY <1>3, <2>2, <2>4
    <3>2. QED
      BY <2>1, <2>2, <3>1
  <2>5. QED
    BY <2>3, <2>4
<1>7. ASSUME NEW f \in Emails \ undone' PROVE ListedHaveIds(rows'[f])
  <2>1. CASE f = e
    BY <1>3, <2>1 DEF e
  <2>2. CASE f # e
    BY <1>3, <2>2 DEF AccountsInv
  <2>3. QED
    BY <2>1, <2>2
<1>8. WaysKept
  <2>1. WayIn(old) => WayIn(row)
    BY WayStays DEF e, old
  <2>2. QED
    BY <1>3, <2>1 DEF WaysKept, old
<1>9. QED
  BY <1>5, <1>6, <1>7, <1>8 DEF AccountsInv

\* A request that gives up.
LEMMA AccountFailKeeps ==
    ASSUME AccountsInv, NEW t \in Tasks, AccountFail(t)
    PROVE  AccountsInv' /\ WaysKept
<1>1. task' = [task EXCEPT ![t] = NoTask] /\ UNCHANGED <<rows, undone>>
  BY DEF AccountFail
<1>2. \A u \in Tasks : task'[u] = IF u = t THEN NoTask ELSE task[u]
  BY <1>1 DEF AccountsInv
<1>3. task' \in [Tasks -> OpenTasks \cup {NoTask}]
  BY <1>1 DEF AccountsInv
<1>4. QED
  BY <1>1, <1>2, <1>3 DEF AccountsInv, WaysKept

\* A request that reads the row: its copy is the row's.
LEMMA BeginKeeps ==
    ASSUME AccountsInv, NEW t \in Tasks, NEW place \in TaskPlaces, NEW e \in Emails,
           NEW p \in Providers \cup {"none"}, NEW id \in Ids \cup {NoId},
           Begin(t, place, e, p, id), UNCHANGED <<rows, undone>>,
           place \in {"link", "unlink", "clerkUpdate"} => rows[e].exists,
           place \in {"oauth", "sync", "link"} => id \in Ids,
           place \in {"oauth", "link", "unlink"} => p \in Providers,
           place = "unlink" => p \in rows[e].listed /\ (rows[e].password \/ rows[e].listed # {p})
    PROVE  AccountsInv' /\ WaysKept
<1> DEFINE listed == IF rows[e].exists THEN rows[e].listed ELSE {}
           google == IF rows[e].exists THEN rows[e].ids["google"] ELSE NoId
           k == [place |-> place, email |-> e, provider |-> p, id |-> id, stale |-> FALSE,
                 found |-> rows[e].exists, google |-> google, listed |-> listed]
<1>1. task' = [task EXCEPT ![t] = k]
  BY DEF Begin
<1>2. /\ listed \in SUBSET Providers /\ google \in Ids \cup {NoId} /\ rows[e].exists \in BOOLEAN
  <2>1. "google" \in Providers
    BY DEF Providers
  <2>2. QED
    BY <2>1, RowColumns DEF AccountRows
<1>3. ListedHaveIds(rows[e]) => CopyGood(rows[e], k)
  BY DEF ListedHaveIds, CopyGood, OnlyProviders
<1>4. k.email = e /\ k.listed = listed
  OBVIOUS
<1>5. TaskGood(rows[e], k)
  BY DEF TaskGood
<1> HIDE DEF listed, google
<1>6. k \in OpenTasks
  BY <1>2 DEF OpenTasks
<1> HIDE DEF k
<1>7. \A u \in Tasks : task'[u] = IF u = t THEN k ELSE task[u]
  BY <1>1 DEF AccountsInv
<1>8. task' \in [Tasks -> OpenTasks \cup {NoTask}]
  BY <1>1, <1>6 DEF AccountsInv
<1>9. ASSUME NEW u \in Tasks, task'[u] # NoTask
      PROVE  /\ TaskGood(rows[task'[u].email], task'[u])
             /\ task'[u].email \notin undone => CopyGood(rows[task'[u].email], task'[u])
  BY <1>3, <1>4, <1>5, <1>7, <1>9 DEF AccountsInv
<1>10. QED
  BY <1>8, <1>9 DEF AccountsInv, WaysKept

\* A write of the list from a copy older than an unlink is noted.
LEMMA StaleNoted ==
    ASSUME AccountsInv, NEW t \in Tasks, task[t] # NoTask, NoteStale(t)
    PROVE  /\ undone \subseteq undone'
           /\ task[t].email \notin undone' =>
                ~task[t].stale /\ task[t].email \notin undone
                /\ CopyGood(rows[task[t].email], task[t])
<1>1. /\ task[t].email \in Emails
      /\ task[t].email \notin undone => CopyGood(rows[task[t].email], task[t])
  BY TaskFields
<1>2. undone' = undone \cup {e \in Emails : task[t].stale /\ task[t].email = e}
  BY DEF NoteStale
<1>3. QED
  BY <1>1, <1>2

\* A provider's id is stored and the provider listed.
LEMMA LinkedKeeps ==
    ASSUME AccountsInv, NEW t \in Tasks, task[t] # NoTask, rows[task[t].email].exists,
           NEW p \in Providers, NEW id \in Ids, NoteStale(t),
           Write(t, task[t].email, [rows[task[t].email] EXCEPT !.ids[p] = id,
                                                              !.listed = task[t].listed \cup {p}])
    PROVE  AccountsInv' /\ WaysKept
<1> DEFINE e == task[t].email
           old == rows[e]
           listed == task[t].listed \cup {p}
           new == RowWith(old, p, id, listed)
<1>1. old \in AccountRows /\ listed \in SUBSET Providers
  BY TaskFields, RowColumns DEF OpenTasks
<1>2. id \in Ids \cup {NoId} /\ id # NoId
  BY AccountsAssumption
<1>3. Write(t, e, new)
  BY DEF RowWith
<1>4. e \notin undone' => (OnlyProviders(old) => \A q \in task[t].listed : old.ids[q] # NoId)
  BY StaleNoted DEF CopyGood, OnlyProviders
<1>5. undone \subseteq undone'
  BY StaleNoted
<1>6. old.exists
  OBVIOUS
<1> HIDE DEF old
<1>7. /\ new \in AccountRows /\ new.ids[p] = id /\ new.listed = listed
      /\ new.password = old.password /\ new.clerk = old.clerk
      /\ \A q \in Providers \ {p} : new.ids[q] = old.ids[q]
  BY <1>1, <1>2, ColumnsWritten
<1> HIDE DEF new
<1>8. Keeps(old, new)
  BY <1>2, <1>7 DEF Keeps
<1>9. e \notin undone' => ListedHaveIds(new)
  BY <1>1, <1>2, <1>4, <1>6, <1>7 DEF ListedHaveIds, OnlyProviders
<1> HIDE DEF listed
<1>10. QED
  BY <1>3, <1>5, <1>7, <1>8, <1>9, WriteKeeps DEF old

\* A row for somebody new.
LEMMA CreatedKeeps ==
    ASSUME AccountsInv, NEW t \in Tasks, task[t] # NoTask, ~rows[task[t].email].exists,
           NEW password \in BOOLEAN, NEW ids \in [Providers -> Ids \cup {NoId}],
           NEW listed \in SUBSET Providers, NEW clerk \in BOOLEAN,
           \A p \in listed : ids[p] # NoId,
           Write(t, task[t].email, NewRow(password, ids, listed, clerk)), UNCHANGED undone
    PROVE  AccountsInv' /\ WaysKept
<1> DEFINE new == NewRow(password, ids, listed, clerk)
<1>1. new \in AccountRows /\ new.ids = ids /\ new.listed = listed
  BY DEF NewRow, AccountRows
<1>2. Write(t, task[t].email, new) /\ undone \subseteq undone'
  OBVIOUS
<1> HIDE DEF new
<1>3. Keeps(rows[task[t].email], new)
  BY DEF Keeps
<1>4. ListedHaveIds(new)
  BY <1>1 DEF ListedHaveIds
<1>5. QED
  BY <1>1, <1>2, <1>3, <1>4, WriteKeeps

\* register, UsersService.create and ClerkStrategy.validate: rows that list nothing.
LEMMA InsertKeeps ==
    ASSUME AccountsInv, NEW t \in Tasks, RegisterWrite(t) \/ InsertWrite(t)
    PROVE  AccountsInv' /\ WaysKept
<1>1. task[t] # NoTask
  <2>1. task[t].place # "idle"
    BY DEF RegisterWrite, InsertWrite
  <2>2. QED
    BY <2>1 DEF NoTask
<1>2. NoIds \in [Providers -> Ids \cup {NoId}] /\ {} \in SUBSET Providers
  BY DEF NoIds
<1>3. /\ ~rows[task[t].email].exists /\ UNCHANGED undone
      /\ \E password, clerk \in BOOLEAN : Write(t, task[t].email, NewRow(password, NoIds, {}, clerk))
  <2>1. CASE RegisterWrite(t)
    BY <2>1 DEF RegisterWrite
  <2>2. CASE InsertWrite(t)
    BY <2>2 DEF InsertWrite
  <2>3. QED
    BY <2>1, <2>2
<1>4. PICK password \in BOOLEAN, clerk \in BOOLEAN :
          Write(t, task[t].email, NewRow(password, NoIds, {}, clerk))
  BY <1>3
<1>5. QED
  BY <1>1, <1>2, <1>3, <1>4, CreatedKeeps

\* A row that a provider's login or Clerk creates, with the id in one column.
LEMMA OneIdKeeps ==
    ASSUME AccountsInv, NEW t \in Tasks, task[t] # NoTask, ~rows[task[t].email].exists,
           NEW p \in Providers, NEW id \in Ids \cup {NoId}, NEW listed \in SUBSET {p},
           NEW clerk \in BOOLEAN, id # NoId \/ listed = {}, UNCHANGED undone,
           Write(t, task[t].email, NewRow(FALSE, [NoIds EXCEPT ![p] = id], listed, clerk))
    PROVE  AccountsInv' /\ WaysKept
<1> DEFINE ids == [NoIds EXCEPT ![p] = id]
<1>1. ids \in [Providers -> Ids \cup {NoId}] /\ ids[p] = id
  BY DEF NoIds
<1>2. Write(t, task[t].email, NewRow(FALSE, ids, listed, clerk))
  OBVIOUS
<1> HIDE DEF ids
<1>3. listed \in SUBSET Providers /\ (\A q \in listed : ids[q] # NoId) /\ FALSE \in BOOLEAN
  BY <1>1
<1>4. QED
  BY <1>1, <1>2, <1>3, CreatedKeeps

\* resetPassword adds a way in and takes none.
LEMMA SetPasswordKeeps ==
    ASSUME AccountsInv, NEW e \in Emails, SetPassword(e)
    PROVE  AccountsInv' /\ WaysKept
<1> DEFINE old == rows[e]
           new == [old EXCEPT !.password = TRUE]
<1>1. /\ rows[e].exists /\ rows' = [rows EXCEPT ![e] = new] /\ UNCHANGED <<task, undone>>
  BY DEF SetPassword
<1>2. old \in AccountRows
  BY <1>1, RowColumns
<1>3. \A f \in Emails : rows'[f] = IF f = e THEN new ELSE rows[f]
  BY <1>1 DEF AccountsInv
<1>4. new \in AccountRows /\ new.exists = TRUE /\ new.password = TRUE /\ new.clerk = old.clerk
  BY <1>2 DEF AccountRows
<1>5. old \in AccountRows \cup {Absent}
  BY <1>2
<1> HIDE DEF new, old
<1>6. rows' \in [Emails -> AccountRows \cup {Absent}]
  BY <1>1, <1>4 DEF AccountsInv
<1>7. Keeps(old, new) /\ ListedHaveIds(new)
  BY <1>4 DEF Keeps, ListedHaveIds, OnlyProviders
<1>8. ASSUME NEW t \in Tasks, task[t] # NoTask
      PROVE  /\ TaskGood(rows'[task[t].email], task[t])
             /\ task[t].email \notin undone => CopyGood(rows'[task[t].email], task[t])
  <2> DEFINE k == task[t]
  <2>1. /\ k \in OpenTasks /\ k.email \in Emails /\ TaskGood(rows[k.email], k)
        /\ k.email \notin undone => CopyGood(rows[k.email], k)
    BY <1>8, TaskFields
  <2> HIDE DEF k
  <2>2. CASE k.email = e
    <3>1. TaskGood(old, k) /\ (e \notin undone => CopyGood(old, k))
      BY <2>1, <2>2 DEF old
    <3>2. TaskGood(new, k) /\ (CopyGood(old, k) => CopyGood(new, k))
      BY <1>4, <1>5, <1>7, <2>1, <3>1, CopyCarries
    <3>3. rows'[e] = new
      BY <1>3
    <3>4. QED
      BY <2>2, <3>1, <3>2, <3>3 DEF k
  <2>3. CASE k.email # e
    BY <1>3, <2>1, <2>3 DEF k
  <2>4. QED
    BY <2>2, <2>3
<1>9. ASSUME NEW f \in Emails \ undone PROVE ListedHaveIds(rows'[f])
  BY <1>3, <1>7 DEF AccountsInv
<1>10. WaysKept
  <2>1. WayIn(new)
    BY <1>4 DEF WayIn
  <2>2. QED
    BY <1>3, <2>1 DEF WaysKept
<1>11. QED
  BY <1>1, <1>6, <1>8, <1>9, <1>10 DEF AccountsInv

\* findOrCreateOAuthUser, second half.
LEMMA OAuthWriteKeeps ==
    ASSUME AccountsInv, NEW t \in Tasks, OAuthWrite(t)
    PROVE  AccountsInv' /\ WaysKept
<1> DEFINE e == task[t].email
           p == task[t].provider
           id == task[t].id
<1>1. task[t] # NoTask /\ task[t].place = "oauth"
  BY DEF OAuthWrite, NoTask
<1>2. p \in Providers /\ id \in Ids /\ id # NoId /\ (task[t].found => rows[e].exists)
  BY <1>1, TaskFields, AccountsAssumption DEF TaskGood
<1>3. CASE /\ task[t].found /\ NoteStale(t)
           /\ Write(t, e, [rows[e] EXCEPT !.ids[p] = id, !.listed = task[t].listed \cup {p}])
  BY <1>1, <1>2, <1>3, LinkedKeeps
<1>4. CASE /\ ~rows[e].exists /\ UNCHANGED undone
           /\ Write(t, e, NewRow(FALSE, [NoIds EXCEPT ![p] = id], {p}, FALSE))
  <2>1. {p} \in SUBSET {p} /\ FALSE \in BOOLEAN /\ id \in Ids \cup {NoId}
    BY <1>2
  <2>2. QED
    BY <1>1, <1>2, <1>4, <2>1, OneIdKeeps
<1>5. QED
  BY <1>3, <1>4 DEF OAuthWrite

\* linkGoogleAccount and linkFacebookAccount, second half.
LEMMA LinkWriteKeeps ==
    ASSUME AccountsInv, NEW t \in Tasks, LinkWrite(t)
    PROVE  AccountsInv' /\ WaysKept
<1> DEFINE e == task[t].email
           p == task[t].provider
           id == task[t].id
<1>1. task[t] # NoTask /\ task[t].place = "link"
  BY DEF LinkWrite, NoTask
<1>2. p \in Providers /\ id \in Ids /\ rows[e].exists
  BY <1>1, TaskFields DEF TaskGood
<1>3. /\ NoteStale(t)
      /\ Write(t, e, [rows[e] EXCEPT !.ids[p] = id, !.listed = task[t].listed \cup {p}])
  BY DEF LinkWrite
<1>4. QED
  BY <1>1, <1>2, <1>3, LinkedKeeps

\* unlinkSocialAccount, second half: where neither password nor Clerk user is,
\* another provider is left that has its id; the others' copies are old now.
LEMMA UnlinkWriteKeeps ==
    ASSUME AccountsInv, NEW t \in Tasks, UnlinkWrite(t)
    PROVE  AccountsInv' /\ WaysKept
<1> DEFINE e == task[t].email
           old == rows[e]
           p == task[t].provider
           copy == task[t].listed
           new == RowWith(old, p, NoId, copy \ {p})
<1>1. /\ task[t] # NoTask /\ task[t].place = "unlink" /\ NoteStale(t)
  BY DEF UnlinkWrite, NoTask
<1>2. /\ e \in Emails /\ p \in Providers /\ old.exists /\ old \in AccountRows
      /\ copy \in SUBSET Providers
  BY <1>1, TaskFields, RowColumns DEF TaskGood, OpenTasks
<1>3. rows' = [rows EXCEPT ![e] = new]
  BY DEF UnlinkWrite, RowWith, AccountsInv
<1>4. /\ undone \subseteq undone'
      /\ e \notin undone' /\ OnlyProviders(old) =>
           (\A q \in copy : old.ids[q] # NoId) /\ (\E q \in copy : q # p)
  BY <1>1, StaleNoted DEF CopyGood
<1> DEFINE aged(k) == [k EXCEPT !.stale = TRUE]
<1>5. task' = [u \in Tasks |->
                 IF u = t THEN NoTask
                 ELSE IF task[u].place # "idle" /\ task[u].email = e THEN aged(task[u]) ELSE task[u]]
  BY DEF UnlinkWrite
<1>6. ASSUME NEW u \in Tasks
      PROVE  \/ task'[u] = NoTask
             \/ task[u] # NoTask /\ task[u].email = e /\ task'[u] = aged(task[u])
             \/ task[u] # NoTask /\ task[u].email # e /\ task'[u] = task[u]
  BY <1>5, TaskFields
<1> HIDE DEF old, copy, p
<1>7. /\ new \in AccountRows /\ new.password = old.password /\ new.clerk = old.clerk
      /\ new.listed = copy \ {p} /\ \A q \in Providers \ {p} : new.ids[q] = old.ids[q]
  <2>1. NoId \in Ids \cup {NoId} /\ copy \ {p} \in SUBSET Providers
    BY <1>2
  <2>2. QED
    BY <1>2, <2>1, ColumnsWritten
<1> HIDE DEF new, e, aged
<1>8. rows' \in [Emails -> AccountRows \cup {Absent}] /\ \A f \in Emails : rows'[f] = IF f = e THEN new ELSE rows[f]
  BY <1>2, <1>3, <1>7 DEF AccountsInv
<1>9. ASSUME NEW k \in OpenTasks, TaskGood(old, k)
      PROVE  /\ aged(k) \in OpenTasks /\ aged(k).email = k.email
             /\ TaskGood(new, aged(k)) /\ CopyGood(new, aged(k))
  <2>1. /\ aged(k) \in OpenTasks /\ aged(k).stale = TRUE /\ aged(k).email = k.email
        /\ aged(k).place = k.place /\ aged(k).id = k.id /\ aged(k).provider = k.provider
    BY DEF OpenTasks, aged
  <2>2. new.exists
    BY <1>7 DEF AccountRows
  <2>3. TaskGood(new, aged(k))
    BY <1>9, <2>1, <2>2 DEF TaskGood
  <2>4. CopyGood(new, aged(k))
    BY <2>1 DEF CopyGood
  <2>5. QED
    BY <2>1, <2>3, <2>4
<1>10. ASSUME NEW u \in Tasks, task'[u] # NoTask
       PROVE  /\ task'[u] \in OpenTasks /\ TaskGood(rows'[task'[u].email], task'[u])
              /\ task'[u].email \notin undone' => CopyGood(rows'[task'[u].email], task'[u])
  <2>1. CASE task[u] # NoTask /\ task[u].email = e /\ task'[u] = aged(task[u])
    <3>1. task[u] \in OpenTasks /\ TaskGood(old, task[u])
      BY <2>1, TaskFields DEF old
    <3>2. rows'[e] = new
      BY <1>2, <1>8
    <3>3. QED
      BY <1>9, <2>1, <3>1, <3>2
  <2>2. CASE task[u] # NoTask /\ task[u].email # e /\ task'[u] = task[u]
    <3>1. /\ task[u] \in OpenTasks /\ task[u].email \in Emails /\ TaskGood(rows[task[u].email], task[u])
          /\ task[u].email \notin undone => CopyGood(rows[task[u].email], task[u])
      BY <2>2, TaskFields
    <3>2. rows'[task[u].email] = rows[task[u].email]
      BY <1>8, <2>2, <3>1
    <3>3. QED
      BY <1>4, <2>2, <3>1, <3>2
  <2>3. QED
    BY <1>6, <1>10, <2>1, <2>2
<1>11. task' \in [Tasks -> OpenTasks \cup {NoTask}]
  <2>1. task' = [u \in Tasks |-> task'[u]]
    BY <1>5
  <2>2. QED
    BY <1>10, <2>1
<1>12. ASSUME NEW f \in Emails \ undone' PROVE ListedHaveIds(rows'[f])
  <2>1. CASE f = e
    <3>1. ASSUME OnlyProviders(new) PROVE \A q \in new.listed : new.ids[q] # NoId
      BY <1>2, <1>4, <1>7, <1>12, <2>1, <3>1 DEF OnlyProviders
    <3>2. QED
      BY <1>8, <2>1, <3>1 DEF ListedHaveIds
  <2>2. CASE f # e
    BY <1>4, <1>8, <2>2 DEF AccountsInv
  <2>3. QED
    BY <2>1, <2>2
<1>13. ASSUME e \notin undone' PROVE WayIn(new)
  <2>1. new.exists
    BY <1>7 DEF AccountRows
  <2>2. CASE new.password \/ new.clerk
    BY <2>1, <2>2 DEF WayIn
  <2>3. CASE ~new.password /\ ~new.clerk
    <3>1. OnlyProviders(old)
      BY <1>2, <1>7, <2>3 DEF OnlyProviders
    <3>2. PICK q \in copy : q # p
      BY <1>4, <1>13, <3>1
    <3>3. q \in Providers /\ new.ids[q] # NoId
      BY <1>2, <1>4, <1>7, <1>13, <3>1, <3>2
    <3>4. QED
      BY <2>1, <3>3 DEF WayIn
  <2>4. QED
    BY <2>2, <2>3
<1>14. WaysKept
  BY <1>8, <1>13 DEF WaysKept
<1>15. QED
  BY <1>8, <1>10, <1>11, <1>12, <1>14 DEF AccountsInv

\* syncGoogleUser, second half: the id without an entry in the list.
LEMMA SyncWriteKeeps ==
    ASSUME AccountsInv, NEW t \in Tasks, SyncWrite(t)
    PROVE  AccountsInv' /\ WaysKept
<1> DEFINE e == task[t].email
           id == task[t].id
<1>1. task[t] # NoTask /\ task[t].place = "sync" /\ "google" \in Providers
  BY DEF SyncWrite, NoTask, Providers
<1>2. id \in Ids /\ id \in Ids \cup {NoId} /\ id # NoId /\ (task[t].found => rows[e].exists)
  BY <1>1, TaskFields, AccountsAssumption DEF TaskGood
<1>3. CASE /\ task[t].found /\ UNCHANGED undone
           /\ Write(t, e, [rows[e] EXCEPT !.ids["google"] = id])
  <2> DEFINE old == rows[e]
             listed == old.listed
             new == RowWith(old, "google", id, listed)
  <2>1. old \in AccountRows /\ e \in Emails
    BY <1>1, <1>2, <1>3, TaskFields, RowColumns
  <2>2. Write(t, e, new)
    <3>1. [old EXCEPT !.ids["google"] = id] = new
      BY <2>1 DEF AccountRows, RowWith
    <3>2. QED
      BY <1>3, <3>1
  <2>3. e \notin undone => ListedHaveIds(old)
    BY <2>1 DEF AccountsInv
  <2>4. listed \in SUBSET Providers
    BY <2>1 DEF AccountRows
  <2>5. old.exists
    BY <1>2, <1>3
  <2> HIDE DEF old, id
  <2> HIDE DEF listed
  <2>6. /\ new \in AccountRows /\ new.listed = listed /\ new.ids["google"] = id
        /\ new.password = old.password /\ new.clerk = old.clerk
        /\ \A q \in Providers \ {"google"} : new.ids[q] = old.ids[q]
    BY <1>1, <1>2, <2>1, <2>4, ColumnsWritten
  <2> HIDE DEF new
  <2>7. Keeps(old, new)
    BY <1>2, <2>6 DEF Keeps
  <2>8. ListedHaveIds(old) => ListedHaveIds(new)
    BY <1>2, <2>4, <2>5, <2>6 DEF ListedHaveIds, OnlyProviders, listed
  <2>9. undone \subseteq undone' /\ (e \notin undone' => ListedHaveIds(new))
    BY <1>3, <2>3, <2>8
  <2>10. QED
    BY <1>1, <2>2, <2>6, <2>7, <2>9, WriteKeeps DEF old
<1>4. CASE /\ ~rows[e].exists /\ UNCHANGED undone
           /\ Write(t, e, NewRow(FALSE, [NoIds EXCEPT !["google"] = id], {}, FALSE))
  <2>1. {} \in SUBSET {"google"} /\ FALSE \in BOOLEAN
    OBVIOUS
  <2>2. QED
    BY <1>1, <1>2, <1>4, <2>1, OneIdKeeps
<1>5. QED
  BY <1>3, <1>4 DEF SyncWrite

\* Clerk's user.created, second half: the row has a Clerk user afterwards.
LEMMA ClerkCreateWriteKeeps ==
    ASSUME AccountsInv, NEW t \in Tasks, NEW id \in Ids \cup {NoId}, ClerkCreateWrite(t, id)
    PROVE  AccountsInv' /\ WaysKept
<1> DEFINE e == task[t].email
           google == IF id = NoId THEN {} ELSE {"google"}
           kept == IF id = NoId THEN task[t].google ELSE id
           listed == task[t].listed \cup google
<1>1. task[t] # NoTask /\ "google" \in Providers
  BY DEF ClerkCreateWrite, NoTask, Providers
<1>2. /\ kept \in Ids \cup {NoId} /\ listed \in SUBSET Providers
      /\ task[t].found => rows[e].exists
  BY <1>1, TaskFields DEF OpenTasks, TaskGood
<1>3. CASE /\ task[t].found /\ NoteStale(t)
           /\ Write(t, e, [rows[e] EXCEPT !.clerk = TRUE, !.ids["google"] = kept, !.listed = listed])
  <2> DEFINE old == rows[e]
             ids == [old.ids EXCEPT !["google"] = kept]
             new == [old EXCEPT !.clerk = TRUE, !.ids = ids, !.listed = listed]
  <2>1. old \in AccountRows
    BY <1>1, <1>2, <1>3, TaskFields, RowColumns
  <2>2. Write(t, e, new)
    <3>1. [old EXCEPT !.clerk = TRUE, !.ids["google"] = kept, !.listed = listed] = new
      BY <2>1 DEF AccountRows
    <3>2. QED
      BY <1>3, <3>1
  <2>3. undone \subseteq undone'
    BY <1>1, <1>3, StaleNoted
  <2> HIDE DEF old, listed, kept
  <2>4. ids \in [Providers -> Ids \cup {NoId}]
    BY <1>1, <1>2, <2>1 DEF AccountRows
  <2> HIDE DEF ids
  <2>5. new \in AccountRows /\ new.clerk = TRUE /\ new.password = old.password
    BY <1>2, <2>1, <2>4 DEF AccountRows
  <2> HIDE DEF new
  <2>6. Keeps(old, new) /\ ListedHaveIds(new)
    BY <2>5 DEF Keeps, ListedHaveIds, OnlyProviders
  <2>7. QED
    BY <1>1, <2>2, <2>3, <2>5, <2>6, WriteKeeps DEF old
<1>4. CASE /\ ~rows[e].exists /\ UNCHANGED undone
           /\ Write(t, e, NewRow(FALSE, [NoIds EXCEPT !["google"] = id], google, TRUE))
  <2>1. google \in SUBSET {"google"} /\ TRUE \in BOOLEAN /\ (id # NoId \/ google = {})
    OBVIOUS
  <2> HIDE DEF google
  <2>2. QED
    BY <1>1, <1>4, <2>1, OneIdKeeps
<1>5. QED
  BY <1>3, <1>4 DEF ClerkCreateWrite

\* Clerk's user.updated, second half.
LEMMA ClerkUpdateWriteKeeps ==
    ASSUME AccountsInv, NEW t \in Tasks, NEW id \in Ids \cup {NoId}, ClerkUpdateWrite(t, id)
    PROVE  AccountsInv' /\ WaysKept
<1> DEFINE e == task[t].email
<1>1. task[t] # NoTask /\ task[t].place = "clerkUpdate" /\ "google" \in Providers
  BY DEF ClerkUpdateWrite, NoTask, Providers
<1>2. rows[e].exists
  BY <1>1, TaskFields DEF TaskGood
<1>3. CASE /\ id # NoId /\ NoteStale(t)
           /\ Write(t, e, [rows[e] EXCEPT !.ids["google"] = id,
                                          !.listed = task[t].listed \cup {"google"}])
  BY <1>1, <1>2, <1>3, LinkedKeeps
<1>4. CASE NoteStale(t) /\ Write(t, e, [rows[e] EXCEPT !.listed = task[t].listed])
  <2> DEFINE old == rows[e]
             listed == task[t].listed
             new == [old EXCEPT !.listed = listed]
  <2>1. old \in AccountRows /\ listed \in SUBSET Providers
    BY <1>1, <1>2, TaskFields, RowColumns DEF OpenTasks
  <2>2. /\ undone \subseteq undone'
        /\ e \notin undone' => (OnlyProviders(old) => \A q \in listed : old.ids[q] # NoId)
    BY <1>1, <1>4, StaleNoted DEF CopyGood
  <2>3. Write(t, e, new) /\ old.exists
    BY <1>2, <1>4
  <2> HIDE DEF old, listed
  <2>4. /\ new \in AccountRows /\ new.listed = listed /\ new.ids = old.ids
        /\ new.password = old.password /\ new.clerk = old.clerk
    BY <2>1 DEF AccountRows
  <2> HIDE DEF new
  <2>5. Keeps(old, new)
    BY <2>4 DEF Keeps
  <2>6. e \notin undone' => ListedHaveIds(new)
    BY <2>2, <2>3, <2>4 DEF ListedHaveIds, OnlyProviders
  <2>7. QED
    BY <1>1, <2>2, <2>3, <2>4, <2>5, <2>6, WriteKeeps DEF old
<1>5. QED
  BY <1>3, <1>4 DEF ClerkUpdateWrite

\* The first halves: each reads the row it will write.
ReadsRow(t, e) ==
    \/ Register(t, e) \/ Create(t, e) \/ ValidateClerk(t, e)
    \/ ClerkCreateUser(t, e) \/ ClerkUpdateUser(t, e)
    \/ \E p \in Linkable : UnlinkSocialAccount(t, p, e)
    \/ \E p \in Providers, id \in Ids : FindOrCreateOAuthUser(t, p, id, e) \/ LinkAccount(t, p, e, id)
    \/ \E id \in Ids : SyncGoogleUser(t, id, e)

\* What such a request starts with is true of the row.
LEMMA RowReadKeeps ==
    ASSUME AccountsInv, NEW t \in Tasks, NEW e \in Emails, ReadsRow(t, e)
    PROVE  AccountsInv' /\ WaysKept
<1>0. /\ "none" \in Providers \cup {"none"} /\ "google" \in Providers
      /\ \A p \in Providers : p \in Providers \cup {"none"}
      /\ Linkable \subseteq Providers
      /\ NoId \in Ids \cup {NoId} /\ \A id \in Ids : id \in Ids \cup {NoId}
      /\ "register" \in TaskPlaces /\ "clerkCreate" \in TaskPlaces /\ "clerkUpdate" \in TaskPlaces
      /\ "unlink" \in TaskPlaces /\ "oauth" \in TaskPlaces /\ "link" \in TaskPlaces
      /\ "sync" \in TaskPlaces /\ "create" \in TaskPlaces /\ "validate" \in TaskPlaces
  BY DEF Providers, Linkable, TaskPlaces
<1>1. CASE Register(t, e)
  BY <1>0, <1>1, BeginKeeps DEF Register
<1>2. CASE Create(t, e)
  BY <1>0, <1>2, BeginKeeps DEF Create
<1>3. CASE ValidateClerk(t, e)
  BY <1>0, <1>3, BeginKeeps DEF ValidateClerk
<1>4. CASE ClerkCreateUser(t, e)
  BY <1>0, <1>4, BeginKeeps DEF ClerkCreateUser
<1>5. CASE ClerkUpdateUser(t, e)
  BY <1>0, <1>5, BeginKeeps DEF ClerkUpdateUser
<1>6. ASSUME NEW p \in Linkable, UnlinkSocialAccount(t, p, e) PROVE AccountsInv' /\ WaysKept
  BY <1>0, <1>6, BeginKeeps DEF UnlinkSocialAccount
<1>7. ASSUME NEW p \in Providers, NEW id \in Ids, FindOrCreateOAuthUser(t, p, id, e)
      PROVE  AccountsInv' /\ WaysKept
  BY <1>0, <1>7, BeginKeeps DEF FindOrCreateOAuthUser
<1>8. ASSUME NEW p \in Providers, NEW id \in Ids, LinkAccount(t, p, e, id)
      PROVE  AccountsInv' /\ WaysKept
  BY <1>0, <1>8, BeginKeeps DEF LinkAccount
<1>9. ASSUME NEW id \in Ids, SyncGoogleUser(t, id, e) PROVE AccountsInv' /\ WaysKept
  <2>1. UNCHANGED <<rows, undone>> /\ \E f \in Emails : Begin(t, "sync", f, "google", id)
    BY <1>9 DEF SyncGoogleUser, Owner
  <2>2. PICK f \in Emails : Begin(t, "sync", f, "google", id)
    BY <2>1
  <2>3. QED
    BY <1>0, <2>1, <2>2, BeginKeeps
<1>10. QED
  BY <1>1, <1>2, <1>3, <1>4, <1>5, <1>6, <1>7, <1>8, <1>9 DEF ReadsRow

\* Every step of the accounts keeps the invariant and takes no last way in.
LEMMA AccountsStep ==
    ASSUME AccountsInv, [AccountsNext]_accountVars
    PROVE  AccountsInv' /\ WaysKept
<1>1. CASE UNCHANGED accountVars
  BY <1>1 DEF accountVars, AccountsInv, WaysKept
<1>2. ASSUME NEW t \in Tasks,
             \/ RegisterWrite(t) \/ InsertWrite(t) \/ OAuthWrite(t) \/ SyncWrite(t)
             \/ LinkWrite(t) \/ UnlinkWrite(t)
      PROVE  AccountsInv' /\ WaysKept
  BY <1>2, InsertKeeps, OAuthWriteKeeps, SyncWriteKeeps, LinkWriteKeeps, UnlinkWriteKeeps
<1>3. ASSUME NEW t \in Tasks, NEW id \in Ids \cup {NoId},
             ClerkCreateWrite(t, id) \/ ClerkUpdateWrite(t, id)
      PROVE  AccountsInv' /\ WaysKept
  BY <1>3, ClerkCreateWriteKeeps, ClerkUpdateWriteKeeps
<1>4. ASSUME NEW t \in Tasks, AccountFail(t) PROVE AccountsInv' /\ WaysKept
  BY <1>4, AccountFailKeeps
<1>5. ASSUME NEW e \in Emails, SetPassword(e) PROVE AccountsInv' /\ WaysKept
  BY <1>5, SetPasswordKeeps
<1>6. ASSUME NEW t \in Tasks, NEW e \in Emails, ReadsRow(t, e) PROVE AccountsInv' /\ WaysKept
  BY <1>6, RowReadKeeps
<1>7. ASSUME NEW t \in Tasks, NEW e \in Emails,
             \/ Register(t, e) \/ Create(t, e) \/ ValidateClerk(t, e)
             \/ ClerkCreateUser(t, e) \/ ClerkUpdateUser(t, e)
             \/ \E p \in Linkable : UnlinkSocialAccount(t, p, e)
      PROVE  ReadsRow(t, e)
  BY <1>7 DEF ReadsRow
<1>8. ASSUME NEW t \in Tasks, NEW e \in Emails, NEW id \in Ids,
             \/ LoginWithGoogle(t, id, e) \/ LoginWithFacebook(t, id, e) \/ FirebaseSync(t, id, e)
             \/ LinkGoogleAccount(t, e, id) \/ LinkFacebookAccount(t, e, id)
             \/ SyncGoogleUser(t, id, e)
      PROVE  ReadsRow(t, e)
  <2>1. "google" \in Providers /\ "facebook" \in Providers /\ "firebase" \in Providers
    BY DEF Providers
  <2>2. QED
    BY <1>8, <2>1 DEF ReadsRow, LoginWithGoogle, LoginWithFacebook, FirebaseSync,
                      LinkGoogleAccount, LinkFacebookAccount
<1>9. QED
  BY <1>1, <1>2, <1>3, <1>4, <1>5, <1>6, <1>7, <1>8 DEF AccountsNext

\* The rows at first list no provider.
LEMMA AccountsStart ==
    ASSUME AccountsInit
    PROVE  AccountsInv
<1>1. NoIds \in [Providers -> Ids \cup {NoId}]
  BY DEF NoIds
<1>2. ASSUME NEW pw \in BOOLEAN, NEW clerk \in BOOLEAN
      PROVE  /\ NewRow(pw, NoIds, {}, clerk) \in AccountRows
             /\ ListedHaveIds(NewRow(pw, NoIds, {}, clerk))
  BY <1>1 DEF NewRow, AccountRows, ListedHaveIds
<1>3. ASSUME NEW e \in Emails
      PROVE  rows[e] \in AccountRows \cup {Absent} /\ ListedHaveIds(rows[e])
  <2>1. CASE rows[e] = Absent
    BY <2>1 DEF Absent, ListedHaveIds, OnlyProviders
  <2>2. CASE rows[e] # Absent
    <3>1. PICK pw \in BOOLEAN, clerk \in BOOLEAN : rows[e] = NewRow(pw, NoIds, {}, clerk)
      BY <2>2 DEF AccountsInit
    <3>2. QED
      BY <1>2, <3>1
  <2>3. QED
    BY <2>1, <2>2
<1>4. rows \in [Emails -> AccountRows \cup {Absent}]
  <2>1. rows = [e \in Emails |-> rows[e]]
    BY DEF AccountsInit
  <2>2. QED
    BY <1>3, <2>1
<1>5. task \in [Tasks -> OpenTasks \cup {NoTask}] /\ \A t \in Tasks : task[t] = NoTask
  BY DEF AccountsInit
<1>6. QED
  BY <1>3, <1>4, <1>5 DEF AccountsInv

(***************************************************************************)
(* Nobody loses the last way into an account: whatever registrations,      *)
(* users created by admins, logins with a provider, links, unlinks,        *)
(* password resets and Clerk events overlap on one row, no step takes the  *)
(* last way in from it, unless a list read before an unlink was written    *)
(* over the unlink.  unlinkSocialAccount checks its list on a row read     *)
(* before an await; the invariant says what the copy is worth at the       *)
(* write.                                                                  *)
(***************************************************************************)
THEOREM LastSignInMethodKept == AccountsSpec => SignInMethodKept
<1>1. AccountsInit => AccountsInv
  BY AccountsStart
<1>2. AccountsInv /\ [AccountsNext]_accountVars =>
          AccountsInv' /\ [\A e \in Emails \ undone' : WayIn(rows[e]) => WayIn(rows'[e])]_accountVars
  BY AccountsStep DEF WaysKept
<1>3. QED
  BY <1>1, <1>2, PTL DEF AccountsSpec, SignInMethodKept

-----------------------------------------------------------------------------
(***************************************************************************)
(* Who is served.                                                          *)
(***************************************************************************)

GuardNames == {"jwt", "roles", "clerk", "firebase", "permissions", "signature"}

\* The policies a route may have: one with roles asks for them after the token,
\* or before it, when there is no role to see.
PolicyGood(p) ==
    /\ p.guards \in Seq(GuardNames)
    /\ p.roles # {} => p.guards \in {<<"jwt", "roles">>, <<"roles", "jwt">>} /\ "none" \notin p.roles

Policies == {k.policy : k \in Kinds}
Names == {k.name : k \in Kinds}

CallRecords ==
    [place : {"guards", "serve"}, left : Seq(GuardNames), policy : Policies, name : Names,
     credential : Credentials, user : Users \cup {Nobody}, id : BOOLEAN,
     seen : Roles \cup {"none"}, moved : BOOLEAN]

\* The role a guard has read is the stored one, unless that changed since.
SeenIsStored(r, k) ==
    /\ k.user \in Users /\ k.seen # "none"
    /\ ~k.moved => k.seen = r[k.user]

\* How far a request on a restricted route has got.
Progress(r, k) ==
    k.policy.roles # {} =>
        \/ k.left = k.policy.guards /\ k.seen = "none"
        \/ k.left = <<"roles">> /\ SeenIsStored(r, k)
        \/ k.left = <<>> /\ SeenIsStored(r, k) /\ k.seen \in k.policy.roles

CallGood(r, k) == (k.place = "guards" <=> k.left # <<>>) /\ Progress(r, k)

\* The inductive invariant.
AccessInv ==
    /\ role \in [Users -> Roles \cup {"none"}]
    /\ call \in [Calls -> CallRecords \cup {Idle}]
    /\ \A c \in Calls : call[c] # Idle => CallGood(role, call[c])

\* Routes of which every policy is good.
RoutesGood(S) == \A r \in S : PolicyGood(r.policy)

\* Good policies, by the constructors the controllers' guards are written with.
LEMMA ConstructorsGood ==
    ASSUME NEW names
    PROVE  /\ RoutesGood(Open(names)) /\ RoutesGood(Token(names)) /\ RoutesGood(Clerk(names))
           /\ RoutesGood(Signed(names))
           /\ \A permission : RoutesGood(Permitted(permission, names))
           /\ \A roles : "none" \notin roles =>
                 RoutesGood(Restricted(roles, names)) /\ RoutesGood(RolesFirst(roles, names))
<1>1. ASSUME NEW p, PolicyGood(p) PROVE RoutesGood(Behind(p, names))
  BY <1>1 DEF RoutesGood, Behind
<1>2. /\ <<>> \in Seq(GuardNames) /\ <<"jwt">> \in Seq(GuardNames) /\ <<"clerk">> \in Seq(GuardNames)
      /\ <<"signature">> \in Seq(GuardNames) /\ <<"firebase", "permissions">> \in Seq(GuardNames)
      /\ <<"jwt", "roles">> \in Seq(GuardNames) /\ <<"roles", "jwt">> \in Seq(GuardNames)
  BY DEF GuardNames
<1>3. \A guards \in Seq(GuardNames) : \A needs : PolicyGood(Policy(guards, {}, needs))
  BY DEF PolicyGood, Policy
<1>4. ASSUME NEW roles, "none" \notin roles
      PROVE  /\ PolicyGood(Policy(<<"jwt", "roles">>, roles, {}))
             /\ PolicyGood(Policy(<<"roles", "jwt">>, roles, {}))
  BY <1>2, <1>4 DEF PolicyGood, Policy
<1>5. /\ RoutesGood(Open(names)) /\ RoutesGood(Token(names)) /\ RoutesGood(Clerk(names))
      /\ RoutesGood(Signed(names))
  BY <1>1, <1>2, <1>3 DEF Open, Token, Clerk, Signed
<1>6. ASSUME NEW permission PROVE RoutesGood(Permitted(permission, names))
  BY <1>1, <1>2, <1>3 DEF Permitted
<1>7. ASSUME NEW roles, "none" \notin roles
      PROVE  RoutesGood(Restricted(roles, names)) /\ RoutesGood(RolesFirst(roles, names))
  BY <1>1, <1>4, <1>7 DEF Restricted, RolesFirst
<1>8. QED
  BY <1>5, <1>6, <1>7

\* So is every route of every controller.
LEMMA EveryRouteGood == RoutesGood(Routes)
<1>1. \A S, T : RoutesGood(S) /\ RoutesGood(T) => RoutesGood(S \cup T)
  BY DEF RoutesGood
<1>2. /\ "none" \notin Admins /\ "none" \notin Growers /\ "none" \notin {"SUPER_ADMIN"}
      /\ "none" \notin {"ADMIN"}
  BY DEF Admins, Growers
<1>3. /\ RoutesGood(AppRoutes) /\ RoutesGood(CsrfRoutes) /\ RoutesGood(DatabaseHealthRoutes)
      /\ RoutesGood(AdminRoutes) /\ RoutesGood(CacheMonitoringRoutes) /\ RoutesGood(AlertRulesRoutes1)
      /\ RoutesGood(AlertRulesRoutes2) /\ RoutesGood(AlertsRoutes)
  BY <1>1, <1>2, ConstructorsGood
     DEF AppRoutes, CsrfRoutes, DatabaseHealthRoutes, AdminRoutes, CacheMonitoringRoutes,
         AlertRulesRoutes1, AlertRulesRoutes2, AlertsRoutes
<1>4. /\ RoutesGood(AnalyticsRoutes1) /\ RoutesGood(AnalyticsRoutes2) /\ RoutesGood(AnalyticsRoutes3)
      /\ RoutesGood(AnalyticsRoutes4) /\ RoutesGood(AnalyticsRoutes5) /\ RoutesGood(AuthRoutes1)
      /\ RoutesGood(AuthRoutes2) /\ RoutesGood(AuthRoutes3)
  BY <1>1, <1>2, ConstructorsGood
     DEF AnalyticsRoutes1, AnalyticsRoutes2, AnalyticsRoutes3, AnalyticsRoutes4,
         AnalyticsRoutes5, AuthRoutes1, AuthRoutes2, AuthRoutes3
<1>5. /\ RoutesGood(AuthRoutes4) /\ RoutesGood(AuthRoutes5) /\ RoutesGood(AuthRoutes6)
      /\ RoutesGood(AuthRoutes7) /\ RoutesGood(AuthRoutes8) /\ RoutesGood(AuthRoutes9)
      /\ RoutesGood(AuthRoutes10) /\ RoutesGood(AuthRoutes11)
  BY <1>1, <1>2, ConstructorsGood
     DEF AuthRoutes4, AuthRoutes5, AuthRoutes6, AuthRoutes7, AuthRoutes8, AuthRoutes9,
         AuthRoutes10, AuthRoutes11
<1>6. /\ RoutesGood(AuthRoutes12) /\ RoutesGood(AuthRoutes13) /\ RoutesGood(AuthRoutes14)
      /\ RoutesGood(AuthRoutes15) /\ RoutesGood(AuthRoutes16) /\ RoutesGood(AuthViewsRoutes)
      /\ RoutesGood(CartAnalyticsRoutes1) /\ RoutesGood(CartAnalyticsRoutes2)
  BY <1>1, <1>2, ConstructorsGood
     DEF AuthRoutes12, AuthRoutes13, AuthRoutes14, AuthRoutes15, AuthRoutes16,
         AuthViewsRoutes, CartAnalyticsRoutes1, CartAnalyticsRoutes2
<1>7. /\ RoutesGood(CartAnalyticsRoutes3) /\ RoutesGood(CartAnalyticsRoutes4) /\ RoutesGood(CartRoutes1)
      /\ RoutesGood(CartRoutes2) /\ RoutesGood(CartRoutes3) /\ RoutesGood(CartRoutes4)
      /\ RoutesGood(CategoriesRoutes) /\ RoutesGood(DevicesRoutes1)
  BY <1>1, <1>2, ConstructorsGood
     DEF CartAnalyticsRoutes3, CartAnalyticsRoutes4, CartRoutes1, CartRoutes2, CartRoutes3,
         CartRoutes4, CategoriesRoutes, DevicesRoutes1
<1>8. /\ RoutesGood(DevicesRoutes2) /\ RoutesGood(DevicesRoutes3) /\ RoutesGood(IotDevicesRoutes)
      /\ RoutesGood(GatewayRoutes1) /\ RoutesGood(GatewayRoutes2) /\ RoutesGood(RateLimitRoutes1)
      /\ RoutesGood(RateLimitRoutes2) /\ RoutesGood(RateLimitRoutes3)
  BY <1>1, <1>2, ConstructorsGood
     DEF DevicesRoutes2, DevicesRoutes3, IotDevicesRoutes, GatewayRoutes1, GatewayRoutes2,
         RateLimitRoutes1, RateLimitRoutes2, RateLimitRoutes3
<1>9. /\ RoutesGood(RateLimitRoutes4) /\ RoutesGood(HealthRoutes) /\ RoutesGood(ExportRoutes1)
      /\ RoutesGood(ExportRoutes2) /\ RoutesGood(ImportRoutes1) /\ RoutesGood(ImportRoutes2)
      /\ RoutesGood(ImportRoutes3) /\ RoutesGood(InventoryRoutes)
  BY <1>1, <1>2, ConstructorsGood
     DEF RateLimitRoutes4, HealthRoutes, ExportRoutes1, ExportRoutes2, ImportRoutes1,
         ImportRoutes2, ImportRoutes3, InventoryRoutes
<1>10. /\ RoutesGood(LalamoveRoutes) /\ RoutesGood(DebugRoutes) /\ RoutesGood(NotificationsRoutes1)
      /\ RoutesGood(NotificationsRoutes2) /\ RoutesGood(NotificationsRoutes3) /\ RoutesGood(NotificationsRoutes4)
      /\ RoutesGood(TestNotificationsRoutes1) /\ RoutesGood(TestNotificationsRoutes2)
  BY <1>1, <1>2, ConstructorsGood
     DEF LalamoveRoutes, DebugRoutes, NotificationsRoutes1, NotificationsRoutes2,
         NotificationsRoutes3, NotificationsRoutes4, TestNotificationsRoutes1,
         TestNotificationsRoutes2
<1>11. /\ RoutesGood(TestNotificationsRoutes3) /\ RoutesGood(TestNotificationsRoutes4) /\ RoutesGood(TestNotificationsRoutes5)
      /\ RoutesGood(OrdersRoutes1) /\ RoutesGood(OrdersRoutes2) /\ RoutesGood(ProductsSeedRoutes)
      /\ RoutesGood(ProductsRoutes1) /\ RoutesGood(ProductsRoutes2)
  BY <1>1, <1>2, ConstructorsGood
     DEF TestNotificationsRoutes3, TestNotificationsRoutes4, TestNotificationsRoutes5,
         OrdersRoutes1, OrdersRoutes2, ProductsSeedRoutes, ProductsRoutes1, ProductsRoutes2
<1>12. /\ RoutesGood(ProfileRoutes1) /\ RoutesGood(ProfileRoutes2) /\ RoutesGood(ProfileRoutes3)
      /\ RoutesGood(ProfileRoutes4) /\ RoutesGood(ProfileRoutes5) /\ RoutesGood(SearchAnalyticsRoutes)
      /\ RoutesGood(SearchRoutes1) /\ RoutesGood(SearchRoutes2)
  BY <1>1, <1>2, ConstructorsGood
     DEF ProfileRoutes1, ProfileRoutes2, ProfileRoutes3, ProfileRoutes4, ProfileRoutes5,
         SearchAnalyticsRoutes, SearchRoutes1, SearchRoutes2
<1>13. /\ RoutesGood(SellerVerificationRoutes1) /\ RoutesGood(SellerVerificationRoutes2) /\ RoutesGood(SellerVerificationRoutes3)
      /\ RoutesGood(SensorsRoutes1) /\ RoutesGood(SensorsRoutes2) /\ RoutesGood(SuperAdminRoutes1)
      /\ RoutesGood(SuperAdminRoutes2) /\ RoutesGood(UsersRoutes1)
  BY <1>1, <1>2, ConstructorsGood
     DEF SellerVerificationRoutes1, SellerVerificationRoutes2, SellerVerificationRoutes3,
         SensorsRoutes1, SensorsRoutes2, SuperAdminRoutes1, SuperAdminRoutes2, UsersRoutes1
<1>14. /\ RoutesGood(UsersRoutes2) /\ RoutesGood(UsersRoutes3) /\ RoutesGood(UsersRoutes4)
      /\ RoutesGood(PrometheusRoutes)
  BY <1>1, <1>2, ConstructorsGood
     DEF UsersRoutes2, UsersRoutes3, UsersRoutes4, PrometheusRoutes
<1>15. QED
  BY <1>3, <1>4, <1>5, <1>6, <1>7, <1>8, <1>9, <1>10, <1>11, <1>12, <1>13, <1>14 DEF RoutesGood, Routes


\* The guards of a restricted route, one at a time.
LEMMA GuardSequences ==
    /\ Head(<<"jwt", "roles">>) = "jwt" /\ Tail(<<"jwt", "roles">>) = <<"roles">>
    /\ Head(<<"roles", "jwt">>) = "roles"
    /\ Head(<<"roles">>) = "roles" /\ Tail(<<"roles">>) = <<>>
OBVIOUS

\* A request is idle or on its way.
LEMMA CallFields ==
    ASSUME AccessInv, NEW c \in Calls
    PROVE  /\ call[c].place = "idle" <=> call[c] = Idle
           /\ call[c] # Idle => call[c] \in CallRecords /\ CallGood(role, call[c])
BY DEF AccessInv, CallRecords, Idle

\* What is known of the policy of a request.
LEMMA CallPolicy ==
    ASSUME NEW p \in Policies
    PROVE  PolicyGood(p)
<1>1. PICK k \in Kinds : p = k.policy
  BY DEF Policies
<1>2. PICK r \in Routes : k.policy = r.policy
  BY DEF Kinds
<1>3. QED
  BY <1>1, <1>2, EveryRouteGood DEF RoutesGood

\* Stored roles that only appear and are never taken away.
RolesStay(r, s) ==
    s \in [Users -> Roles \cup {"none"}] /\ \A u \in Users : r[u] # "none" => s[u] = r[u]

\* They leave alone what the other requests have seen.
LEMMA RolesStayGood ==
    ASSUME NEW r, NEW s, RolesStay(r, s), NEW k, CallGood(r, k)
    PROVE  CallGood(s, k)
<1>1. SeenIsStored(r, k) => SeenIsStored(s, k)
  BY DEF SeenIsStored, RolesStay
<1>2. QED
  BY <1>1 DEF CallGood, Progress

\* One request gets a new record, or is over.
LEMMA CallSetKeeps ==
    ASSUME AccessInv, NEW c \in Calls, RolesStay(role, role'),
           NEW k \in CallRecords \cup {Idle}, k # Idle => CallGood(role', k),
           call' = [call EXCEPT ![c] = k]
    PROVE  AccessInv'
<1>1. \A d \in Calls : call'[d] = IF d = c THEN k ELSE call[d]
  BY DEF AccessInv
<1>2. call' \in [Calls -> CallRecords \cup {Idle}]
  BY DEF AccessInv
<1>3. ASSUME NEW d \in Calls, call'[d] # Idle PROVE CallGood(role', call'[d])
  <2>1. CASE d = c
    BY <1>1, <1>3, <2>1
  <2>2. CASE d # c
    <3>1. call'[d] = call[d] /\ CallGood(role, call[d])
      BY <1>1, <1>3, <2>2 DEF AccessInv
    <3>2. QED
      BY <3>1, RolesStayGood
  <2>3. QED
    BY <2>1, <2>2
<1>4. QED
  BY <1>2, <1>3 DEF AccessInv, RolesStay

\* Nothing about the roles changes in most steps.
LEMMA RolesUnchanged ==
    ASSUME AccessInv, UNCHANGED role
    PROVE  RolesStay(role, role')
BY DEF AccessInv, RolesStay

\* A request with guards still to run, or none.
LEMMA ReadyKeeps ==
    ASSUME AccessInv, NEW c \in Calls, RolesStay(role, role'), NEW found \in CallRecords,
           Progress(role', found), Ready(c, found)
    PROVE  AccessInv'
<1> DEFINE place == IF found.left = <<>> THEN "serve" ELSE "guards"
           k == [found EXCEPT !.place = place]
<1>1. place \in {"guards", "serve"} /\ (place = "guards" <=> found.left # <<>>)
  OBVIOUS
<1>2. call' = [call EXCEPT ![c] = k]
  BY DEF Ready
<1> HIDE DEF place
<1>3. /\ k \in CallRecords /\ k.place = place /\ k.left = found.left /\ k.seen = found.seen
      /\ k.user = found.user /\ k.policy = found.policy /\ k.moved = found.moved
  BY <1>1 DEF CallRecords
<1> HIDE DEF k
<1>4. CallGood(role', k)
  BY <1>1, <1>3 DEF CallGood, Progress, SeenIsStored
<1>5. QED
  BY <1>2, <1>3, <1>4, CallSetKeeps

\* A request that was refused or answered.
LEMMA RefuseKeeps ==
    ASSUME AccessInv, NEW c \in Calls, RolesStay(role, role'), call' = [call EXCEPT ![c] = Idle]
    PROVE  AccessInv'
BY CallSetKeeps

\* The request at a guard, and what the guard adds to it before it passes on.
Found(k, u, hasId, seen) == [k EXCEPT !.user = u, !.id = hasId, !.seen = seen]

\* A guard that lets a request pass.
LEMMA PassKeeps ==
    ASSUME AccessInv, NEW c \in Calls, RolesStay(role, role'),
           NEW found \in CallRecords, found.left # <<>>, Pass(c, found),
           found.policy.roles # {} =>
               \/ found.left = <<"jwt", "roles">> /\ SeenIsStored(role', found)
               \/ /\ found.left = <<"roles">> /\ SeenIsStored(role', found)
                  /\ found.seen \in found.policy.roles
    PROVE  AccessInv'
<1> DEFINE left == Tail(found.left)
           k == [found EXCEPT !.left = left]
<1>1. found.left \in Seq(GuardNames)
  BY DEF CallRecords
<1>2. left \in Seq(GuardNames)
  BY <1>1
<1>3. Ready(c, k)
  BY DEF Pass
<1>4. /\ found.left = <<"jwt", "roles">> => left = <<"roles">>
      /\ found.left = <<"roles">> => left = <<>>
  BY GuardSequences
<1> HIDE DEF left
<1>5. /\ k \in CallRecords /\ k.left = left /\ k.seen = found.seen
      /\ k.user = found.user /\ k.policy = found.policy /\ k.moved = found.moved
  BY <1>2 DEF CallRecords
<1> HIDE DEF k
<1>6. Progress(role', k)
  BY <1>4, <1>5 DEF Progress, SeenIsStored
<1>7. QED
  BY <1>3, <1>5, <1>6, ReadyKeeps

\* A request that stands at a guard, by the guard's name.
LEMMA AtGuard ==
    ASSUME AccessInv, NEW c \in Calls, NEW guard, At(c, guard)
    PROVE  /\ call[c] # Idle /\ call[c] \in CallRecords /\ call[c].left # <<>>
           /\ call[c].policy.roles # {} => "none" \notin call[c].policy.roles
           /\ guard = "jwt" /\ call[c].policy.roles # {} => call[c].left = <<"jwt", "roles">>
           /\ guard = "roles" /\ call[c].policy.roles # {} =>
                  \/ call[c].seen = "none"
                  \/ call[c].left = <<"roles">> /\ SeenIsStored(role, call[c])
           /\ guard \notin {"jwt", "roles"} => call[c].policy.roles = {}
<1> DEFINE k == call[c]
<1>1. k # Idle /\ k.left # <<>> /\ Head(k.left) = guard
  BY DEF At, Idle
<1>2. k \in CallRecords /\ Progress(role, k)
  BY <1>1, CallFields DEF CallGood
<1>3. k.policy \in Policies
  BY <1>2 DEF CallRecords
<1>4. PolicyGood(k.policy)
  BY <1>3, CallPolicy
<1> HIDE DEF k
<1>5. k.policy.roles # {} =>
          \/ k.left = <<"jwt", "roles">> /\ k.seen = "none"
          \/ k.left = <<"roles", "jwt">> /\ k.seen = "none"
          \/ k.left = <<"roles">> /\ SeenIsStored(role, k)
  BY <1>1, <1>2, <1>4 DEF Progress, PolicyGood
<1>6. k.policy.roles # {} => "none" \notin k.policy.roles
  BY <1>4 DEF PolicyGood
<1>7. QED
  BY <1>1, <1>2, <1>5, <1>6, GuardSequences DEF k


\* Credentials of a kind that names a user.
LEMMA CredentialUser ==
    ASSUME NEW k \in CallRecords, k.credential.kind \in {"jwt", "clerk", "firebase"}
    PROVE  k.credential.user \in Users
<1>1. k.credential \in Credentials
  BY DEF CallRecords
<1>2. QED
  BY <1>1 DEF Credentials

\* A request arrives with all its guards before it and no user.
LEMMA ReceiveKeeps ==
    ASSUME AccessInv, NEW c \in Calls, NEW kind \in Kinds, NEW credential \in Credentials,
           Receive(c, kind, credential)
    PROVE  AccessInv'
<1> DEFINE k == [place |-> "guards", left |-> kind.policy.guards, policy |-> kind.policy,
                 name |-> kind.name, credential |-> credential,
                 user |-> Nobody, id |-> FALSE, seen |-> "none", moved |-> FALSE]
<1>1. Ready(c, k) /\ UNCHANGED role
  BY DEF Receive
<1>2. kind.policy \in Policies /\ kind.name \in Names
  BY DEF Policies, Names
<1>3. kind.policy.guards \in Seq(GuardNames)
  BY <1>2, CallPolicy DEF PolicyGood
<1>4. k \in CallRecords
  BY <1>2, <1>3 DEF CallRecords
<1>5. Progress(role', k)
  BY DEF Progress
<1>6. QED
  BY <1>1, <1>4, <1>5, ReadyKeeps, RolesUnchanged

\* JwtAuthGuard: the role is the stored one, not the claimed one.
LEMMA JwtAuthGuardKeeps ==
    ASSUME AccessInv, NEW c \in Calls, JwtAuthGuard(c)
    PROVE  AccessInv'
<1> DEFINE u == call[c].credential.user
           seen == role[u]
           k == Found(call[c], u, TRUE, seen)
<1>0. UNCHANGED role /\ RolesStay(role, role') /\ At(c, "jwt")
  BY RolesUnchanged DEF JwtAuthGuard
<1>1. call[c] \in CallRecords /\ call[c].left # <<>>
  BY <1>0, AtGuard
<1>2. CASE Refuse(c)
  BY <1>0, <1>2, RefuseKeeps DEF Refuse
<1>3. CASE call[c].credential.kind = "jwt" /\ role[u] # "none" /\ Pass(c, k)
  <2>1. u \in Users
    BY <1>1, <1>3, CredentialUser
  <2>2. seen \in Roles \cup {"none"} /\ seen # "none" /\ TRUE \in BOOLEAN
    BY <1>3, <2>1 DEF AccessInv
  <2>3. role'[u] = seen
    BY <1>0
  <2> HIDE DEF u, seen
  <2>4. /\ k \in CallRecords /\ k.left = call[c].left /\ k.policy = call[c].policy
        /\ k.user = u /\ k.seen = seen
    BY <1>1, <2>1, <2>2 DEF Found, CallRecords
  <2> HIDE DEF k
  <2>5. SeenIsStored(role', k)
    BY <2>1, <2>2, <2>3, <2>4 DEF SeenIsStored
  <2>6. k.policy.roles # {} => k.left = <<"jwt", "roles">>
    BY <1>0, <2>4, AtGuard
  <2>7. QED
    BY <1>0, <1>1, <1>3, <2>4, <2>5, <2>6, PassKeeps
<1>4. QED
  BY <1>2, <1>3 DEF JwtAuthGuard, Found

\* RolesGuard: only with a role that was read, and that is asked for.
LEMMA RolesGuardKeeps ==
    ASSUME AccessInv, NEW c \in Calls, RolesGuard(c)
    PROVE  AccessInv'
<1> DEFINE k == call[c]
<1>0. UNCHANGED role /\ RolesStay(role, role') /\ At(c, "roles")
  BY RolesUnchanged DEF RolesGuard
<1>1. k \in CallRecords /\ k.left # <<>>
  BY <1>0, AtGuard
<1>2. CASE Refuse(c)
  BY <1>0, <1>2, RefuseKeeps DEF Refuse
<1>3. CASE (k.policy.roles = {} \/ k.seen \in k.policy.roles) /\ Pass(c, k)
  <2>1. k.policy.roles # {} =>
            k.left = <<"roles">> /\ SeenIsStored(role, k) /\ k.seen \in k.policy.roles
    BY <1>0, <1>3, AtGuard
  <2>2. SeenIsStored(role, k) => SeenIsStored(role', k)
    BY <1>0
  <2> HIDE DEF k
  <2>3. QED
    BY <1>0, <1>1, <1>3, <2>1, <2>2, PassKeeps
<1>4. QED
  BY <1>2, <1>3 DEF RolesGuard

\* ClerkAuthGuard: a row it creates is of a user no other request has read.
LEMMA ClerkAuthGuardKeeps ==
    ASSUME AccessInv, NEW c \in Calls, ClerkAuthGuard(c)
    PROVE  AccessInv'
<1> DEFINE u == call[c].credential.user
           seen == role'[u]
           k == Found(call[c], u, TRUE, seen)
<1>0. At(c, "clerk")
  BY DEF ClerkAuthGuard
<1>1. call[c] \in CallRecords /\ call[c].left # <<>> /\ call[c].policy.roles = {}
  BY <1>0, AtGuard
<1>2. CASE Refuse(c) /\ UNCHANGED role
  BY <1>2, RolesUnchanged, RefuseKeeps DEF Refuse
<1>3. CASE /\ call[c].credential.kind = "clerk"
           /\ role' = [role EXCEPT ![u] = IF @ = "none" THEN "USER" ELSE @] /\ Pass(c, k)
  <2>1. u \in Users
    BY <1>1, <1>3, CredentialUser
  <2>2. "USER" \in Roles
    BY DEF Roles
  <2> HIDE DEF u
  <2>3. RolesStay(role, role')
    BY <1>3, <2>1, <2>2 DEF AccessInv, RolesStay
  <2>4. seen \in Roles \cup {"none"} /\ TRUE \in BOOLEAN
    BY <2>1, <2>3 DEF RolesStay
  <2> HIDE DEF seen
  <2>5. k \in CallRecords /\ k.left = call[c].left /\ k.policy = call[c].policy
    BY <1>1, <2>1, <2>4 DEF Found, CallRecords
  <2> HIDE DEF k
  <2>6. k.policy.roles = {} /\ k.left # <<>>
    BY <1>1, <2>5
  <2>7. QED
    BY <1>3, <2>3, <2>5, <2>6, PassKeeps
<1>4. QED
  BY <1>2, <1>3 DEF ClerkAuthGuard, Found

\* FirebaseAuthGuard, PermissionsGuard and WebhookSignatureGuard stand on open routes.
LEMMA OtherGuardsKeep ==
    ASSUME AccessInv, NEW c \in Calls,
           FirebaseAuthGuard(c) \/ PermissionsGuard(c) \/ WebhookSignatureGuard(c)
    PROVE  AccessInv'
<1>0. /\ UNCHANGED role /\ RolesStay(role, role')
      /\ At(c, "firebase") \/ At(c, "permissions") \/ At(c, "signature")
  BY RolesUnchanged DEF FirebaseAuthGuard, PermissionsGuard, WebhookSignatureGuard
<1>1. call[c] \in CallRecords /\ call[c].left # <<>> /\ call[c].policy.roles = {}
  BY <1>0, AtGuard
<1>2. CASE Refuse(c)
  BY <1>0, <1>2, RefuseKeeps DEF Refuse
<1>3. CASE Pass(c, call[c])
  BY <1>0, <1>1, <1>3, PassKeeps
<1>4. CASE /\ call[c].credential.kind = "firebase"
           /\ Pass(c, [call[c] EXCEPT !.user = call[c].credential.user])
  <2> DEFINE k == [call[c] EXCEPT !.user = call[c].credential.user]
  <2>1. call[c].credential.user \in Users
    BY <1>1, <1>4, CredentialUser
  <2>2. k \in CallRecords /\ k.left = call[c].left /\ k.policy = call[c].policy
    BY <1>1, <2>1 DEF CallRecords
  <2> HIDE DEF k
  <2>3. k.policy.roles = {} /\ k.left # <<>>
    BY <1>1, <2>2
  <2>4. QED
    BY <1>0, <1>4, <2>2, <2>3, PassKeeps DEF k
<1>5. QED
  BY <1>2, <1>3, <1>4 DEF FirebaseAuthGuard, PermissionsGuard, WebhookSignatureGuard

\* updateUserRole notes the change with every request that has read the role.
LEMMA UpdateUserRoleKeeps ==
    ASSUME AccessInv, NEW c \in Calls, NEW u \in Users, NEW r \in Assignable, UpdateUserRole(c, u, r)
    PROVE  AccessInv'
<1>1. role' = [role EXCEPT ![u] = r] /\ call' = [Noted(u) EXCEPT ![c] = Idle]
  BY DEF UpdateUserRole
<1>2. /\ role' \in [Users -> Roles \cup {"none"}]
      /\ \A v \in Users : v # u => role'[v] = role[v]
  BY <1>1, AccessAssumption DEF AccessInv
<1> DEFINE noted(k) == [k EXCEPT !.moved = TRUE]
<1>3. \A d \in Calls : call'[d] =
          IF d = c THEN Idle
          ELSE IF call[d].place # "idle" /\ call[d].user = u THEN noted(call[d]) ELSE call[d]
  BY <1>1 DEF Noted
<1>4. ASSUME NEW k \in CallRecords, CallGood(role, k)
      PROVE  /\ noted(k) \in CallRecords /\ CallGood(role', noted(k))
             /\ k.user # u => CallGood(role', k)
  <2>1. /\ noted(k) \in CallRecords /\ noted(k).place = k.place /\ noted(k).left = k.left
        /\ noted(k).policy = k.policy /\ noted(k).seen = k.seen /\ noted(k).user = k.user
        /\ noted(k).moved = TRUE
    BY <1>4 DEF CallRecords
  <2> HIDE DEF noted
  <2>2. SeenIsStored(role, k) => SeenIsStored(role', noted(k))
    BY <2>1 DEF SeenIsStored
  <2>3. k.user # u => (SeenIsStored(role, k) => SeenIsStored(role', k))
    BY <1>2 DEF SeenIsStored
  <2>4. QED
    BY <1>4, <2>1, <2>2, <2>3 DEF CallGood, Progress
<1>5. ASSUME NEW d \in Calls
      PROVE  /\ call'[d] \in CallRecords \cup {Idle}
             /\ call'[d] # Idle => CallGood(role', call'[d])
  <2>1. CASE d = c \/ call[d] = Idle
    <3>1. call'[d] = Idle
      BY <1>3, <2>1 DEF Idle
    <3>2. QED
      BY <3>1
  <2>2. CASE d # c /\ call[d] # Idle
    <3>1. call[d] \in CallRecords /\ CallGood(role, call[d]) /\ call[d].place # "idle"
      BY <2>2, CallFields
    <3> HIDE DEF noted
    <3>2. call'[d] = IF call[d].user = u THEN noted(call[d]) ELSE call[d]
      BY <1>3, <2>2, <3>1
    <3>3. QED
      BY <1>4, <3>1, <3>2
  <2>3. QED
    BY <2>1, <2>2
<1>6. call' \in [Calls -> CallRecords \cup {Idle}]
  <2>1. call' = [d \in Calls |-> call'[d]]
    BY <1>1 DEF Noted
  <2>2. QED
    BY <1>5, <2>1
<1>7. QED
  BY <1>2, <1>5, <1>6 DEF AccessInv

\* The handlers that change no role, and the ends of a request.
LEMMA ServedKeeps ==
    ASSUME AccessInv, NEW c \in Calls,
           \/ Answer(c)
           \/ \E u \in Suspended, isActive \in BOOLEAN : UpdateUserStatus(c, u, isActive)
           \/ \E u \in Users : ImpersonateUser(c, u)
    PROVE  AccessInv'
<1>1. UNCHANGED role /\ call' = [call EXCEPT ![c] = Idle]
  BY DEF Answer, UpdateUserStatus, ImpersonateUser
<1>2. QED
  BY <1>1, RefuseKeeps, RolesUnchanged

\* Every step keeps the invariant.
LEMMA AccessStep ==
    ASSUME AccessInv, [AccessNext]_accessVars
    PROVE  AccessInv'
<1>1. CASE UNCHANGED <<role, call>>
  BY <1>1 DEF AccessInv
<1>2. ASSUME NEW c \in Calls, NEW k \in Kinds, NEW cr \in Credentials, Receive(c, k, cr)
      PROVE  AccessInv'
  BY <1>2, ReceiveKeeps
<1>3. ASSUME NEW c \in Calls, JwtAuthGuard(c) \/ RolesGuard(c) \/ ClerkAuthGuard(c)
      PROVE  AccessInv'
  BY <1>3, JwtAuthGuardKeeps, RolesGuardKeeps, ClerkAuthGuardKeeps
<1>4. ASSUME NEW c \in Calls, FirebaseAuthGuard(c) \/ PermissionsGuard(c) \/ WebhookSignatureGuard(c)
      PROVE  AccessInv'
  BY <1>4, OtherGuardsKeep
<1>5. ASSUME NEW c \in Calls, NEW u \in Users, NEW r \in Assignable, UpdateUserRole(c, u, r)
      PROVE  AccessInv'
  BY <1>5, UpdateUserRoleKeeps
<1>6. ASSUME NEW c \in Calls,
             \/ Answer(c)
             \/ \E u \in Suspended, isActive \in BOOLEAN : UpdateUserStatus(c, u, isActive)
             \/ \E u \in Users : ImpersonateUser(c, u)
      PROVE  AccessInv'
  BY <1>6, ServedKeeps
<1>7. CASE \/ \E u \in Suspended : DeleteUser(u)
           \/ \E u \in Users : Login(u)
           \/ \E t \in tokens : RefreshToken(t) \/ Expire(t)
  BY <1>1, <1>7 DEF DeleteUser, Login, RefreshToken, Expire
<1>8. CASE UNCHANGED accessVars
  BY <1>1, <1>8 DEF accessVars
<1>9. QED
  BY <1>2, <1>3, <1>4, <1>5, <1>6, <1>7, <1>8 DEF AccessNext

(***************************************************************************)
(* Roles are checked against the database: for all users, requests and     *)
(* tokens, whatever role changes and Clerk sign-ups fall between the       *)
(* guards of a request, one that is served on any of the controllers'      *)
(* restricted routes has a user whose stored role the route asks for, or   *)
(* whose role was changed after the guard read it.  It rests on the table  *)
(* of routes: wherever a route asks for roles, the token's guard and the   *)
(* roles guard are both there (EveryRouteGood).                            *)
(***************************************************************************)
THEOREM ServedByStoredRole == AccessSpec => []AuthorisedByStoredRole
<1>1. AccessInit => AccessInv
  BY AccessAssumption DEF AccessInit, AccessInv
<1>2. AccessInv /\ [AccessNext]_accessVars => AccessInv'
  BY AccessStep
<1>3. ASSUME AccessInv PROVE AuthorisedByStoredRole
  <2>1. SUFFICES ASSUME NEW c \in Calls, call[c].place = "serve", call[c].policy.roles # {}
                 PROVE  \/ call[c].moved
                        \/ call[c].user # Nobody /\ role[call[c].user] \in call[c].policy.roles
    BY DEF AuthorisedByStoredRole
  <2> DEFINE k == call[c]
  <2>2. k # Idle
    BY <2>1 DEF Idle
  <2>3. k \in CallRecords /\ CallGood(role, k)
    BY <1>3, <2>2, CallFields
  <2>4. k.left = <<>> /\ PolicyGood(k.policy) /\ k.moved \in BOOLEAN
    BY <2>1, <2>3, CallPolicy DEF CallGood, CallRecords
  <2> HIDE DEF k
  <2>5. <<>> # <<"roles">> /\ k.left # k.policy.guards
    <3>1. <<>> # <<"roles">> /\ <<>> # <<"jwt", "roles">> /\ <<>> # <<"roles", "jwt">>
      OBVIOUS
    <3>2. k.policy.guards \in {<<"jwt", "roles">>, <<"roles", "jwt">>}
      BY <2>1, <2>4 DEF PolicyGood, k
    <3>3. QED
      BY <2>4, <3>1, <3>2
  <2>6. SeenIsStored(role, k) /\ k.seen \in k.policy.roles
    BY <2>1, <2>3, <2>4, <2>5 DEF CallGood, Progress, k
  <2>7. QED
    BY <2>6, AccessAssumption DEF SeenIsStored, k
<1>4. QED
  BY <1>1, <1>2, <1>3, PTL DEF AccessSpec

=============================================================================
