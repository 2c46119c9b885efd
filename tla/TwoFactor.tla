------------------------------ MODULE TwoFactor -------------------------------
(***************************************************************************)
(* Two-factor authentication of one user: setting it up, switching it off   *)
(* and the backup codes.  Every method reads the user, then hashes or       *)
(* compares for a while, then writes without looking again.  Codes carry   *)
(* the number of the batch they were generated in.                         *)
(***************************************************************************)
EXTENDS Naturals, FiniteSets

CONSTANTS Requests,    \* calls that may overlap
          BatchSize,   \* codes in a batch (ten in the code)
          MaxBatches   \* bound on batches

ASSUME TwoFactorAssumption == BatchSize \in Nat /\ MaxBatches \in Nat

VARIABLES tf,          \* the user's columns: secret (is there one), enabled, codes
          request,     \* where each call is
          batches,     \* batches stored so far
          overlap,     \* history: some call wrote between another's read and write
          spent        \* history: the codes that were accepted

tfVars == <<tf, request, batches, overlap, spent>>

AtEase == [pc |-> "idle"]
Batch(b) == {b} \X (1..BatchSize)

TFInit ==
    /\ tf = [secret |-> FALSE, enabled |-> FALSE, codes |-> {}]
    /\ request = [r \in Requests |-> AtEase]
    /\ batches = 0 /\ overlap = FALSE /\ spent = {}

\* What a method's first half is: on the user it reads, it goes on to its write.
Reads(r, at) ==
    /\ request[r] = AtEase
    /\ request' = [request EXCEPT ![r] = at]
    /\ UNCHANGED <<tf, batches, overlap, spent>>

\* And its second half.
Writes(r, pc, row) ==
    /\ request[r].pc = pc
    /\ tf' = row
    /\ request' = [request EXCEPT ![r] = AtEase]
    /\ overlap' = (overlap \/ \E q \in Requests \ {r} : request[q] # AtEase)

NextBatch == batches < MaxBatches /\ batches' = batches + 1

(***************************************************************************)
(* Setting up and switching off.                                           *)
(***************************************************************************)
Enable2FA(r) == ~tf.enabled /\ Reads(r, [pc |-> "secret"])
SecretWrite(r) == Writes(r, "secret", [tf EXCEPT !.secret = TRUE]) /\ UNCHANGED <<batches, spent>>

\* With the right token; a wrong one changes nothing.
Verify2FA(r) == tf.secret /\ ~tf.enabled /\ Reads(r, [pc |-> "enable"])
EnableWrite(r) ==
    /\ NextBatch
    /\ Writes(r, "enable", [tf EXCEPT !.enabled = TRUE, !.codes = Batch(batches + 1)])
    /\ UNCHANGED spent

Disable2FA(r) == tf.enabled /\ Reads(r, [pc |-> "disable"])
DisableWrite(r) ==
    Writes(r, "disable", [secret |-> FALSE, enabled |-> FALSE, codes |-> {}]) /\ UNCHANGED <<batches, spent>>

(***************************************************************************)
(* Backup codes.                                                           *)
(***************************************************************************)
RegenerateBackupCodes(r) == tf.enabled /\ Reads(r, [pc |-> "regenerate"])

RegenerateWrite_Appends(r) ==
    /\ NextBatch
    /\ Writes(r, "regenerate", [tf EXCEPT !.codes = @ \cup Batch(batches + 1)])
    /\ UNCHANGED spent

RegenerateWrite(r) ==
    /\ NextBatch
    /\ Writes(r, "regenerate", [tf EXCEPT !.codes = Batch(batches + 1)])
    /\ UNCHANGED spent

\* The list without the code is kept aside from the comparison on.
VerifyBackupCode(r, code) ==
    tf.enabled /\ code \in tf.codes /\ Reads(r, [pc |-> "use", code |-> code, left |-> tf.codes \ {code}])
UseWrite(r) ==
    /\ Writes(r, "use", [tf EXCEPT !.codes = request[r].left])
    /\ spent' = spent \cup {request[r].code}
    /\ UNCHANGED batches

TFNext ==
    \E r \in Requests :
        \/ Enable2FA(r) \/ SecretWrite(r)
        \/ Verify2FA(r) \/ EnableWrite(r)
        \/ Disable2FA(r) \/ DisableWrite(r)
        \/ RegenerateBackupCodes(r) \/ RegenerateWrite(r)
        \/ \E code \in tf.codes : VerifyBackupCode(r, code)
        \/ UseWrite(r)

TFSpec == TFInit /\ [][TFNext]_tfVars

(***************************************************************************)
(* Properties.                                                             *)
(***************************************************************************)
\* However setting up, regenerating and using overlap, the codes on file are of
\* one batch and no more than a batch, so a set of codes that was replaced is
\* never half valid.  As long as no two calls overlap, they are moreover of the last
\* batch, none of them has been accepted before, and they are on file, as the
\* secret is, only while two-factor authentication is on.
OneBatch ==
    /\ \E b \in 0..MaxBatches : tf.codes \subseteq Batch(b)
    /\ ~overlap =>
           /\ tf.codes \subseteq Batch(batches) \ spent
           /\ tf.enabled => tf.secret
           /\ tf.codes # {} => tf.enabled

==============================================================================
