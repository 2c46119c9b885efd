----------------------------- MODULE OneTimeCode -----------------------------
(***************************************************************************)
(* What a six-digit code sent by mail promises, whatever it is for.  One    *)
(* code is in force at a time, or none.  A request that presents the code   *)
(* in force is accepted, and grants later what the code is for: the         *)
(* service checks a code and writes the outcome in two statements, so an    *)
(* accepted request may grant after another has, or after a new code was    *)
(* issued.  A code that granted something, expired or was replaced is never *)
(* in force again.                                                          *)
(***************************************************************************)
EXTENDS Naturals

CONSTANTS Handlers,   \* requests being served
          MaxCodes    \* bound: codes issued to one user

VARIABLES live,       \* the code in force, 0 when there is none
          issued,     \* codes issued so far; code n is the n-th
          accepted,   \* accepted[h]: the code h was accepted with, 0 for none
          grants      \* grants[c]: how often code c granted what it is for

vars == <<live, issued, accepted, grants>>

Codes == 1 .. MaxCodes

Init ==
    /\ issued \in {0, 1}
    /\ live \in {0, issued}
    /\ accepted = [h \in Handlers |-> 0]
    /\ grants = [c \in Codes |-> 0]

\* A new code; it may be dead on arrival, when there is nothing left to grant.
Issue ==
    /\ issued < MaxCodes
    /\ issued' = issued + 1
    /\ live' \in {0, issued'}
    /\ UNCHANGED <<accepted, grants>>

Accept(h) ==
    /\ live # 0
    /\ accepted[h] = 0
    /\ accepted' = [accepted EXCEPT ![h] = live]
    /\ UNCHANGED <<live, issued, grants>>

\* The write of an accepted request takes whatever code is in force with it.
Grant(h) ==
    /\ accepted[h] # 0
    /\ grants' = [grants EXCEPT ![accepted[h]] = @ + 1]
    /\ accepted' = [accepted EXCEPT ![h] = 0]
    /\ live' = 0
    /\ UNCHANGED issued

GiveUp(h) ==
    /\ accepted[h] # 0
    /\ accepted' = [accepted EXCEPT ![h] = 0]
    /\ UNCHANGED <<live, issued, grants>>

\* Expiry, too many wrong guesses, or the purpose fulfilled in another way.
Revoke ==
    /\ live # 0
    /\ live' = 0
    /\ UNCHANGED <<issued, accepted, grants>>

Next ==
    \/ Issue \/ Revoke
    \/ \E h \in Handlers : Accept(h) \/ Grant(h) \/ GiveUp(h)

Spec == Init /\ [][Next]_vars
==============================================================================
