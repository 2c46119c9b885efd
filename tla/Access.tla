-------------------------------- MODULE Access --------------------------------
(***************************************************************************)
(* Who may be served: the guards of the routes (JwtAuthGuard with           *)
(* JwtStrategy, RolesGuard, ClerkAuthGuard with ClerkStrategy,              *)
(* FirebaseAuthGuard, PermissionsGuard, WebhookSignatureGuard), the tokens  *)
(* AuthService issues, and the handlers that change roles or issue tokens   *)
(* for others.  Guards run one after another, each awaiting the database or *)
(* a provider, while other requests change the roles.                       *)
(***************************************************************************)
EXTENDS Routes, Naturals, FiniteSets, Sequences

CONSTANTS Users,
          Calls,       \* requests being served
          Assignable,  \* bound: roles that updateUserRole is called with
          Suspended,   \* bound: users that updateUserStatus is called with
          MaxTokens    \* bound: tokens in circulation

VARIABLES role,    \* role[u]: the stored role, "none" while u has no row
          inactive, \* users whose isActive is false, which no guard and no login looks at
          tokens,  \* JWTs not expired: user, role claimed, isActive when issued
          call     \* call[c]: the request's guards still to run and what they found

accessVars == <<role, inactive, tokens, call>>

Nobody == "nobody"

ASSUME AccessAssumption == Assignable \subseteq Roles /\ Nobody \notin Users

\* What a caller may present; a provider's tokens name its user.
Credentials ==
    [kind : {"none", "signature"}, user : {Nobody}, claim : {"none"}] \cup
    [kind : {"clerk", "firebase"}, user : Users, claim : {"none"}] \cup
    [kind : {"jwt"}, user : Users, claim : Roles]

Idle == [place |-> "idle"]

Handled == {"updateUserRole", "updateUserStatus", "impersonateUser"}

\* The handlers modelled below are told apart, all others are served alike.
Kinds == {[policy |-> r.policy,
           name |-> IF r.name \in Handled THEN r.name ELSE "other"]
             : r \in Routes}

AccessInit ==
    /\ role \in [Users -> Assignable \cup {"none"}]
    /\ inactive = {}
    /\ tokens = {}
    /\ call = [c \in Calls |-> Idle]

At(c, guard) == call[c].place = "guards" /\ call[c].left # <<>> /\ Head(call[c].left) = guard

Ready(c, found) ==
    call' = [call EXCEPT ![c] = [found EXCEPT !.place = IF found.left = <<>> THEN "serve" ELSE "guards"]]

Pass(c, found) == Ready(c, [found EXCEPT !.left = Tail(@)])
Refuse(c) == call' = [call EXCEPT ![c] = Idle]

\* The caller of a request: who a guard found, with the role it read.  A
\* credential that no guard of the route looks at is like none.
Receive(c, kind, credential) ==
    /\ call[c].place = "idle"
    /\ credential.kind \in {"none"} \cup {kind.policy.guards[i] : i \in DOMAIN kind.policy.guards}
    /\ credential.kind = "jwt" =>
           \E t \in tokens : t.user = credential.user /\ t.claim = credential.claim
    /\ Ready(c, [place |-> "guards", left |-> kind.policy.guards, policy |-> kind.policy,
                 name |-> kind.name, credential |-> credential,
                 user |-> Nobody, id |-> FALSE, seen |-> "none", moved |-> FALSE])
    /\ UNCHANGED <<role, inactive, tokens>>

\* JwtStrategy.validate: the row named by the token, whatever role it claims.
JwtAuthGuard_TrustsClaim(c) ==
    LET u == call[c].credential.user IN
    /\ At(c, "jwt")
    /\ IF call[c].credential.kind = "jwt" /\ role[u] # "none"
         THEN Pass(c, [call[c] EXCEPT !.user = u, !.id = TRUE, !.seen = call[c].credential.claim])
         ELSE Refuse(c)
    /\ UNCHANGED <<role, inactive, tokens>>

JwtAuthGuard(c) ==
    LET u == call[c].credential.user IN
    /\ At(c, "jwt")
    /\ IF call[c].credential.kind = "jwt" /\ role[u] # "none"
         THEN Pass(c, [call[c] EXCEPT !.user = u, !.id = TRUE, !.seen = role[u]])
         ELSE Refuse(c)
    /\ UNCHANGED <<role, inactive, tokens>>

\* Before any authentication there is no user: the guard throws or denies.
RolesGuard(c) ==
    /\ At(c, "roles")
    /\ IF call[c].policy.roles = {} \/ call[c].seen \in call[c].policy.roles
         THEN Pass(c, call[c])
         ELSE Refuse(c)
    /\ UNCHANGED <<role, inactive, tokens>>

\* ClerkStrategy.validate: a Clerk user without a row gets one.
ClerkAuthGuard(c) ==
    LET u == call[c].credential.user IN
    /\ At(c, "clerk")
    /\ IF call[c].credential.kind = "clerk"
         THEN /\ role' = [role EXCEPT ![u] = IF @ = "none" THEN "USER" ELSE @]
              /\ Pass(c, [call[c] EXCEPT !.user = u, !.id = TRUE, !.seen = role'[u]])
         ELSE Refuse(c) /\ UNCHANGED role
    /\ UNCHANGED <<inactive, tokens>>

\* FirebaseStrategy.validate returns a uid and an address: no id, no role.
FirebaseAuthGuard(c) ==
    /\ At(c, "firebase")
    /\ IF call[c].credential.kind = "firebase"
         THEN Pass(c, [call[c] EXCEPT !.user = call[c].credential.user])
         ELSE Refuse(c)
    /\ UNCHANGED <<role, inactive, tokens>>

\* A user with an id is checked against the permissions of its assigned roles,
\* which no code assigns.
PermissionsGuard(c) ==
    /\ At(c, "permissions")
    /\ IF call[c].policy.needs = {} \/ (call[c].id /\ call[c].seen = "SUPER_ADMIN")
         THEN Pass(c, call[c])
         ELSE Refuse(c)
    /\ UNCHANGED <<role, inactive, tokens>>

WebhookSignatureGuard(c) ==
    /\ At(c, "signature")
    /\ IF call[c].credential.kind = "signature" THEN Pass(c, call[c]) ELSE Refuse(c)
    /\ UNCHANGED <<role, inactive, tokens>>

Answer(c) ==
    /\ call[c].place = "serve"
    /\ call' = [call EXCEPT ![c] = Idle]
    /\ UNCHANGED <<role, inactive, tokens>>

-----------------------------------------------------------------------------
(* Handlers and services that change roles or issue tokens.                 *)

Sign(u) == tokens' = tokens \cup {[user |-> u, claim |-> role[u], active |-> u \notin inactive]}

\* A request that has read u's role does not read it again.
Noted(u) ==
    [d \in Calls |-> IF call[d].place # "idle" /\ call[d].user = u
                     THEN [call[d] EXCEPT !.moved = TRUE] ELSE call[d]]

UpdateUserRole(c, u, r) ==
    /\ call[c].place = "serve" /\ call[c].name = "updateUserRole"
    /\ role[u] # "none"
    /\ role' = [role EXCEPT ![u] = r]
    /\ call' = [Noted(u) EXCEPT ![c] = Idle]
    /\ UNCHANGED <<inactive, tokens>>

UpdateUserStatus(c, u, isActive) ==
    /\ call[c].place = "serve" /\ call[c].name = "updateUserStatus"
    /\ role[u] # "none"
    /\ inactive' = IF isActive THEN inactive \ {u} ELSE inactive \cup {u}
    /\ call' = [call EXCEPT ![c] = Idle]
    /\ UNCHANGED <<role, tokens>>

\* Clerk's webhook user.deleted.
DeleteUser(u) ==
    /\ role[u] # "none"
    /\ inactive' = inactive \cup {u}
    /\ UNCHANGED <<role, tokens, call>>

\* The service reads the administrator's role once more.
ImpersonateUser(c, u) ==
    /\ call[c].place = "serve" /\ call[c].name = "impersonateUser"
    /\ role[call[c].user] \in Admins
    /\ role[u] # "none"
    /\ Cardinality(tokens) < MaxTokens
    /\ Sign(u)
    /\ call' = [call EXCEPT ![c] = Idle]
    /\ UNCHANGED <<role, inactive>>

\* login, and the logins with a provider: the role stored now is claimed.
Login(u) ==
    /\ role[u] # "none"
    /\ Cardinality(tokens) < MaxTokens
    /\ Sign(u)
    /\ UNCHANGED <<role, inactive, call>>

\* The old token stays valid until it expires.
RefreshToken(t) ==
    /\ t \in tokens
    /\ role[t.user] # "none"
    /\ Cardinality(tokens) < MaxTokens
    /\ Sign(t.user)
    /\ UNCHANGED <<role, inactive, call>>

Expire(t) ==
    /\ t \in tokens
    /\ tokens' = tokens \ {t}
    /\ UNCHANGED <<role, inactive, call>>

AccessNext ==
    \/ \E c \in Calls :
          \/ \E k \in Kinds, cr \in Credentials : Receive(c, k, cr)
          \/ JwtAuthGuard(c) \/ RolesGuard(c) \/ ClerkAuthGuard(c) \/ FirebaseAuthGuard(c)
          \/ PermissionsGuard(c) \/ WebhookSignatureGuard(c)
          \/ Answer(c)
          \/ \E u \in Users, r \in Assignable : UpdateUserRole(c, u, r)
          \/ \E u \in Suspended, isActive \in BOOLEAN : UpdateUserStatus(c, u, isActive)
          \/ \E u \in Users : ImpersonateUser(c, u)
    \/ \E u \in Suspended : DeleteUser(u)
    \/ \E u \in Users : Login(u)
    \/ \E t \in tokens : RefreshToken(t) \/ Expire(t)

AccessSpec == AccessInit /\ [][AccessNext]_accessVars

(***************************************************************************)
(* Roles are checked against the database, not against the token: a        *)
(* request being served on a route restricted to some roles is one of a    *)
(* user who has such a role now, or whose role another request changed     *)
(* since the guard read it.  A token signed before a demotion does not     *)
(* count.                                                                  *)
(***************************************************************************)
AuthorisedByStoredRole ==
    \A c \in Calls :
        (call[c].place = "serve" /\ call[c].policy.roles # {}) =>
            \/ call[c].moved
            \/ call[c].user # Nobody /\ role[call[c].user] \in call[c].policy.roles

(***************************************************************************)
(* "Account is inactive. Please contact support.", the login route answers *)
(* according to its description: no token in circulation was issued to a   *)
(* user whose row said isActive: false at that moment.                     *)
(***************************************************************************)
InactiveKeptOut == \A t \in tokens : t.active

==============================================================================
