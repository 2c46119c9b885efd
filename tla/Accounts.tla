------------------------------- MODULE Accounts -------------------------------
(***************************************************************************)
(* The ways into an account: registration with a password, users an admin  *)
(* creates, the social logins (Google, Facebook, Firebase), linking and    *)
(* unlinking, and the users Clerk reports.  Each operation reads the       *)
(* user's row, awaits a provider or the next statement, and writes; ids of *)
(* a provider are unique columns, the list oauthProvider is written whole. *)
(* A row keeps its address: Clerk's change of one is left out.             *)
(***************************************************************************)
EXTENDS Naturals, FiniteSets

CONSTANTS Emails,     \* one row at most for each address
          Ids,        \* ids a provider knows people by
          Tasks       \* requests being served

VARIABLES rows,   \* rows[e]: password, ids per provider, listed providers, Clerk's id; or Absent
          task,   \* task[t]: the request between its read and its write
          undone  \* history: addresses whose list was written from a copy older than an unlink

accountVars == <<rows, task, undone>>

Providers == {"google", "facebook", "firebase"}
Linkable == {"google", "facebook"}   \* what a user who is logged in may link and unlink
NoId == "none"
Absent == [exists |-> FALSE]
NoTask == [place |-> "idle"]

ASSUME AccountsAssumption == NoId \notin Ids

NewRow(password, ids, listed, clerk) ==
    [exists |-> TRUE, password |-> password, ids |-> ids, listed |-> listed, clerk |-> clerk]

NoIds == [p \in Providers |-> NoId]

\* At first, rows that were registered, came from Clerk or from an admin before.
AccountsInit ==
    /\ rows \in [Emails -> {Absent} \cup {NewRow(pw, NoIds, {}, clerk) : pw, clerk \in BOOLEAN}]
    /\ task = [t \in Tasks |-> NoTask]
    /\ undone = {}

Owner(p, id) == {e \in Emails : id # NoId /\ rows[e].exists /\ rows[e].ids[p] = id}

\* What the request keeps of the row it read.
Begin(t, place, e, p, id) ==
    task' = [task EXCEPT ![t] =
        [place |-> place, email |-> e, provider |-> p, id |-> id, stale |-> FALSE,
         found |-> rows[e].exists,
         google |-> IF rows[e].exists THEN rows[e].ids["google"] ELSE NoId,
         listed |-> IF rows[e].exists THEN rows[e].listed ELSE {}]]

Write(t, e, row) ==
    /\ rows' = [rows EXCEPT ![e] = row]
    /\ task' = [task EXCEPT ![t] = NoTask]

NoteStale(t) == undone' = undone \cup {e \in Emails : task[t].stale /\ task[t].email = e}

-----------------------------------------------------------------------------
(* Registration.                                                            *)

Register(t, e) ==
    /\ task[t].place = "idle"
    /\ ~rows[e].exists
    /\ Begin(t, "register", e, "none", NoId)
    /\ UNCHANGED <<rows, undone>>

\* Clerk is told first; when that fails the row gets a local id instead.
RegisterWrite(t) ==
    LET e == task[t].email IN
    /\ task[t].place = "register"
    /\ ~rows[e].exists
    /\ \E clerk \in BOOLEAN : Write(t, e, NewRow(TRUE, NoIds, {}, clerk))
    /\ UNCHANGED undone

\* UsersService.create, for an admin: no password, no provider, a made-up Clerk id.
Create(t, e) ==
    /\ task[t].place = "idle"
    /\ ~rows[e].exists
    /\ Begin(t, "create", e, "none", NoId)
    /\ UNCHANGED <<rows, undone>>

\* ClerkStrategy.validate: a token of a user whose Clerk id no row has.
ValidateClerk(t, e) ==
    /\ task[t].place = "idle"
    /\ ~(rows[e].exists /\ rows[e].clerk)
    /\ Begin(t, "validate", e, "none", NoId)
    /\ UNCHANGED <<rows, undone>>

InsertWrite(t) ==
    LET e == task[t].email IN
    /\ task[t].place \in {"create", "validate"}
    /\ ~rows[e].exists
    /\ Write(t, e, NewRow(FALSE, NoIds, {}, task[t].place = "validate"))
    /\ UNCHANGED undone

\* resetPassword: also the way to a first password.
SetPassword(e) ==
    /\ rows[e].exists
    /\ rows' = [rows EXCEPT ![e].password = TRUE]
    /\ UNCHANGED <<task, undone>>

-----------------------------------------------------------------------------
(* Social logins.                                                           *)

\* findOrCreateOAuthUser looks for the id, then for the address.
FindOrCreateOAuthUser(t, p, id, e) ==
    /\ task[t].place = "idle"
    /\ Owner(p, id) = {}
    /\ Begin(t, "oauth", e, p, id)
    /\ UNCHANGED <<rows, undone>>

LoginWithGoogle(t, id, e) == FindOrCreateOAuthUser(t, "google", id, e)
LoginWithFacebook(t, id, e) == FindOrCreateOAuthUser(t, "facebook", id, e)
FirebaseSync(t, id, e) == FindOrCreateOAuthUser(t, "firebase", id, e)

OAuthWrite(t) ==
    LET e == task[t].email
        p == task[t].provider
        id == task[t].id
    IN  /\ task[t].place = "oauth"
        /\ \/ task[t].found /\ Owner(p, id) \subseteq {e} /\ NoteStale(t)
              /\ Write(t, e, [rows[e] EXCEPT !.ids[p] = id, !.listed = task[t].listed \cup {p}])
           \/ ~task[t].found /\ Owner(p, id) = {} /\ ~rows[e].exists /\ UNCHANGED undone
              /\ Write(t, e, NewRow(FALSE, [NoIds EXCEPT ![p] = id], {p}, FALSE))

\* syncGoogleUser: a row with the id or the address gets the id, no list.
SyncGoogleUser(t, id, e) ==
    LET matches == Owner("google", id) \cup {f \in {e} : rows[f].exists} IN
    /\ task[t].place = "idle"
    /\ \E f \in IF matches = {} THEN {e} ELSE matches : Begin(t, "sync", f, "google", id)
    /\ UNCHANGED <<rows, undone>>

SyncWrite(t) ==
    LET e == task[t].email
        id == task[t].id
    IN  /\ task[t].place = "sync"
        /\ \/ task[t].found /\ Owner("google", id) \subseteq {e} /\ UNCHANGED undone
              /\ Write(t, e, [rows[e] EXCEPT !.ids["google"] = id])
           \/ ~task[t].found /\ Owner("google", id) = {} /\ ~rows[e].exists /\ UNCHANGED undone
              /\ Write(t, e, NewRow(FALSE, [NoIds EXCEPT !["google"] = id], {}, FALSE))

-----------------------------------------------------------------------------
(* Linking and unlinking, for a user who is logged in.                      *)

LinkAccount(t, p, e, id) ==
    /\ task[t].place = "idle"
    /\ rows[e].exists
    /\ Owner(p, id) \subseteq {e}
    /\ Begin(t, "link", e, p, id)
    /\ UNCHANGED <<rows, undone>>

LinkGoogleAccount(t, e, id) == LinkAccount(t, "google", e, id)
LinkFacebookAccount(t, e, id) == LinkAccount(t, "facebook", e, id)

LinkWrite(t) ==
    LET e == task[t].email
        p == task[t].provider
    IN  /\ task[t].place = "link"
        /\ Owner(p, task[t].id) \subseteq {e}
        /\ NoteStale(t)
        /\ Write(t, e, [rows[e] EXCEPT !.ids[p] = task[t].id, !.listed = task[t].listed \cup {p}])

\* "Cannot unlink last authentication method."
UnlinkSocialAccount_AnyTime(t, p, e) ==
    /\ task[t].place = "idle"
    /\ rows[e].exists /\ p \in rows[e].listed
    /\ Begin(t, "unlink", e, p, NoId)
    /\ UNCHANGED <<rows, undone>>

UnlinkSocialAccount(t, p, e) ==
    /\ task[t].place = "idle"
    /\ rows[e].exists /\ p \in rows[e].listed
    /\ rows[e].password \/ rows[e].listed # {p}
    /\ Begin(t, "unlink", e, p, NoId)
    /\ UNCHANGED <<rows, undone>>

\* Of the other requests, those that read this row list what is gone.
UnlinkWrite(t) ==
    LET e == task[t].email
        p == task[t].provider
    IN  /\ task[t].place = "unlink"
        /\ NoteStale(t)
        /\ rows' = [rows EXCEPT ![e].ids[p] = NoId, ![e].listed = task[t].listed \ {p}]
        /\ task' = [u \in Tasks |->
               IF u = t THEN NoTask
               ELSE IF task[u].place # "idle" /\ task[u].email = e
                    THEN [task[u] EXCEPT !.stale = TRUE]
                    ELSE task[u]]

-----------------------------------------------------------------------------
(* Clerk's webhooks: user.created and user.updated.                         *)

\* createUser merges into the row with the address; Google comes with its id,
\* and without it the id that was read is written back.
ClerkCreateUser(t, e) ==
    /\ task[t].place = "idle"
    /\ Begin(t, "clerkCreate", e, "google", NoId)
    /\ UNCHANGED <<rows, undone>>

ClerkCreateWrite(t, id) ==
    LET e == task[t].email
        google == IF id = NoId THEN {} ELSE {"google"}
        kept == IF id = NoId THEN task[t].google ELSE id
    IN  /\ task[t].place = "clerkCreate"
        /\ \/ task[t].found /\ Owner("google", kept) \subseteq {e} /\ NoteStale(t)
              /\ Write(t, e, [rows[e] EXCEPT !.clerk = TRUE, !.ids["google"] = kept,
                                             !.listed = task[t].listed \cup google])
           \/ ~task[t].found /\ ~rows[e].exists /\ Owner("google", id) = {} /\ UNCHANGED undone
              /\ Write(t, e, NewRow(FALSE, [NoIds EXCEPT !["google"] = id], google, TRUE))

\* updateUser finds the row by Clerk's id.
ClerkUpdateUser(t, e) ==
    /\ task[t].place = "idle"
    /\ rows[e].exists /\ rows[e].clerk
    /\ Begin(t, "clerkUpdate", e, "google", NoId)
    /\ UNCHANGED <<rows, undone>>

ClerkUpdateWrite(t, id) ==
    LET e == task[t].email
    IN  /\ task[t].place = "clerkUpdate"
        /\ \/ id = NoId /\ NoteStale(t) /\ Write(t, e, [rows[e] EXCEPT !.listed = task[t].listed])
           \/ id # NoId /\ Owner("google", id) \subseteq {e} /\ NoteStale(t)
              /\ Write(t, e, [rows[e] EXCEPT !.ids["google"] = id,
                                             !.listed = task[t].listed \cup {"google"}])

\* A provider's or the database's error ends a request where it stands; so does
\* an id or an address that has got another row since: its column is unique.
AccountFail(t) ==
    /\ task[t].place # "idle"
    /\ task' = [task EXCEPT ![t] = NoTask]
    /\ UNCHANGED <<rows, undone>>

AccountsNext ==
    \E t \in Tasks :
        \/ \E e \in Emails : Register(t, e) \/ Create(t, e) \/ ValidateClerk(t, e)
        \/ \E e \in Emails : ClerkCreateUser(t, e) \/ ClerkUpdateUser(t, e)
        \/ RegisterWrite(t) \/ InsertWrite(t)
        \/ \E e \in Emails : SetPassword(e)
        \/ \E e \in Emails, id \in Ids :
              \/ LoginWithGoogle(t, id, e) \/ LoginWithFacebook(t, id, e) \/ FirebaseSync(t, id, e)
              \/ LinkGoogleAccount(t, e, id) \/ LinkFacebookAccount(t, e, id)
              \/ SyncGoogleUser(t, id, e)
        \/ \E p \in Linkable, e \in Emails : UnlinkSocialAccount(t, p, e)
        \/ OAuthWrite(t) \/ SyncWrite(t) \/ LinkWrite(t) \/ UnlinkWrite(t)
        \/ \E id \in Ids \cup {NoId} : ClerkCreateWrite(t, id) \/ ClerkUpdateWrite(t, id)
        \/ AccountFail(t)

AccountsSpec == AccountsInit /\ [][AccountsNext]_accountVars

\* A row somebody can sign in to: a password, a Clerk user or an id at a provider.
WayIn(row) ==
    row.exists /\ (row.password \/ row.clerk \/ \E p \in Providers : row.ids[p] # NoId)

(***************************************************************************)
(* Nobody loses the last way into an account, which unlinkSocialAccount     *)
(* promises and checks on a row it read before an await: whatever           *)
(* registrations, logins, links, unlinks, syncs and events of Clerk         *)
(* overlap on one row, each writing back the list it read.  The one         *)
(* exception is a list that was read before an unlink and written after     *)
(* it (undone), as two unlinks at once do.                                  *)
(***************************************************************************)
SignInMethodKept ==
    [][\A e \in Emails \ undone' : WayIn(rows[e]) => WayIn(rows'[e])]_accountVars

==============================================================================
