------------------------------- MODULE MCAccess -------------------------------
(***************************************************************************)
(* Who may be served, and the ways into an account.  The two share no      *)
(* column here, so each behaviour exercises one of them (scope).           *)
(***************************************************************************)
EXTENDS Access, Accounts, TLC

CONSTANT Watched   \* addresses every request is for; the others only log in with a provider

VARIABLE scope

mcVars == <<accessVars, accountVars, scope>>

\* The rows that are not watched are there to take ids away from those that are.
Aside(row) == row.exists => ~row.password /\ ~row.clerk

MCInit ==
    \/ /\ scope = "access" /\ AccessInit
       /\ rows = [e \in Emails |-> Absent] /\ task = [t \in Tasks |-> NoTask] /\ undone = {}
    \/ /\ scope = "accounts" /\ AccountsInit /\ \A e \in Emails \ Watched : Aside(rows[e])
       /\ role = [u \in Users |-> "none"] /\ inactive = {} /\ tokens = {} /\ call = [c \in Calls |-> Idle]

AccountsBound ==
    /\ \A e \in Emails \ Watched : Aside(rows'[e])
    /\ \A t \in Tasks :
          task'[t].place # "idle" => task'[t].email \in Watched \/ task'[t].place = "oauth"

MCNext ==
    /\ UNCHANGED scope
    /\ \/ scope = "access" /\ AccessNext /\ UNCHANGED accountVars
       \/ scope = "accounts" /\ AccountsNext /\ AccountsBound /\ UNCHANGED accessVars

MCSpec == MCInit /\ [][MCNext]_mcVars

Symmetry == Permutations(Calls) \cup Permutations(Tasks)

==============================================================================
