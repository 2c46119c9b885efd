-------------------------- MODULE MCSellerAndCaches --------------------------
(***************************************************************************)
(* Seller applications and cached views for TLC.  They share no state, so  *)
(* each behaviour exercises one of them, its scope, and the other rests in *)
(* an initial state.                                                       *)
(***************************************************************************)
EXTENDS MCSellerApplications, CacheAside

VARIABLE scope

mcVars == <<scope, vars, cacheVars>>

\* One initial state of the cache, for the behaviours of the applications.
CacheRests ==
    /\ asks = <<Ask(UsersFindOne, {}), Ask(UsersFindOne, {})>> /\ writer = NoWriter
    /\ version = 0 /\ cache = [k \in Keys |-> None] /\ tagged = <<>> /\ reader = [i \in Readers |-> Idle]
    /\ wr = Idle /\ up = TRUE /\ quiet = TRUE /\ answer = [i \in Readers |-> "none"]

MCInit ==
    /\ scope \in {"seller", "cache"}
    /\ Init
    /\ IF scope = "cache" THEN CacheInit ELSE CacheRests

MCNext ==
    /\ UNCHANGED scope
    /\ \/ scope = "seller" /\ Next /\ UNCHANGED cacheVars
       \/ scope = "cache" /\ CacheNext /\ UNCHANGED vars

MCSpec == MCInit /\ [][MCNext]_mcVars

==============================================================================
