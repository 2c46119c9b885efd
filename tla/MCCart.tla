------------------------------- MODULE MCCart -------------------------------
(***************************************************************************)
(* Cart for TLC: MaxRequests bounds the requests that arrive, and handlers,*)
(* cart ids and products are interchangeable.                              *)
(***************************************************************************)
EXTENDS Cart, TLC

CONSTANT MaxRequests

VARIABLE arrived

MCInit == Init /\ arrived = 0

MCNext ==
    \/ /\ arrived < MaxRequests
       /\ \E h \in Handlers : Arrive(h)
       /\ arrived' = arrived + 1
    \/ /\ \E h \in Handlers : Work(h)
       /\ UNCHANGED arrived
    \/ Days /\ UNCHANGED arrived

MCSpec == MCInit /\ [][MCNext]_<<vars, arrived>>

MCSymmetry == Permutations(Handlers) \cup Permutations(CartIds) \cup Permutations(Products)

=============================================================================
