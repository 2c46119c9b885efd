------------------------ MODULE MCSellerApplications ------------------------
(* SellerApplications for TLC: handlers and users are interchangeable.       *)
EXTENDS SellerApplications, TLC

MCSymmetry == Permutations(Handlers) \cup Permutations(Users)

=============================================================================
