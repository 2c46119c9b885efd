------------------------------ MODULE MCOrders ------------------------------
(***************************************************************************)
(* Orders for TLC: item lists over a few products.                         *)
(***************************************************************************)
EXTENDS Orders, TLC

Uniform(most, total) == [p \in Products |-> [most |-> most, total |-> total]]

\* A client may send no line at all, one line per product, or the same
\* product on two lines.
MCBaskets == {NoLines, Uniform(1, 1), Uniform(1, 2)}

MCCartBasket == [c \in Carts |-> Uniform(1, 1)]

MCInitialStock == [p \in Products |-> MaxStock]

MCSymmetry == Permutations(Handlers) \cup Permutations(OrderIds) \cup Permutations(Products)

=============================================================================
