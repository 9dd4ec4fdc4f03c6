------------------------------ MODULE MCOrders ------------------------------
(* Instances of Orders for TLC. *)
EXTENDS Orders, TLC

OneListing == [c \in Checkouts |-> CHOOSE l \in Listings : TRUE]

(* Attempts on one listing, handlers and admins are interchangeable. *)
Symmetry == Permutations(Checkouts) \cup Permutations(Handlers)
=============================================================================
