---------------------------- MODULE MCTakedown ----------------------------
(* Small instances of Takedown: one listing, whose orders the moderators   *)
(* and the workers contend for.                                            *)
EXTENDS Takedown, TLC

OneListing == [c \in Checkouts |-> CHOOSE l \in Listings : TRUE]

\* Two takedowns of the listing, by one moderator at a time and without a
\* crash; or one, with two workers and a crash.
OneAtATime ==
  \/ Cardinality({a \in Actions : actionState[a] # "none"}) <= 1
  \/ crashes = 0 /\ Cardinality({w \in Workers : workerStep[w] # "idle"}) <= 1

Symmetry == Permutations(Checkouts) \cup Permutations(Workers) \cup Permutations(Actions)
=============================================================================
