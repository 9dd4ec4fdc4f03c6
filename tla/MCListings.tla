----------------------------- MODULE MCListings -----------------------------
(* Instances of Listings: up to four parties, of two edit forms, the seller's *)
(* buttons, the removal, a question, three checkouts, four erasures and a     *)
(* pass, and one thing out of the ordinary at a time.  The second form, the   *)
(* third buyer and the pass count for two parties each.                       *)
EXTENDS Listings, TLC

CONSTANT MaxActors

Editing == {f \in Forms : forms[f] # NoForm \/ f \in files}
Buying == {c \in Checkouts : buys[c] # NoBuy}
Erasing == {u \in Users : erasures[u] # "none"}

Actors ==
    Editing \cup Buying \cup {<<u>> : u \in Erasing}
    \cup (IF button.at = "idle" THEN {} ELSE {<<"button">>})
    \cup (IF removal.at = "none" THEN {} ELSE {<<"removal">>})
    \cup (IF question = "none" THEN {} ELSE {<<"question">>})
    \cup (IF scan.at = "idle" THEN {} ELSE {<<"scan">>, <<"pass">>})
    \cup (IF Cardinality(Editing) < 2 THEN {} ELSE {<<"second">>})
    \cup (IF Cardinality(Buying \cup (Erasing \ {"seller"})) < 3 THEN {} ELSE {<<"third">>})

FewActors == Cardinality(Actors) <= MaxActors /\ Cardinality(odd) <= 1

Symmetry == Permutations(Forms) \cup Permutations(Checkouts)
=============================================================================
