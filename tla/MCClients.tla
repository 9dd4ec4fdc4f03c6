----------------------------- MODULE MCClients -----------------------------
(***************************************************************************)
(* The four specifications of the clients in one run.  They share nothing *)
(* and are explored one at a time.                                         *)
(***************************************************************************)
EXTENDS Threads, Catalogue, Devices, Desk, TLC

\* Bound: the part that leaves its start.
VARIABLE part

MCMatching == [f \in Filters |-> IF f = "toys" THEN Listings \ {4} ELSE Listings]
MCDistance == [l \in Listings |-> (2 * l) % 5]

Init ==
    /\ part \in {"threads", "catalogue", "devices", "desk"}
    /\ ThreadsInit /\ CatalogueInit /\ DevicesInit /\ DeskInit
    /\ part # "catalogue" => grid.filter = "toys"
    /\ part # "desk" => orderList.kind = "web" /\ orderList.role = "buyer"

vars == <<threadVars, catalogueVars, deviceVars, deskVars, part>>

Next ==
    /\ \/ part = "threads" /\ ThreadsNext /\ UNCHANGED <<catalogueVars, deviceVars, deskVars>>
       \/ part = "catalogue" /\ CatalogueNext /\ UNCHANGED <<threadVars, deviceVars, deskVars>>
       \/ part = "devices" /\ DevicesNext /\ UNCHANGED <<threadVars, catalogueVars, deskVars>>
       \/ part = "desk" /\ DeskNext /\ UNCHANGED <<threadVars, catalogueVars, deviceVars>>
    /\ UNCHANGED part

Spec == Init /\ [][Next]_vars

\* One screen at work: with two conversations of one message, or one of two
\* messages, or of three with one request at a time.  One screen up and others
\* left behind: with one conversation of one message.
OneTalk == \E c \in Convs : \A d \in Convs \ {c} : msgs[d] = <<>>
UpTo(n) == \A c \in Convs : Len(msgs[c]) <= n
Open == {r \in Slots : req[r] # NoRequest}
Working == {s \in Screens : screen[s].up} \cup {req[r].screen : r \in Open}
FewScreens ==
    \/ Cardinality(Working) <= 1 /\ UpTo(1)
    \/ Cardinality(Working) <= 1 /\ OneTalk /\ UpTo(2)
    \/ Cardinality(Working) <= 1 /\ OneTalk /\ Cardinality(Open) <= 1
    \/ Cardinality({s \in Screens : screen[s].up}) <= 1 /\ OneTalk /\ UpTo(1)

\* The grid or the feed, and as many new listings as a page holds.
GridOrFeed ==
    /\ \/ loads = {AskFor(feed.filter, 0)} /\ feed.shown = {}
       \/ first = AskFor(grid.filter, 0) /\ grid.shown = {} /\ more = Nothing /\ ~mixed /\ base = {}
    /\ arrived <= 2 /\ Cardinality(loads) <= 2 /\ Cardinality(published \ onSale) <= 1

\* The buyer is at the checkout or at the list.
SheetOrList ==
    \/ \A q \in Calls : call[q] = Resting
    \/ sheet.at = "closed" /\ app.at = "idle" /\ left = NoLeft

Bounds ==
    /\ part = "threads" => FewScreens
    /\ part = "catalogue" => GridOrFeed
    /\ part = "desk" => SheetOrList
    /\ part = "devices" => asking <= 2 /\ \A u \in Users : sent[u] <= 2

Symmetry == Permutations(Slots) \cup Permutations(Convs)
=============================================================================
