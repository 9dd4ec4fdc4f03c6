----------------------------- MODULE Catalogue -----------------------------
(***************************************************************************)
(* Browsing: listingsService.list, which answers a page, under the grid of *)
(* the web (useListings.js), which pages, cancels and appends, and the     *)
(* feed of the phone (FeedScreen.tsx), which shows whatever lands.         *)
(*                                                                         *)
(* Listings are numbered in the order they are published.                  *)
(***************************************************************************)
EXTENDS Naturals, FiniteSets

CONSTANTS
    Listings, OnSaleAtFirst,
    Filters, Matching,      \* what can be asked for, and what it selects
    Near, Distance,         \* the filters with a location, and how far a listing is
    ListingPage             \* PAGE_SIZE of the grid and of the feed

ASSUME CatalogueAssumption ==
    /\ Listings \subseteq Nat /\ ListingPage \in Nat \ {0}
    /\ OnSaleAtFirst \subseteq Listings /\ IsFiniteSet(OnSaleAtFirst)
    /\ Matching \in [Filters -> SUBSET Listings] /\ Near \subseteq Filters
    /\ Distance \in [Listings -> Nat]

VARIABLES
    onSale,         \* listings that are active and not taken down
    published,      \* listings that ever were
    grid,           \* the grid: filter, what it shows, whether it offers more
    first, more,    \* its two requests, for the first page and for the next
    feed,           \* the feed: category and what it shows
    loads,          \* its requests
    base,           \* history: what the filter selected when the first page was read
    arrived,        \* history: how many came on sale since
    shifted,        \* history: whether one went off sale since
    mixed, feedMixed    \* history: requests overlapped, or one failed

catalogueVars == <<onSale, published, grid, first, more, feed, loads, base, arrived, shifted,
                   mixed, feedMixed>>

Nothing == [out |-> FALSE, filter |-> CHOOSE f \in Filters : TRUE, offset |-> 0]
AskFor(f, n) == [out |-> TRUE, filter |-> f, offset |-> n]

CatalogueInit ==
    /\ onSale = OnSaleAtFirst /\ published = OnSaleAtFirst
    /\ \E f \in Filters :
         /\ grid = [filter |-> f, shown |-> {}, hasMore |-> FALSE] /\ first = AskFor(f, 0)
         /\ feed = [filter |-> f, shown |-> {}] /\ loads = {AskFor(f, 0)}
    /\ more = Nothing
    /\ base = {} /\ arrived = 0 /\ shifted = FALSE /\ mixed = FALSE /\ feedMixed = FALSE

-----------------------------------------------------------------------------
(* The server                                                              *)

Selected(f) == onSale \cap Matching[f]

\* Newest first; with a location, nearest first, and nothing orders listings
\* at the same place: each query may order them its own way.
Precedes(k, l, f, ties) ==
    IF f \in Near
      THEN Distance[k] < Distance[l] \/ (Distance[k] = Distance[l] /\ IF ties = "up" THEN k < l ELSE k > l)
      ELSE k > l

Rank(l, f, ties) == Cardinality({k \in Selected(f) : Precedes(k, l, f, ties)})

\* What changes between the query and the landing of its answer might as well
\* change after it: an answer is read when it lands.
Page(q, ties) == {l \in Selected(q.filter) : /\ Rank(l, q.filter, ties) >= q.offset
                                             /\ Rank(l, q.filter, ties) < q.offset + ListingPage}

\* The total is counted on the rows of the page: an empty page ends the paging.
OffersMore(q, page) == page # {} /\ q.offset + ListingPage < Cardinality(Selected(q.filter))

\* Published, or back on sale when an order on it ends.
ComesOnSale(l) ==
    /\ l \in Listings \ onSale
    /\ l \notin published => \A k \in Listings : k < l => k \in published
    /\ onSale' = onSale \cup {l} /\ published' = published \cup {l}
    /\ arrived' = arrived + 1
    /\ UNCHANGED <<grid, first, more, feed, loads, base, shifted, mixed, feedMixed>>

\* Reserved, sold, taken down or deleted.
GoesOffSale(l) ==
    /\ l \in onSale
    /\ onSale' = onSale \ {l}
    /\ shifted' = TRUE
    /\ UNCHANGED <<published, grid, first, more, feed, loads, base, arrived, mixed, feedMixed>>

-----------------------------------------------------------------------------
(* The grid                                                                *)

(* Mutant: the request under way is not cancelled, and lands as it likes. *)
RefreshKeeps(f) ==
    /\ grid' = [grid EXCEPT !.filter = f]
    /\ first' = IF first.out THEN first ELSE AskFor(f, 0)
    /\ mixed' = more.out
    /\ UNCHANGED <<onSale, published, more, feed, loads, base, arrived, shifted, feedMixed>>

\* A new filter, or the same one again, cancels the first page under way.  The
\* next page under way is not cancelled, and what is shown stays until then.
Refresh(f) ==
    /\ grid' = [grid EXCEPT !.filter = f]
    /\ first' = AskFor(f, 0)
    /\ mixed' = more.out
    /\ UNCHANGED <<onSale, published, more, feed, loads, base, arrived, shifted, feedMixed>>

FirstLands ==
    /\ first.out
    /\ \E ties \in {"up", "down"} : LET page == Page(first, ties) IN
         grid' = [grid EXCEPT !.shown = page, !.hasMore = OffersMore(first, page)]
    /\ first' = Nothing
    /\ base' = Selected(first.filter) /\ arrived' = 0 /\ shifted' = FALSE
    /\ UNCHANGED <<onSale, published, more, feed, loads, mixed, feedMixed>>

\* An error leaves what the last filter showed.
FirstFails ==
    /\ first.out
    /\ first' = Nothing /\ mixed' = TRUE
    /\ UNCHANGED <<onSale, published, grid, more, feed, loads, base, arrived, shifted, feedMixed>>

(* Mutant: the offset is left out. *)
LoadMoreFromStart ==
    /\ ~more.out /\ grid.hasMore
    /\ more' = AskFor(grid.filter, 0)
    /\ mixed' = (mixed \/ first.out)
    /\ UNCHANGED <<onSale, published, grid, first, feed, loads, base, arrived, shifted, feedMixed>>

LoadMore ==
    /\ ~more.out /\ grid.hasMore
    /\ more' = AskFor(grid.filter, Cardinality(grid.shown))
    /\ mixed' = (mixed \/ first.out)
    /\ UNCHANGED <<onSale, published, grid, first, feed, loads, base, arrived, shifted, feedMixed>>

\* Appended, without what is there already.
MoreLands ==
    /\ more.out
    /\ \E ties \in {"up", "down"} : LET page == Page(more, ties) IN
         grid' = [grid EXCEPT !.shown = @ \cup page, !.hasMore = OffersMore(more, page)]
    /\ more' = Nothing
    /\ UNCHANGED <<onSale, published, first, feed, loads, base, arrived, shifted, mixed, feedMixed>>

MoreFails ==
    /\ more.out
    /\ more' = Nothing
    /\ UNCHANGED <<onSale, published, grid, first, feed, loads, base, arrived, shifted, mixed, feedMixed>>

-----------------------------------------------------------------------------
(* The feed: a chip, a search or a pull asks, and nothing is cancelled     *)

FeedAsks(f) ==
    /\ feed' = [feed EXCEPT !.filter = f]
    /\ loads' = loads \cup {AskFor(f, 0)}
    /\ feedMixed' = (loads # {})
    /\ UNCHANGED <<onSale, published, grid, first, more, base, arrived, shifted, mixed>>

FeedLands(q) ==
    /\ q \in loads
    /\ \E ties \in {"up", "down"} : feed' = [feed EXCEPT !.shown = Page(q, ties)]
    /\ loads' = loads \ {q}
    /\ UNCHANGED <<onSale, published, grid, first, more, base, arrived, shifted, mixed, feedMixed>>

FeedFails(q) ==
    /\ q \in loads
    /\ loads' = loads \ {q} /\ feedMixed' = TRUE
    /\ UNCHANGED <<onSale, published, grid, first, more, feed, base, arrived, shifted, mixed>>

-----------------------------------------------------------------------------
ShopSteps == \E l \in Listings : ComesOnSale(l) \/ GoesOffSale(l)
GridSteps ==
    \/ FirstLands \/ FirstFails \/ LoadMore \/ MoreLands \/ MoreFails
    \/ \E f \in Filters : Refresh(f)
FeedSteps ==
    \/ \E f \in Filters : FeedAsks(f)
    \/ \E q \in loads : FeedLands(q) \/ FeedFails(q)

CatalogueNext == ShopSteps \/ GridSteps \/ FeedSteps

CatalogueSpec == CatalogueInit /\ [][CatalogueNext]_catalogueVars

-----------------------------------------------------------------------------
Placed(f) == f \notin Near \/ \A k, l \in Matching[f] : Distance[k] = Distance[l] => k = l

(* A grid or feed at rest shows listings its filter selects, and a grid     *)
(* that offers no more has reached every listing that was there when its    *)
(* first page was read and still is: unless requests overlapped or failed,  *)
(* a listing went off sale between two pages, or a page was cut among       *)
(* listings at the same distance.                                          *)
GridWhole ==
    /\ ~first.out /\ ~more.out /\ ~mixed =>
         /\ grid.shown \subseteq Matching[grid.filter]
         /\ ~grid.hasMore /\ ~shifted /\ Placed(grid.filter) => base \subseteq grid.shown
    /\ loads = {} /\ ~feedMixed => feed.shown \subseteq Matching[feed.filter]

(* The next page brings something new or the offer of more ends, unless     *)
(* requests overlapped, a listing went off sale, a page was cut among       *)
(* listings at the same distance, or as many listings came on sale since    *)
(* the first page as a page holds: then the same page comes again and again.*)
PagingMoves ==
    [][MoreLands /\ ~mixed /\ ~shifted /\ Placed(grid.filter) /\ arrived < ListingPage =>
          grid'.shown # grid.shown \/ ~grid'.hasMore]_catalogueVars
=============================================================================
