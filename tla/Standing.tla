------------------------------ MODULE Standing ------------------------------
(***************************************************************************)
(* What a seller is known by: the counters and ratings that the users row  *)
(* caches (trustService.js), recomputed by the moves of an order inside    *)
(* their transactions (orderStateMachine.js) and by reviews                *)
(* (reviewsService.js), and the Stripe account that receives the money     *)
(* (connectService.js and the account.updated webhook).                    *)
(*                                                                         *)
(* A count is abstracted to the set that it counts.  A recomputation is an *)
(* UPDATE with a subquery: it sees what was committed when it started (its *)
(* snapshot, and its own transaction's writes), then waits for the row.    *)
(***************************************************************************)
EXTENDS OrderStatus, Naturals, Sequences

CONSTANTS
    Users, Orders,
    SellerOf, BuyerOf,      \* the parties of an order
    Reviews,                \* reviews somebody may write
    OrderOf, Reviewee,      \* the deal a review is about, and whom it rates
    Onboardings,            \* requests of one seller to set up payouts
    Looks,                  \* requests for the state of the payouts
    Nobody

ASSUME StandingAssumption ==
    /\ SellerOf \in [Orders -> Users] /\ BuyerOf \in [Orders -> Users]
    /\ \A o \in Orders : SellerOf[o] # BuyerOf[o]
    /\ OrderOf \in [Reviews -> Orders]
    /\ \A v \in Reviews : Reviewee[v] \in {SellerOf[OrderOf[v]], BuyerOf[OrderOf[v]]}
    /\ Nobody \notin Onboardings

VARIABLES
    status,         \* transactions.status, as committed
    posted,         \* the rows of reviews
    counters,       \* users.completed_sales_count, completed_purchases_count
    ratings,        \* users.rating_sum and rating_count
    move,           \* the request that moves an order, and its transaction
    review,         \* the request that posts a review
    overtaken,      \* history: what was last written from an old snapshot, or not written
    account,        \* users.stripe_connect_account_id
    enabled,        \* users.connect_charges_enabled and connect_payouts_enabled
    stripe,         \* the accounts at Stripe, by the request that made them
    events,         \* account.updated events Stripe has to deliver
    onboard, look,  \* the requests under way
    rivals          \* history: two requests have been setting up an account

deals    == <<status, posted, counters, ratings, move, review, overtaken>>
payouts  == <<account, enabled, stripe, events, onboard, look, rivals>>
standingVars     == <<deals, payouts>>

Tallies == [sales : SUBSET Orders, purchases : SUBSET Orders]

NoSeen  == [sales |-> {}, purchases |-> {}]
AtRest  == [at |-> "rest", to |-> "none", left |-> <<>>, seen |-> Nobody,
            rows |-> <<>>, late |-> {}]
Unasked == [at |-> "idle", seen |-> {}, late |-> FALSE]

StandingInit ==
    /\ status = [o \in Orders |-> "fulfilled"]
    /\ posted = {} /\ overtaken = {}
    /\ counters = [u \in Users |-> NoSeen]
    /\ ratings = [u \in Users |-> {}]
    /\ move = [o \in Orders |-> AtRest]
    /\ review = [v \in Reviews |-> Unasked]
    /\ account = Nobody /\ enabled = FALSE /\ rivals = FALSE /\ events = {}
    /\ stripe = [a \in Onboardings |-> "none"]
    /\ onboard = [r \in Onboardings |-> "idle"]
    /\ look = [k \in Looks |-> Nobody]

-----------------------------------------------------------------------------
(* refreshTransactionCounters                                              *)

Tally(u, seen) ==
    [sales     |-> {o \in Orders : SellerOf[o] = u /\ seen[o] \in Concluded},
     purchases |-> {o \in Orders : BuyerOf[o] = u /\ seen[o] \in Concluded}]

\* What a statement of o's request sees of the orders: the committed rows
\* and, until it commits, the row it has moved itself.
Visible(o) == IF move[o].at = "open" THEN [status EXCEPT ![o] = move[o].to] ELSE status

Holds(o, u)   == move[o].at = "open" /\ u \in DOMAIN move[o].rows
Free(u, o)    == \A p \in Orders \ {o} : ~Holds(p, u)

\* Which of the rows written were written from a snapshot out of date.
Marked(what, written, late) ==
    overtaken' = (overtaken \ (written \X {what})) \cup ((written \cap late) \X {what})

CountStarts(o) ==
    /\ move[o].left # <<>> /\ move[o].seen = Nobody
    /\ move' = [move EXCEPT ![o].seen = Tally(Head(move[o].left), Visible(o))]
    /\ UNCHANGED <<status, posted, counters, ratings, review, overtaken, payouts>>

\* The rows of an open transaction, one more written.
Written(rows, u, s) == [w \in DOMAIN rows \cup {u} |-> IF w = u THEN s ELSE rows[w]]

\* The row is written when nobody else holds it, from the snapshot.
CountWrites(o) ==
    LET u == Head(move[o].left)
        s == move[o].seen IN
    /\ s # Nobody /\ Free(u, o)
    /\ move' = [move EXCEPT ![o].left = Tail(@), ![o].seen = Nobody,
                            ![o].rows = IF move[o].at = "open" THEN Written(@, u, s) ELSE @]
    /\ counters' = IF move[o].at = "open" THEN counters ELSE [counters EXCEPT ![u] = s]
    /\ Marked("counters", IF move[o].at = "open" THEN {} ELSE {u}, move[o].late)
    /\ UNCHANGED <<status, posted, ratings, review, payouts>>

-----------------------------------------------------------------------------
(* transitionOrder                                                         *)

TouchesConcluded(from, to) == from \in Concluded \/ to \in Concluded

\* The order's row is locked, moved and the event written; both parties'
\* counters follow, the seller's first.
Move(o, to) ==
    /\ move[o].at = "rest" /\ to \in ValidTransitions[status[o]]
    /\ move' = [move EXCEPT ![o] = [AtRest EXCEPT
                  !.at = "open", !.to = to,
                  !.left = IF TouchesConcluded(status[o], to) THEN <<SellerOf[o], BuyerOf[o]>>
                           ELSE <<>>]]
    /\ UNCHANGED <<status, posted, counters, ratings, review, overtaken, payouts>>

\* The counts of other requests that have started are now out of date.
Overtakes(o, p) ==
    IF move[p].seen # Nobody /\ Head(move[p].left) \in DOMAIN move[o].rows
      THEN [move[p] EXCEPT !.late = @ \cup {Head(move[p].left)}]
      ELSE move[p]

\* resolveDispute recounts both parties once more after its commit.
CommitMove(o) ==
    /\ move[o].at = "open" /\ move[o].left = <<>>
    /\ status' = [status EXCEPT ![o] = move[o].to]
    /\ counters' = [u \in Users |-> IF u \in DOMAIN move[o].rows THEN move[o].rows[u]
                                   ELSE counters[u]]
    /\ move' = [p \in Orders |->
                  CASE p # o -> Overtakes(o, p)
                    [] p = o /\ status[o] = "disputed" ->
                         [AtRest EXCEPT !.at = "resolved", !.left = <<SellerOf[o], BuyerOf[o]>>]
                    [] OTHER -> AtRest]
    /\ Marked("counters", DOMAIN move[o].rows, move[o].late)
    /\ UNCHANGED <<posted, ratings, review, payouts>>

MoveAnswered(o) ==
    /\ move[o].at = "resolved" /\ move[o].left = <<>>
    /\ move' = [move EXCEPT ![o] = AtRest]
    /\ UNCHANGED <<status, posted, counters, ratings, review, overtaken, payouts>>

\* Two transactions that wait for each other's users row, a failed statement
\* or the end of the process: the transaction leaves nothing behind.  The
\* recounts of a resolution are lost with the process.
MoveFails(o) ==
    /\ move[o].at # "rest"
    /\ move' = [move EXCEPT ![o] = AtRest]
    /\ UNCHANGED <<status, posted, counters, ratings, review, overtaken, payouts>>

-----------------------------------------------------------------------------
(* reviewsService.create                                                   *)

About(u) == {v \in posted : Reviewee[v] = u}

ReviewAllowed(v) ==
    /\ review[v].at = "idle" /\ status[OrderOf[v]] \in Concluded
    /\ review' = [review EXCEPT ![v].at = "allowed"]
    /\ UNCHANGED <<status, posted, counters, ratings, move, overtaken, payouts>>

\* A second review of the same deal meets the unique index and recomputes
\* nothing, also when the first never came to its recomputation.
PostReview(v) ==
    /\ review[v].at = "allowed"
    /\ posted' = posted \cup {v}
    /\ review' = [w \in Reviews |->
                    IF w = v THEN [Unasked EXCEPT !.at = IF v \in posted THEN "idle" ELSE "posted"]
                    ELSE [review[w] EXCEPT !.late = @ \/ (review[w].at = "rating" /\ v \notin posted
                                                           /\ Reviewee[w] = Reviewee[v])]]
    /\ UNCHANGED <<status, counters, ratings, move, overtaken, payouts>>

RateStarts(v) ==
    /\ review[v].at = "posted"
    /\ review' = [review EXCEPT ![v] = [at |-> "rating", seen |-> About(Reviewee[v]),
                                           late |-> FALSE]]
    /\ UNCHANGED <<status, posted, counters, ratings, move, overtaken, payouts>>

(* Mutant: the aggregate is raised by the new review instead of recomputed. *)
RateWritesOwn(v) ==
    LET u == Reviewee[v] IN
    /\ review[v].at = "rating" /\ \A o \in Orders : ~Holds(o, u)
    /\ ratings' = [ratings EXCEPT ![u] = {v}]
    /\ Marked("ratings", {u}, IF review[v].late THEN {u} ELSE {})
    /\ review' = [review EXCEPT ![v] = Unasked]
    /\ UNCHANGED <<status, posted, counters, move, payouts>>

RateWrites(v) ==
    LET u == Reviewee[v] IN
    /\ review[v].at = "rating" /\ \A o \in Orders : ~Holds(o, u)
    /\ ratings' = [ratings EXCEPT ![u] = review[v].seen]
    /\ Marked("ratings", {u}, IF review[v].late THEN {u} ELSE {})
    /\ review' = [review EXCEPT ![v] = Unasked]
    /\ UNCHANGED <<status, posted, counters, move, payouts>>

ReviewDies(v) ==
    /\ review[v].at # "idle"
    /\ review' = [review EXCEPT ![v] = Unasked]
    /\ overtaken' = IF review[v].at = "allowed" THEN overtaken
                    ELSE overtaken \cup {<<Reviewee[v], "ratings">>}
    /\ UNCHANGED <<status, posted, counters, ratings, move, payouts>>

-----------------------------------------------------------------------------
(* connectService.onboard                                                  *)

Creating(r) == onboard[r] \in {"noneYet", "created"}

(* Mutant: an account is created without asking for the one there is. *)
OnboardUnasked(r) ==
    /\ onboard[r] = "idle"
    /\ onboard' = [onboard EXCEPT ![r] = "noneYet"]
    /\ rivals' = (rivals \/ \E q \in Onboardings \ {r} : Creating(q))
    /\ UNCHANGED <<account, enabled, stripe, events, look, deals>>

\* The row is read; without an account one is to be created.
Onboard(r) ==
    /\ onboard[r] = "idle"
    /\ onboard' = [onboard EXCEPT ![r] = IF account = Nobody THEN "noneYet" ELSE "done"]
    /\ rivals' = (rivals \/ (account = Nobody /\ \E q \in Onboardings \ {r} : Creating(q)))
    /\ UNCHANGED <<account, enabled, stripe, events, look, deals>>

CreateAccount(r) ==
    /\ onboard[r] = "noneYet"
    /\ stripe' = [stripe EXCEPT ![r] = "new"]
    /\ onboard' = [onboard EXCEPT ![r] = "created"]
    /\ UNCHANGED <<account, enabled, events, look, rivals, deals>>

\* Whatever account the row has by now is overwritten; its flags stay.
SaveAccount(r) ==
    /\ onboard[r] = "created"
    /\ account' = r
    /\ onboard' = [onboard EXCEPT ![r] = "done"]
    /\ UNCHANGED <<enabled, stripe, events, look, rivals, deals>>

OnboardDies(r) ==
    /\ onboard[r] \in {"noneYet", "created"}
    /\ onboard' = [onboard EXCEPT ![r] = "done"]
    /\ UNCHANGED <<account, enabled, stripe, events, look, rivals, deals>>

\* Stripe, outside: the seller completes the forms of an account whose link
\* was handed out; Stripe may restrict it later.  It tells of both.
StripeDecides(a) ==
    /\ \/ stripe[a] = "new" /\ onboard[a] = "done"
       \/ stripe[a] = "enabled"
    /\ LET now == IF stripe[a] = "new" THEN "enabled" ELSE "restricted" IN
       /\ stripe' = [stripe EXCEPT ![a] = now]
       /\ events' = events \cup {<<a, now>>}
    /\ UNCHANGED <<account, enabled, onboard, look, rivals, deals>>

\* The webhook, in any order and repeatedly; it names the account.
AccountUpdated(a, is) ==
    /\ <<a, is>> \in events
    /\ enabled' = IF account = a THEN is = "enabled" ELSE enabled
    /\ UNCHANGED <<account, stripe, events, onboard, look, rivals, deals>>

-----------------------------------------------------------------------------
(* connectService.status: the row is read, Stripe asked about the account   *)
(* found, the answer written to the user, whatever account it has by then. *)
LookUp(k) ==
    /\ look[k] = Nobody /\ account # Nobody
    /\ look' = [look EXCEPT ![k] = [of |-> account, is |-> Nobody]]
    /\ UNCHANGED <<account, enabled, stripe, events, onboard, rivals, deals>>

Retrieve(k) ==
    /\ look[k] # Nobody /\ look[k].is = Nobody
    /\ look' = [look EXCEPT ![k].is = stripe[look[k].of]]
    /\ UNCHANGED <<account, enabled, stripe, events, onboard, rivals, deals>>

SaveLook(k) ==
    /\ look[k] # Nobody /\ look[k].is # Nobody
    /\ enabled' = (look[k].is = "enabled")
    /\ look' = [look EXCEPT ![k] = Nobody]
    /\ UNCHANGED <<account, stripe, events, onboard, rivals, deals>>

\* isPayoutReady, which checkout asks before it names the account.
PayoutReady == account # Nobody /\ enabled

-----------------------------------------------------------------------------
MoveSteps(o) ==
    \/ \E to \in {"completed", "disputed", "refunded"} : Move(o, to)
    \/ CountStarts(o) \/ CountWrites(o) \/ CommitMove(o) \/ MoveAnswered(o) \/ MoveFails(o)

ReviewSteps(v) ==
    ReviewAllowed(v) \/ PostReview(v) \/ RateStarts(v) \/ RateWrites(v) \/ ReviewDies(v)

OnboardSteps(r) ==
    \/ Onboard(r) \/ CreateAccount(r) \/ SaveAccount(r) \/ OnboardDies(r)
    \/ StripeDecides(r) \/ \E is \in {"enabled", "restricted"} : AccountUpdated(r, is)

StandingNext ==
    \/ \E o \in Orders : MoveSteps(o)
    \/ \E v \in Reviews : ReviewSteps(v)
    \/ \E r \in Onboardings : OnboardSteps(r)
    \/ \E k \in Looks : LookUp(k) \/ Retrieve(k) \/ SaveLook(k)

StandingSpec == StandingInit /\ [][StandingNext]_standingVars

-----------------------------------------------------------------------------
(* A profile says what happened.  The committed counters of a user are the  *)
(* user's committed completed orders, through completions, disputes,        *)
(* refunds and transactions that fail, unless another move of the user      *)
(* committed between the start of the count last written and its end; and   *)
(* the rating counts every review there is, unless one was posted during    *)
(* the last recomputation, is still to be counted, or lost its request.     *)
ProfileMatches ==
    \A u \in Users :
        /\ counters[u] = Tally(u, status) \/ <<u, "counters">> \in overtaken
        /\ \/ ratings[u] = About(u) \/ <<u, "ratings">> \in overtaken
           \/ \E v \in posted : Reviewee[v] = u /\ review[v].at \in {"posted", "rating"}

(* A seller whom checkout takes to be ready for payouts has an account that *)
(* Stripe did enable, unless two requests were creating one at a time.      *)
PayoutsReachSeller ==
    PayoutReady => rivals \/ stripe[account] \in {"enabled", "restricted"}
=============================================================================
