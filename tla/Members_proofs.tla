--------------------------- MODULE Members_proofs ---------------------------
(***************************************************************************)
(* Theorems about the accounts of the members: their payouts, ratings,     *)
(* codes, links and sessions, for any number of requests and devices.      *)
(***************************************************************************)
EXTENDS Standing, Accounts, Sessions, TLAPS, FiniteSetTheorems
-----------------------------------------------------------------------------
(***************************************************************************)
(* Onboarding of sellers, trust counters and reviews.                      *)
(***************************************************************************)

(* Payouts.                                                                  *)

Verdicts == {"none", "new", "enabled", "restricted"}
Lookups  == [of : Onboardings, is : Verdicts \cup {Nobody}]

PayoutTypes ==
  /\ account \in Onboardings \cup {Nobody}
  /\ enabled \in BOOLEAN /\ rivals \in BOOLEAN
  /\ stripe \in [Onboardings -> Verdicts]
  /\ onboard \in [Onboardings -> {"idle", "noneYet", "created", "done"}]
  /\ look \in [Looks -> Lookups \cup {Nobody}]

EnabledOnce(a) == stripe[a] \in {"enabled", "restricted"}

(* What Stripe tells, by an event or by an answer on its way to the row, was *)
(* true of that account; there is none before a request made it.             *)
StripeSaid ==
  /\ \A r \in Onboardings : onboard[r] \in {"idle", "noneYet"} => stripe[r] = "none"
  /\ \A a \in Onboardings : <<a, "enabled">> \in events => EnabledOnce(a)
  /\ \A k \in Looks : look[k] # Nobody /\ look[k].is # Nobody /\ look[k].is = "enabled" =>
       EnabledOnce(look[k].of)

(* Requests one at a time: until the one account is saved nothing is enabled *)
(* and nobody asks; from then on every answer is about it.                   *)
OneAccount ==
  ~rivals =>
    /\ \A q, r \in Onboardings : Creating(q) /\ Creating(r) => q = r
    /\ \A r \in Onboardings : Creating(r) => account = Nobody
    /\ account = Nobody => ~enabled /\ \A k \in Looks : look[k] = Nobody
    /\ \A k \in Looks : look[k] # Nobody => look[k].of = account
    /\ enabled /\ account # Nobody => EnabledOnce(account)

PayoutsInv == PayoutTypes /\ StripeSaid /\ OneAccount

LEMMA PayoutsStart == ASSUME StandingInit PROVE PayoutsInv
<1>1. PayoutTypes
  BY DEF StandingInit, PayoutTypes, Verdicts
<1>2. StripeSaid
  BY DEF StandingInit, StripeSaid
<1>3. OneAccount
  BY DEF StandingInit, OneAccount, Creating
<1>4. QED
  BY <1>1, <1>2, <1>3 DEF PayoutsInv

LEMMA PayoutsStay == ASSUME PayoutsInv, UNCHANGED payouts PROVE PayoutsInv'
  BY DEF PayoutsInv, payouts, PayoutTypes, StripeSaid, OneAccount, Creating, EnabledOnce

-----------------------------------------------------------------------------
LEMMA OnboardKeeps ==
  ASSUME PayoutsInv, NEW r \in Onboardings, Onboard(r)
  PROVE PayoutsInv'
<1> USE DEF PayoutsInv
<1>1. PayoutTypes'
  <2>1. rivals' \in BOOLEAN
    BY DEF Onboard
  <2>2. QED
    BY <2>1 DEF Onboard, PayoutTypes
<1>2. StripeSaid'
  BY DEF Onboard, StripeSaid, EnabledOnce, PayoutTypes
<1>3. OneAccount'
  <2> SUFFICES ASSUME ~rivals' PROVE OneAccount'
    BY DEF OneAccount
  <2>1. ~rivals /\ (account = Nobody => \A q \in Onboardings \ {r} : ~Creating(q))
    BY DEF Onboard
  <2>2. /\ \A q \in Onboardings \ {r} : Creating(q)' <=> Creating(q)
        /\ Creating(r)' <=> account = Nobody
    BY DEF Onboard, Creating, PayoutTypes
  <2>3. QED
    BY <2>1, <2>2 DEF Onboard, OneAccount, EnabledOnce
<1>4. QED
  BY <1>1, <1>2, <1>3

LEMMA CreateAccountKeeps ==
  ASSUME PayoutsInv, NEW r \in Onboardings, CreateAccount(r)
  PROVE PayoutsInv'
<1> USE DEF PayoutsInv
<1>1. PayoutTypes'
  BY DEF CreateAccount, PayoutTypes, Verdicts
<1>2. stripe[r] = "none" /\ \A a \in Onboardings : EnabledOnce(a) => EnabledOnce(a)'
  BY DEF CreateAccount, StripeSaid, EnabledOnce, PayoutTypes
<1>3. \A q \in Onboardings : Creating(q)' => Creating(q)
  BY DEF CreateAccount, Creating, PayoutTypes
<1>4. StripeSaid'
  BY <1>2 DEF CreateAccount, StripeSaid, PayoutTypes, Lookups
<1>5. OneAccount'
  BY <1>2, <1>3 DEF CreateAccount, OneAccount, PayoutTypes
<1>6. QED
  BY <1>1, <1>4, <1>5

LEMMA SaveAccountKeeps ==
  ASSUME PayoutsInv, NEW r \in Onboardings, SaveAccount(r)
  PROVE PayoutsInv'
<1> USE DEF PayoutsInv
<1>1. PayoutTypes'
  BY DEF SaveAccount, PayoutTypes
<1>2. StripeSaid'
  BY DEF SaveAccount, StripeSaid, EnabledOnce, PayoutTypes
<1>3. OneAccount'
  <2>1. Creating(r) /\ \A q \in Onboardings : Creating(q)' <=> q # r /\ Creating(q)
    BY DEF SaveAccount, Creating, PayoutTypes
  <2>2. QED
    BY <2>1, StandingAssumption DEF SaveAccount, OneAccount
<1>4. QED
  BY <1>1, <1>2, <1>3

LEMMA OnboardDiesKeeps ==
  ASSUME PayoutsInv, NEW r \in Onboardings, OnboardDies(r)
  PROVE PayoutsInv'
<1> USE DEF PayoutsInv
<1>1. PayoutTypes'
  BY DEF OnboardDies, PayoutTypes
<1>2. StripeSaid'
  BY DEF OnboardDies, StripeSaid, EnabledOnce, PayoutTypes
<1>3. OneAccount'
  <2>1. \A q \in Onboardings : Creating(q)' => Creating(q)
    BY DEF OnboardDies, Creating, PayoutTypes
  <2>2. QED
    BY <2>1 DEF OnboardDies, OneAccount, EnabledOnce
<1>4. QED
  BY <1>1, <1>2, <1>3

LEMMA StripeDecidesKeeps ==
  ASSUME PayoutsInv, NEW a \in Onboardings, StripeDecides(a)
  PROVE PayoutsInv'
<1> USE DEF PayoutsInv
<1>1. PayoutTypes'
  BY DEF StripeDecides, PayoutTypes, Verdicts
<1>2. EnabledOnce(a)' /\ \A b \in Onboardings : EnabledOnce(b) => EnabledOnce(b)'
  BY DEF StripeDecides, EnabledOnce, PayoutTypes
<1>3. StripeSaid'
  <2>1. \A b \in Onboardings : <<b, "enabled">> \in events' => <<b, "enabled">> \in events \/ b = a
    BY DEF StripeDecides
  <2>2. \A b \in Onboardings \ {a} : stripe'[b] = stripe[b]
    BY DEF StripeDecides, PayoutTypes
  <2>3. onboard[a] \notin {"idle", "noneYet"}
    BY DEF StripeDecides, StripeSaid, PayoutTypes
  <2>4. QED
    BY <1>2, <2>1, <2>2, <2>3 DEF StripeDecides, StripeSaid, PayoutTypes, Lookups
<1>4. OneAccount'
  BY <1>2 DEF StripeDecides, OneAccount, Creating, PayoutTypes
<1>5. QED
  BY <1>1, <1>3, <1>4

LEMMA AccountUpdatedKeeps ==
  ASSUME PayoutsInv, NEW a \in Onboardings, NEW is \in {"enabled", "restricted"},
         AccountUpdated(a, is)
  PROVE PayoutsInv'
<1> USE DEF PayoutsInv
<1>1. enabled' \in BOOLEAN
  BY DEF AccountUpdated, PayoutTypes
<1>2. PayoutTypes'
  BY <1>1 DEF AccountUpdated, PayoutTypes
<1>3. StripeSaid'
  BY DEF AccountUpdated, StripeSaid, EnabledOnce
<1>4. OneAccount'
  <2>1. CASE account = a
    <3>1. enabled' => is = "enabled"
      BY <2>1 DEF AccountUpdated
    <3>2. enabled' => EnabledOnce(a)
      BY <3>1 DEF AccountUpdated, StripeSaid
    <3>3. QED
      BY <2>1, <3>2, StandingAssumption DEF AccountUpdated, OneAccount, Creating, EnabledOnce
  <2>2. CASE account # a
    <3>1. enabled' = enabled
      BY <2>2 DEF AccountUpdated
    <3>2. QED
      BY <3>1 DEF AccountUpdated, OneAccount, Creating, EnabledOnce
  <2>3. QED
    BY <2>1, <2>2
<1>5. QED
  BY <1>2, <1>3, <1>4

LEMMA LookUpKeeps ==
  ASSUME PayoutsInv, NEW k \in Looks, LookUp(k)
  PROVE PayoutsInv'
<1> USE DEF PayoutsInv
<1>1. /\ look' \in [Looks -> Lookups \cup {Nobody}]
      /\ \A j \in Looks \ {k} : look'[j] = look[j]
      /\ look'[k].of = account /\ look'[k].is = Nobody
  BY DEF LookUp, PayoutTypes, Lookups
<1>2. PayoutTypes'
  BY <1>1 DEF LookUp, PayoutTypes
<1>3. StripeSaid'
  BY <1>1 DEF LookUp, StripeSaid, EnabledOnce
<1>4. OneAccount'
  BY <1>1 DEF LookUp, OneAccount, Creating, EnabledOnce
<1>5. QED
  BY <1>2, <1>3, <1>4

LEMMA RetrieveKeeps ==
  ASSUME PayoutsInv, NEW k \in Looks, Retrieve(k)
  PROVE PayoutsInv'
<1> USE DEF PayoutsInv
<1>1. look[k] \in Lookups /\ stripe[look[k].of] \in Verdicts
  BY DEF Retrieve, PayoutTypes, Lookups
<1>2. /\ look' \in [Looks -> Lookups \cup {Nobody}]
      /\ \A j \in Looks \ {k} : look'[j] = look[j]
      /\ look'[k].of = look[k].of /\ look'[k].is = stripe[look[k].of]
  BY <1>1 DEF Retrieve, PayoutTypes, Lookups
<1>3. PayoutTypes'
  BY <1>2 DEF Retrieve, PayoutTypes
<1>4. StripeSaid'
  <2>1. look'[k].is = "enabled" => EnabledOnce(look'[k].of)
    BY <1>2 DEF EnabledOnce
  <2>2. QED
    BY <1>2, <2>1 DEF Retrieve, StripeSaid, EnabledOnce
<1>5. OneAccount'
  BY <1>2 DEF Retrieve, OneAccount, Creating, EnabledOnce
<1>6. QED
  BY <1>3, <1>4, <1>5

LEMMA SaveLookKeeps ==
  ASSUME PayoutsInv, NEW k \in Looks, SaveLook(k)
  PROVE PayoutsInv'
<1> USE DEF PayoutsInv
<1>1. enabled' \in BOOLEAN /\ (enabled' => look[k].is = "enabled")
  BY DEF SaveLook
<1>2. /\ look' \in [Looks -> Lookups \cup {Nobody}]
      /\ \A j \in Looks : look'[j] = look[j] \/ look'[j] = Nobody
  BY DEF SaveLook, PayoutTypes
<1>3. PayoutTypes'
  BY <1>1, <1>2 DEF SaveLook, PayoutTypes
<1>4. StripeSaid'
  BY <1>2 DEF SaveLook, StripeSaid, EnabledOnce
<1>5. OneAccount'
  <2>1. enabled' => EnabledOnce(look[k].of)
    BY <1>1 DEF SaveLook, StripeSaid
  <2>2. QED
    BY <1>2, <2>1 DEF SaveLook, OneAccount, Creating, EnabledOnce
<1>6. QED
  BY <1>3, <1>4, <1>5

LEMMA PayoutsStep ==
  ASSUME PayoutsInv, [StandingNext]_standingVars
  PROVE PayoutsInv'
<1>1. CASE UNCHANGED standingVars
  BY <1>1, PayoutsStay DEF standingVars
<1>2. ASSUME NEW o \in Orders, MoveSteps(o) PROVE PayoutsInv'
  <2>1. UNCHANGED payouts
    BY <1>2 DEF MoveSteps, Move, CountStarts, CountWrites, CommitMove, MoveAnswered, MoveFails
  <2>2. QED
    BY <2>1, PayoutsStay
<1>3. ASSUME NEW v \in Reviews, ReviewSteps(v) PROVE PayoutsInv'
  <2>1. UNCHANGED payouts
    BY <1>3 DEF ReviewSteps, ReviewAllowed, PostReview, RateStarts, RateWrites, ReviewDies
  <2>2. QED
    BY <2>1, PayoutsStay
<1>4. ASSUME NEW r \in Onboardings, OnboardSteps(r) PROVE PayoutsInv'
  BY <1>4, OnboardKeeps, CreateAccountKeeps, SaveAccountKeeps, OnboardDiesKeeps,
     StripeDecidesKeeps, AccountUpdatedKeeps DEF OnboardSteps
<1>5. ASSUME NEW k \in Looks, LookUp(k) \/ Retrieve(k) \/ SaveLook(k) PROVE PayoutsInv'
  BY <1>5, LookUpKeeps, RetrieveKeeps, SaveLookKeeps
<1>6. QED
  BY <1>1, <1>2, <1>3, <1>4, <1>5 DEF StandingNext

(* PayoutsInv holds in every state of onboarding, status and the webhook.    *)
THEOREM PayoutsCorrect == StandingSpec => []PayoutsInv
  BY PayoutsStart, PayoutsStep, PTL DEF StandingSpec

LEMMA PayoutsImply == ASSUME PayoutsInv PROVE PayoutsReachSeller
  BY DEF PayoutsInv, OneAccount, PayoutsReachSeller, PayoutReady, EnabledOnce, PayoutTypes

(* isPayoutReady is true only of an account that Stripe enabled, or after    *)
(* two requests have been creating one.                                      *)
THEOREM PayoutsArrive == StandingSpec => []PayoutsReachSeller
  BY PayoutsCorrect, PayoutsImply, PTL

-----------------------------------------------------------------------------
(* Deals.                                                                    *)

RowSets == UNION {[S -> Tallies] : S \in SUBSET Users}
MoveRecords == [at : {"rest", "open", "resolved"}, to : Statuses \cup {"none"},
                left : Seq(Users), seen : Tallies \cup {Nobody}, rows : RowSets,
                late : SUBSET Users]
ReviewRecords == [at : {"idle", "allowed", "posted", "rating"}, seen : SUBSET Reviews,
                  late : BOOLEAN]

DealTypes ==
  /\ status \in [Orders -> Statuses] /\ posted \subseteq Reviews
  /\ counters \in [Users -> Tallies] /\ ratings \in [Users -> SUBSET Reviews]
  /\ move \in [Orders -> MoveRecords] /\ review \in [Reviews -> ReviewRecords]

(* How far the counts of a move are, and what its transaction has written.   *)
Parties(o) == {SellerOf[o], BuyerOf[o]}
Counted(o, m) ==
  \/ m.left = <<SellerOf[o], BuyerOf[o]>> /\ DOMAIN m.rows = {}
  \/ m.left = <<BuyerOf[o]>> /\ DOMAIN m.rows = {SellerOf[o]}
  \/ m.left = <<>> /\ DOMAIN m.rows = Parties(o)

MoveCounts(o, m) ==
  /\ m.at = "rest" => m = AtRest
  /\ m.at = "open" =>
       /\ m.to \in ValidTransitions[status[o]]
       /\ IF TouchesConcluded(status[o], m.to) THEN Counted(o, m)
          ELSE m.left = <<>> /\ DOMAIN m.rows = {}
  /\ m.at = "resolved" =>
       /\ m.left \in {<<SellerOf[o], BuyerOf[o]>>, <<BuyerOf[o]>>, <<>>}
       /\ DOMAIN m.rows = {}
  /\ m.seen # Nobody => m.left # <<>>

CountsFollow == \A o \in Orders : MoveCounts(o, move[o])

(* Nobody else writes a row that a transaction holds; what was seen and not  *)
(* yet overtaken, or written in a transaction, is what it will commit.       *)
HeldByOne == \A o, p \in Orders, u \in Users : Holds(o, u) /\ Holds(p, u) => o = p

SeenIsTrue(o) ==
  /\ move[o].seen # Nobody /\ Head(move[o].left) \notin move[o].late =>
       move[o].seen = Tally(Head(move[o].left), Visible(o))
  /\ \A u \in Users : Holds(o, u) /\ u \notin move[o].late =>
       move[o].rows[u] = Tally(u, Visible(o))

CountersTrue ==
  \A u \in Users : counters[u] = Tally(u, status) \/ <<u, "counters">> \in overtaken

CountsInv == CountsFollow /\ HeldByOne /\ (\A o \in Orders : SeenIsTrue(o)) /\ CountersTrue

Recounting(v) == review[v].at \in {"posted", "rating"}

RatingsInv ==
  /\ \A v \in Reviews : Recounting(v) => v \in posted
  /\ \A v \in Reviews : review[v].at = "rating" /\ ~review[v].late =>
       review[v].seen = About(Reviewee[v])
  /\ \A u \in Users : \/ ratings[u] = About(u) \/ <<u, "ratings">> \in overtaken
                      \/ \E v \in posted : Reviewee[v] = u /\ Recounting(v)

DealsInv == DealTypes /\ CountsInv /\ RatingsInv

-----------------------------------------------------------------------------
(* Lemmas about the operators.                                               *)

LEMMA PartiesAreUsers ==
  ASSUME NEW o \in Orders
  PROVE SellerOf[o] \in Users /\ BuyerOf[o] \in Users /\ SellerOf[o] # BuyerOf[o]
  BY StandingAssumption

LEMMA TallyType == ASSUME NEW u, NEW f PROVE Tally(u, f) \in Tallies
  BY DEF Tally, Tallies

(* A count looks at the orders of its user only.                             *)
LEMMA TallySame ==
  ASSUME NEW u, NEW f, NEW g,
         \A p \in Orders : u \in Parties(p) => (f[p] \in Concluded <=> g[p] \in Concluded)
  PROVE Tally(u, f) = Tally(u, g)
<1>1. /\ {o \in Orders : SellerOf[o] = u /\ f[o] \in Concluded}
         = {o \in Orders : SellerOf[o] = u /\ g[o] \in Concluded}
      /\ {o \in Orders : BuyerOf[o] = u /\ f[o] \in Concluded}
         = {o \in Orders : BuyerOf[o] = u /\ g[o] \in Concluded}
  BY DEF Parties
<1>2. QED
  BY <1>1 DEF Tally

LEMMA QueueHeads ==
  ASSUME NEW a, NEW b
  PROVE /\ Head(<<a, b>>) = a /\ Tail(<<a, b>>) = <<b>> /\ <<a, b>> # <<>>
        /\ Head(<<b>>) = b /\ Tail(<<b>>) = <<>> /\ <<b>> # <<>>
  OBVIOUS

LEMMA NoRows == <<>> \in RowSets /\ DOMAIN <<>> = {}
<1>1. DOMAIN <<>> = {}
  OBVIOUS
<1>2. <<>> \in [{} -> Tallies]
  OBVIOUS
<1>3. QED
  BY <1>1, <1>2 DEF RowSets

LEMMA RowSetIs ==
  ASSUME NEW rows \in RowSets
  PROVE DOMAIN rows \subseteq Users /\ \A u \in DOMAIN rows : rows[u] \in Tallies
  BY DEF RowSets

LEMMA WrittenIs ==
  ASSUME NEW rows \in RowSets, NEW u \in Users, NEW s \in Tallies
  PROVE /\ Written(rows, u, s) \in RowSets
        /\ DOMAIN Written(rows, u, s) = DOMAIN rows \cup {u}
        /\ Written(rows, u, s)[u] = s
        /\ \A w \in DOMAIN rows \ {u} : Written(rows, u, s)[w] = rows[w]
<1>1. DOMAIN rows \cup {u} \in SUBSET Users
  BY RowSetIs
<1>2. Written(rows, u, s) \in [DOMAIN rows \cup {u} -> Tallies]
  BY RowSetIs DEF Written
<1>3. QED
  BY <1>1, <1>2 DEF RowSets, Written

LEMMA AtRestIs ==
  /\ AtRest \in MoveRecords
  /\ AtRest.at = "rest" /\ AtRest.left = <<>> /\ AtRest.seen = Nobody
  /\ AtRest.rows = <<>> /\ AtRest.late = {}
<1>1. <<>> \in Seq(Users)
  OBVIOUS
<1>2. QED
  BY <1>1, NoRows DEF AtRest, MoveRecords

-----------------------------------------------------------------------------
LEMMA DealsStart == ASSUME StandingInit PROVE DealsInv
<1>1. DealTypes
  <2>1. NoSeen \in Tallies
    BY DEF NoSeen, Tallies
  <2>2. Unasked \in ReviewRecords
    BY DEF Unasked, ReviewRecords
  <2>3. QED
    BY <2>1, <2>2, AtRestIs DEF StandingInit, DealTypes, Statuses
<1>2. CountsFollow /\ HeldByOne
  BY AtRestIs DEF StandingInit, CountsFollow, MoveCounts, HeldByOne, Holds
<1>3. \A o \in Orders : SeenIsTrue(o)
  BY AtRestIs DEF StandingInit, SeenIsTrue, Holds
<1>4. CountersTrue
  <2>1. ASSUME NEW u \in Users PROVE Tally(u, status) = NoSeen
    BY DEF StandingInit, Tally, NoSeen, Concluded
  <2>2. QED
    BY <2>1 DEF StandingInit, CountersTrue
<1>5. RatingsInv
  BY DEF StandingInit, RatingsInv, Recounting, Unasked, About
<1>6. QED
  BY <1>1, <1>2, <1>3, <1>4, <1>5 DEF DealsInv, CountsInv

LEMMA DealsStay == ASSUME DealsInv, UNCHANGED deals PROVE DealsInv'
<1>1. DealTypes'
  BY DEF DealsInv, deals, DealTypes
<1>2. CountsInv'
  BY DEF DealsInv, deals, CountsInv, CountsFollow, MoveCounts, Counted, Parties, HeldByOne, Holds,
         SeenIsTrue, Visible, CountersTrue, Tally
<1>3. RatingsInv'
  BY DEF DealsInv, deals, RatingsInv, Recounting, About
<1>4. QED
  BY <1>1, <1>2, <1>3 DEF DealsInv

-----------------------------------------------------------------------------
(* The steps of an order that commit nothing: one move goes on, the others   *)
(* stay as they are.                                                         *)
LEMMA OneOrderMoves ==
  ASSUME CountsInv, NEW o \in Orders, UNCHANGED status,
         \A p \in Orders \ {o} : move'[p] = move[p],
         MoveCounts(o, move[o])', SeenIsTrue(o)', CountersTrue',
         \A u \in Users : Holds(o, u)' => Holds(o, u) \/ Free(u, o)
  PROVE CountsInv'
<1> USE DEF CountsInv
<1>1. CountsFollow'
  <2>1. ASSUME NEW p \in Orders \ {o} PROVE MoveCounts(p, move[p])'
    BY <2>1 DEF CountsFollow, MoveCounts, Counted
  <2>2. QED
    BY <2>1 DEF CountsFollow
<1>2. ASSUME NEW p \in Orders \ {o}, NEW u \in Users PROVE Holds(p, u)' <=> Holds(p, u)
  BY DEF Holds
<1>3. HeldByOne'
  <2>1. ASSUME NEW p \in Orders \ {o}, NEW u \in Users, Holds(p, u)', Holds(o, u)' PROVE FALSE
    BY <1>2, <2>1 DEF HeldByOne, Free
  <2>2. QED
    BY <1>2, <2>1 DEF HeldByOne
<1>4. ASSUME NEW p \in Orders \ {o} PROVE SeenIsTrue(p)'
  BY <1>2 DEF SeenIsTrue, Visible, Holds, Tally
<1>5. QED
  BY <1>1, <1>3, <1>4

LEMMA RatingsStay ==
  ASSUME RatingsInv, UNCHANGED <<posted, ratings, review>>,
         \A u \in Users : <<u, "ratings">> \in overtaken => <<u, "ratings">> \in overtaken'
  PROVE RatingsInv'
  BY DEF RatingsInv, Recounting, About

(* An order that moves leaves reviews and their marks as they are.           *)
LEMMA MarkedCounters ==
  ASSUME NEW written, NEW late, Marked("counters", written, late), NEW u
  PROVE /\ <<u, "ratings">> \in overtaken => <<u, "ratings">> \in overtaken'
        /\ u \notin written => (<<u, "counters">> \in overtaken => <<u, "counters">> \in overtaken')
        /\ u \in written /\ u \in late => <<u, "counters">> \in overtaken'
  BY DEF Marked

LEMMA CountersStay ==
  ASSUME CountersTrue, UNCHANGED <<status, counters>>,
         \A u \in Users : <<u, "counters">> \in overtaken => <<u, "counters">> \in overtaken'
  PROVE CountersTrue'
  BY DEF CountersTrue, Tally

-----------------------------------------------------------------------------
LEMMA MoveKeeps ==
  ASSUME DealsInv, NEW o \in Orders, NEW to \in Statuses, Move(o, to)
  PROVE DealsInv'
<1> USE DEF DealsInv
<1> DEFINE queue == IF TouchesConcluded(status[o], to) THEN <<SellerOf[o], BuyerOf[o]>> ELSE <<>>
<1>1. queue \in Seq(Users)
  BY PartiesAreUsers
<1>2. /\ move'[o] = [AtRest EXCEPT !.at = "open", !.to = to, !.left = queue]
      /\ \A p \in Orders \ {o} : move'[p] = move[p]
  BY DEF Move, DealTypes
<1>3. /\ move'[o] \in MoveRecords /\ move'[o].at = "open" /\ move'[o].to = to
      /\ move'[o].left = queue /\ move'[o].seen = Nobody /\ move'[o].rows = <<>>
  <2> HIDE DEF queue
  <2>1. QED
    BY <1>1, <1>2, AtRestIs DEF MoveRecords
<1>4. DealTypes'
  BY <1>2, <1>3 DEF Move, DealTypes
<1>5. MoveCounts(o, move[o])'
  BY <1>3, NoRows DEF Move, MoveCounts, Counted
<1>6. ASSUME NEW u \in Users PROVE ~Holds(o, u)'
  BY <1>3, NoRows DEF Holds
<1>7. SeenIsTrue(o)'
  BY <1>3, <1>6 DEF SeenIsTrue
<1>8. CountersTrue'
  BY CountersStay DEF Move, CountsInv
<1>9. CountsInv'
  BY <1>2, <1>5, <1>6, <1>7, <1>8, OneOrderMoves DEF Move
<1>10. RatingsInv'
  BY RatingsStay DEF Move
<1>11. QED
  BY <1>4, <1>9, <1>10

LEMMA CountStartsKeeps ==
  ASSUME DealsInv, NEW o \in Orders, CountStarts(o)
  PROVE DealsInv'
<1> USE DEF DealsInv
<1> DEFINE s == Tally(Head(move[o].left), Visible(o))
<1>1. s \in Tallies
  BY TallyType
<1>2. /\ move'[o] \in MoveRecords /\ move'[o].at = move[o].at /\ move'[o].to = move[o].to
      /\ move'[o].left = move[o].left /\ move'[o].seen = s /\ move'[o].rows = move[o].rows
      /\ move'[o].late = move[o].late
      /\ \A p \in Orders \ {o} : move'[p] = move[p]
      /\ move' \in [Orders -> MoveRecords]
  <2> HIDE DEF s
  <2>1. move' = [move EXCEPT ![o].seen = s]
    BY DEF CountStarts, s
  <2>2. QED
    BY <1>1, <2>1 DEF DealTypes, MoveRecords
<1>3. DealTypes'
  BY <1>2 DEF CountStarts, DealTypes
<1>4. move[o].at # "rest" /\ move[o].left # <<>>
  BY AtRestIs DEF CountStarts, CountsInv, CountsFollow, MoveCounts, DealTypes
<1>5. MoveCounts(o, move[o])'
  <2>1. MoveCounts(o, move[o])
    BY DEF CountsInv, CountsFollow
  <2> HIDE DEF s
  <2>2. QED
    BY <1>2, <1>4, <2>1 DEF CountStarts, MoveCounts, Counted
<1>6. \A u \in Users : Holds(o, u)' <=> Holds(o, u)
  BY <1>2 DEF Holds
<1>7. \A u : Tally(u, Visible(o))' = Tally(u, Visible(o))
  BY <1>2 DEF CountStarts, Visible, Tally
<1>8. SeenIsTrue(o)'
  <2>1. SeenIsTrue(o)
    BY DEF CountsInv
  <2>2. ASSUME NEW u \in Users, Holds(o, u)', u \notin move'[o].late
        PROVE  move'[o].rows[u] = Tally(u, Visible(o))'
    BY <1>2, <1>6, <1>7, <2>1, <2>2 DEF SeenIsTrue
  <2>3. move'[o].seen = Tally(Head(move[o].left), Visible(o))'
    BY <1>2, <1>7
  <2>4. QED
    BY <1>2, <2>2, <2>3 DEF SeenIsTrue
<1>9. CountersTrue'
  BY CountersStay DEF CountStarts, CountsInv
<1>10. CountsInv'
  BY <1>2, <1>5, <1>6, <1>8, <1>9, OneOrderMoves DEF CountStarts
<1>11. RatingsInv'
  BY RatingsStay DEF CountStarts
<1>12. QED
  BY <1>3, <1>10, <1>11

LEMMA RestKeeps ==
  ASSUME DealsInv, NEW o \in Orders, MoveAnswered(o) \/ MoveFails(o)
  PROVE DealsInv'
<1> USE DEF DealsInv
<1>1. /\ move'[o] = AtRest /\ \A p \in Orders \ {o} : move'[p] = move[p]
      /\ move' \in [Orders -> MoveRecords]
      /\ UNCHANGED <<status, posted, counters, ratings, review, overtaken>>
  BY AtRestIs DEF MoveAnswered, MoveFails, DealTypes
<1>2. DealTypes'
  BY <1>1 DEF DealTypes
<1>3. MoveCounts(o, move[o])'
  BY <1>1, AtRestIs DEF MoveCounts
<1>4. ASSUME NEW u \in Users PROVE ~Holds(o, u)'
  BY <1>1, AtRestIs DEF Holds
<1>5. SeenIsTrue(o)'
  BY <1>1, <1>4, AtRestIs DEF SeenIsTrue
<1>6. CountersTrue'
  BY <1>1, CountersStay DEF CountsInv
<1>7. CountsInv'
  BY <1>1, <1>3, <1>4, <1>5, <1>6, OneOrderMoves
<1>8. RatingsInv'
  BY <1>1, RatingsStay
<1>9. QED
  BY <1>2, <1>7, <1>8

(* The row written by a move: in its transaction, or at once after it.       *)
LEMMA CountWritesKeeps ==
  ASSUME DealsInv, NEW o \in Orders, CountWrites(o)
  PROVE DealsInv'
<1> USE DEF DealsInv
<1> DEFINE u == Head(move[o].left)
           s == move[o].seen
           rows == IF move[o].at = "open" THEN Written(move[o].rows, u, s) ELSE move[o].rows
<1>1. /\ s \in Tallies /\ move[o].rows \in RowSets /\ move[o].late \subseteq Users
      /\ move[o].at \in {"rest", "open", "resolved"}
  BY DEF CountWrites, DealTypes, MoveRecords
<1>2. MoveCounts(o, move[o]) /\ move[o].at # "rest" /\ move[o].left # <<>>
  BY AtRestIs DEF CountWrites, CountsInv, CountsFollow, MoveCounts
<1>3. /\ move[o].left \in {<<SellerOf[o], BuyerOf[o]>>, <<BuyerOf[o]>>}
      /\ move[o].at = "open" => \/ u = SellerOf[o] /\ DOMAIN move[o].rows = {}
                                \/ u = BuyerOf[o] /\ DOMAIN move[o].rows = {SellerOf[o]}
      /\ u \in Users /\ Tail(move[o].left) \in Seq(Users)
  <2>1. /\ move[o].left \in {<<SellerOf[o], BuyerOf[o]>>, <<BuyerOf[o]>>}
        /\ move[o].at = "open" => \/ move[o].left = <<SellerOf[o], BuyerOf[o]>> /\ DOMAIN move[o].rows = {}
                                  \/ move[o].left = <<BuyerOf[o]>> /\ DOMAIN move[o].rows = {SellerOf[o]}
    BY <1>1, <1>2 DEF MoveCounts, Counted
  <2>2. CASE move[o].left = <<SellerOf[o], BuyerOf[o]>>
    <3>1. u = SellerOf[o] /\ Tail(move[o].left) = <<BuyerOf[o]>>
      BY <2>2
    <3>2. move[o].left # <<BuyerOf[o]>>
      BY <2>2
    <3>3. <<BuyerOf[o]>> \in Seq(Users) /\ SellerOf[o] \in Users
      BY PartiesAreUsers
    <3>4. QED
      BY <2>1, <3>1, <3>2, <3>3
  <2>3. CASE move[o].left = <<BuyerOf[o]>>
    <3>1. u = BuyerOf[o] /\ Tail(move[o].left) = <<>>
      BY <2>3
    <3>2. move[o].left # <<SellerOf[o], BuyerOf[o]>>
      BY <2>3
    <3>3. <<>> \in Seq(Users) /\ BuyerOf[o] \in Users
      BY PartiesAreUsers
    <3>4. QED
      BY <2>1, <3>1, <3>2, <3>3
  <2>4. QED
    BY <2>1, <2>2, <2>3
<1>w. /\ Written(move[o].rows, u, s) \in RowSets
      /\ DOMAIN Written(move[o].rows, u, s) = DOMAIN move[o].rows \cup {u}
      /\ Written(move[o].rows, u, s)[u] = s
      /\ \A w \in DOMAIN move[o].rows \ {u} : Written(move[o].rows, u, s)[w] = move[o].rows[w]
  <2>1. u \in Users /\ s \in Tallies /\ move[o].rows \in RowSets
    BY <1>1, <1>3
  <2> HIDE DEF u, s
  <2>2. QED
    BY <2>1, WrittenIs
<1>4. rows \in RowSets
  BY <1>1, <1>w
<1>5. /\ move' \in [Orders -> MoveRecords]
      /\ \A p \in Orders \ {o} : move'[p] = move[p]
      /\ move'[o].at = move[o].at /\ move'[o].to = move[o].to
      /\ move'[o].left = Tail(move[o].left) /\ move'[o].seen = Nobody
      /\ move'[o].rows = rows /\ move'[o].late = move[o].late
  <2>1. move' = [move EXCEPT ![o].left = Tail(move[o].left), ![o].seen = Nobody, ![o].rows = rows]
    BY DEF CountWrites, DealTypes, MoveRecords
  <2> HIDE DEF rows, u, s
  <2>2. QED
    BY <1>3, <1>4, <2>1 DEF DealTypes, MoveRecords
<1>6. UNCHANGED <<status, posted, ratings, review>>
  BY DEF CountWrites
<1>7. counters' \in [Users -> Tallies]
  BY <1>1, <1>3 DEF CountWrites, DealTypes
<1>8. DealTypes'
  BY <1>5, <1>6, <1>7 DEF DealTypes
<1>9. MoveCounts(o, move[o])'
  <2>1. CASE move[o].at = "open"
    <3>1. TouchesConcluded(status[o], move[o].to) /\ Counted(o, move[o])
      BY <1>2, <2>1 DEF MoveCounts
    <3>2. DOMAIN rows = DOMAIN move[o].rows \cup {u}
      BY <1>w, <2>1
    <3>3. Counted(o, move[o])'
      <4>1. CASE move[o].left = <<SellerOf[o], BuyerOf[o]>>
        BY <1>5, <3>1, <3>2, <4>1, QueueHeads, PartiesAreUsers DEF Counted
      <4>2. CASE move[o].left = <<BuyerOf[o]>>
        BY <1>5, <3>1, <3>2, <4>2, QueueHeads, PartiesAreUsers DEF Counted, Parties
      <4>3. QED
        BY <1>3, <4>1, <4>2
    <3>4. QED
      BY <1>2, <1>5, <1>6, <2>1, <3>1, <3>3 DEF MoveCounts
  <2>2. CASE move[o].at = "resolved"
    <3>1. rows = move[o].rows
      BY <2>2
    <3>2. Tail(move[o].left) \in {<<BuyerOf[o]>>, <<>>}
      <4>1. CASE move[o].left = <<SellerOf[o], BuyerOf[o]>>
        BY <4>1
      <4>2. CASE move[o].left = <<BuyerOf[o]>>
        BY <4>2
      <4>3. QED
        BY <1>3, <4>1, <4>2
    <3>3. QED
      BY <1>2, <1>5, <2>2, <3>1, <3>2 DEF MoveCounts
  <2>3. QED
    BY <1>1, <1>2, <2>1, <2>2
<1>10. \A w \in Users : Holds(o, w)' => Holds(o, w) \/ Free(w, o)
  <2>1. ASSUME NEW w \in Users, Holds(o, w)' PROVE Holds(o, w) \/ w = u
    BY <1>1, <1>5, <1>w, <2>1 DEF Holds
  <2>2. Free(u, o)
    BY DEF CountWrites
  <2>3. QED
    BY <2>1, <2>2
<1>11. \A w : Tally(w, Visible(o))' = Tally(w, Visible(o))
  BY <1>5, <1>6 DEF Visible, Tally
<1>12. u \notin move[o].late => s = Tally(u, Visible(o))
  BY DEF CountWrites, CountsInv, SeenIsTrue
<1>13. SeenIsTrue(o)'
  <2>1. ASSUME NEW w \in Users, Holds(o, w)', w \notin move'[o].late
        PROVE  move'[o].rows[w] = Tally(w, Visible(o))'
    <3>1. move[o].at = "open"
      BY <1>5, <2>1 DEF Holds
    <3>2. CASE w = u
      BY <1>5, <1>11, <1>12, <1>w, <2>1, <3>1, <3>2
    <3>3. CASE w # u
      <4>1. w \in DOMAIN move[o].rows /\ rows[w] = move[o].rows[w]
        BY <1>5, <1>w, <2>1, <3>1, <3>3 DEF Holds
      <4>2. QED
        BY <1>5, <1>11, <2>1, <3>1, <4>1 DEF CountsInv, SeenIsTrue, Holds
    <3>4. QED
      BY <3>2, <3>3
  <2>2. QED
    BY <1>5, <2>1 DEF SeenIsTrue
<1>14. CountersTrue'
  <2>1. CASE move[o].at = "open"
    <3>1. Marked("counters", {}, move[o].late) /\ counters' = counters
      BY <2>1 DEF CountWrites
    <3>2. QED
      BY <1>6, <3>1, MarkedCounters, CountersStay DEF CountsInv
  <2>2. CASE move[o].at = "resolved"
    <3>1. Marked("counters", {u}, move[o].late) /\ counters' = [counters EXCEPT ![u] = s]
      BY <2>2 DEF CountWrites
    <3>2. u \notin move[o].late => s = Tally(u, status)
      BY <1>12, <2>2 DEF Visible
    <3>3. ASSUME NEW w \in Users
          PROVE (counters[w] = Tally(w, status))' \/ <<w, "counters">> \in overtaken'
      <4>1. Tally(w, status)' = Tally(w, status)
        BY <1>6 DEF Tally
      <4>2. CASE w = u
        <5>1. counters'[u] = s
          BY <1>3, <3>1 DEF DealTypes
        <5>2. QED
          BY <3>1, <3>2, <4>1, <4>2, <5>1, MarkedCounters
      <4>3. CASE w # u
        <5>1. counters'[w] = counters[w]
          BY <3>1, <4>3 DEF DealTypes
        <5>2. <<w, "counters">> \in overtaken => <<w, "counters">> \in overtaken'
          BY <3>1, <4>3, MarkedCounters
        <5>3. QED
          BY <4>1, <5>1, <5>2 DEF CountsInv, CountersTrue
      <4>4. QED
        BY <4>2, <4>3
    <3>4. QED
      BY <3>3 DEF CountersTrue
  <2>3. QED
    BY <1>1, <1>2, <2>1, <2>2
<1>15. CountsInv'
  BY <1>5, <1>6, <1>9, <1>10, <1>13, <1>14, OneOrderMoves
<1>16. RatingsInv'
  <2>1. \A w \in Users : <<w, "ratings">> \in overtaken => <<w, "ratings">> \in overtaken'
    BY MarkedCounters DEF CountWrites
  <2>2. QED
    BY <1>6, <2>1, RatingsStay
<1>17. QED
  BY <1>8, <1>15, <1>16

(* What a commit does to the moves of the other orders.                      *)
LEMMA OvertakesIs ==
  ASSUME DealsInv, NEW o \in Orders, NEW p \in Orders
  PROVE LET m == move[p]
            n == Overtakes(o, p) IN
        /\ n \in MoveRecords /\ n.at = m.at /\ n.to = m.to /\ n.left = m.left
        /\ n.seen = m.seen /\ n.rows = m.rows /\ m.late \subseteq n.late
        /\ m.seen # Nobody /\ Head(m.left) \in DOMAIN move[o].rows => Head(m.left) \in n.late
<1> USE DEF DealsInv
<1>1. move[p] \in MoveRecords
  BY DEF DealTypes
<1>2. CASE move[p].seen # Nobody /\ Head(move[p].left) \in DOMAIN move[o].rows
  <2>1. DOMAIN move[o].rows \subseteq Users
    BY RowSetIs DEF DealTypes, MoveRecords
  <2>2. move[p].late \cup {Head(move[p].left)} \subseteq Users
    BY <1>1, <1>2, <2>1 DEF MoveRecords
  <2>3. PICK late \in SUBSET Users : late = move[p].late \cup {Head(move[p].left)}
    BY <2>2
  <2>4. Overtakes(o, p) = [move[p] EXCEPT !.late = late]
    BY <1>1, <1>2, <2>3 DEF Overtakes, MoveRecords
  <2>5. QED
    BY <1>1, <2>3, <2>4 DEF MoveRecords
<1>3. CASE ~(move[p].seen # Nobody /\ Head(move[p].left) \in DOMAIN move[o].rows)
  BY <1>1, <1>3 DEF Overtakes
<1>4. QED
  BY <1>2, <1>3

LEMMA CommitMoves ==
  ASSUME DealsInv, NEW o \in Orders, CommitMove(o)
  PROVE /\ move' \in [Orders -> MoveRecords]
        /\ \A p \in Orders \ {o} : move'[p] = Overtakes(o, p)
        /\ move'[o].at # "open" /\ move'[o].seen = Nobody
        /\ MoveCounts(o, move[o])'
<1> USE DEF DealsInv
<1> DEFINE queue == <<SellerOf[o], BuyerOf[o]>>
           again == [AtRest EXCEPT !.at = "resolved", !.left = queue]
<1>1. queue \in Seq(Users)
  BY PartiesAreUsers
<1>2. /\ again \in MoveRecords /\ again.at = "resolved" /\ again.left = queue
      /\ again.seen = Nobody /\ again.rows = <<>>
  <2> HIDE DEF queue
  <2>1. QED
    BY <1>1, AtRestIs DEF MoveRecords
<1>3. /\ move'[o] \in {again, AtRest}
      /\ \A p \in Orders \ {o} : move'[p] = Overtakes(o, p)
      /\ move' = [p \in Orders |-> move'[p]]
  BY DEF CommitMove
<1>4. move' \in [Orders -> MoveRecords]
  <2> HIDE DEF again
  <2>1. ASSUME NEW p \in Orders PROVE move'[p] \in MoveRecords
    BY <1>2, <1>3, AtRestIs, OvertakesIs
  <2>2. QED
    BY <1>3, <2>1
<1>5. CASE move'[o] = again
  <2> HIDE DEF again
  <2>1. MoveCounts(o, move[o])'
    BY <1>2, <1>5, NoRows DEF MoveCounts
  <2>2. QED
    BY <1>2, <1>3, <1>4, <1>5, <2>1
<1>6. CASE move'[o] = AtRest
  <2> HIDE DEF again
  <2>1. MoveCounts(o, move[o])'
    BY <1>6, AtRestIs DEF MoveCounts
  <2>2. QED
    BY <1>3, <1>4, <1>6, <2>1, AtRestIs
<1>7. QED
  BY <1>3, <1>5, <1>6

(* An order that is committed changes the counts of those whose rows its     *)
(* transaction wrote, and of nobody else.                                    *)
LEMMA CommitTallies ==
  ASSUME DealsInv, NEW o \in Orders, CommitMove(o)
  PROVE /\ status' \in [Orders -> Statuses] /\ \A p \in Orders \ {o} : status'[p] = status[p]
        /\ Visible(o) = status'
        /\ \A u \in Users \ DOMAIN move[o].rows : Tally(u, status') = Tally(u, status)
        /\ \A p \in Orders \ {o} : \A u \in Users \ DOMAIN move[o].rows :
             Tally(u, Visible(p)') = Tally(u, Visible(p))
<1> USE DEF DealsInv
<1>1. move[o].at = "open" /\ move[o].left = <<>> /\ move[o].to \in ValidTransitions[status[o]]
  BY DEF CommitMove, CountsInv, CountsFollow, MoveCounts
<1>2. move[o].to \in Statuses
  BY <1>1 DEF DealTypes, ValidTransitions, Statuses
<1>3. status' = [status EXCEPT ![o] = move[o].to] /\ status' \in [Orders -> Statuses]
  BY <1>2 DEF CommitMove, DealTypes
<1>4. status'[o] = move[o].to /\ \A p \in Orders \ {o} : status'[p] = status[p]
  BY <1>3 DEF DealTypes
<1>5. Visible(o) = status'
  BY <1>1, <1>3 DEF Visible
<1>6. ASSUME NEW u \in Users \ DOMAIN move[o].rows, u \in Parties(o)
      PROVE  status'[o] \in Concluded <=> status[o] \in Concluded
  <2>1. CASE TouchesConcluded(status[o], move[o].to)
    <3>1. Counted(o, move[o])
      BY <1>1, <2>1 DEF CountsInv, CountsFollow, MoveCounts
    <3>2. DOMAIN move[o].rows = Parties(o)
      BY <1>1, <3>1, QueueHeads DEF Counted
    <3>3. QED
      BY <1>6, <3>2
  <2>2. CASE ~TouchesConcluded(status[o], move[o].to)
    BY <1>4, <2>2 DEF TouchesConcluded
  <2>3. QED
    BY <2>1, <2>2
<1>7. ASSUME NEW u \in Users \ DOMAIN move[o].rows PROVE Tally(u, status') = Tally(u, status)
  BY <1>4, <1>6, TallySame
<1>8. ASSUME NEW p \in Orders \ {o}, NEW u \in Users \ DOMAIN move[o].rows
      PROVE  Tally(u, Visible(p)') = Tally(u, Visible(p))
  <2>1. move'[p].at = move[p].at /\ move'[p].to = move[p].to
    BY CommitMoves, OvertakesIs
  <2>2. \A q \in Orders \ {o} : Visible(p)'[q] = Visible(p)[q]
    BY <1>3, <1>4, <2>1 DEF Visible, DealTypes
  <2>3. Visible(p)'[o] = status'[o] /\ Visible(p)[o] = status[o]
    BY <1>3, <2>1 DEF Visible, DealTypes
  <2>4. \A q \in Orders : u \in Parties(q) => (Visible(p)'[q] \in Concluded <=> Visible(p)[q] \in Concluded)
    BY <1>6, <2>2, <2>3
  <2>5. QED
    BY <2>4, TallySame
<1>9. QED
  BY <1>3, <1>4, <1>5, <1>7, <1>8

LEMMA CommitMoveKeeps ==
  ASSUME DealsInv, NEW o \in Orders, CommitMove(o)
  PROVE DealsInv'
<1> USE DEF DealsInv
<1>1. move[o].at = "open" /\ move[o].rows \in RowSets /\ move[o].late \subseteq Users
  BY DEF CommitMove, DealTypes, MoveRecords
<1>2. /\ counters' \in [Users -> Tallies]
      /\ \A u \in DOMAIN move[o].rows : counters'[u] = move[o].rows[u]
      /\ \A u \in Users \ DOMAIN move[o].rows : counters'[u] = counters[u]
  BY <1>1, RowSetIs DEF CommitMove, DealTypes
<1>3. UNCHANGED <<posted, ratings, review>>
  BY DEF CommitMove
<1>4. DealTypes'
  BY <1>2, <1>3, CommitMoves, CommitTallies DEF DealTypes
<1>5. CountsFollow'
  <2>1. ASSUME NEW p \in Orders \ {o} PROVE MoveCounts(p, move[p])'
    <3>1. MoveCounts(p, move[p])
      BY DEF CountsInv, CountsFollow
    <3>2. move[p].at = "rest" => move'[p] = AtRest
      BY <3>1, CommitMoves, AtRestIs DEF MoveCounts, Overtakes
    <3>3. /\ move'[p].at = move[p].at /\ move'[p].to = move[p].to /\ move'[p].left = move[p].left
          /\ move'[p].seen = move[p].seen /\ move'[p].rows = move[p].rows
          /\ status'[p] = status[p]
      BY CommitMoves, CommitTallies, OvertakesIs
    <3>4. QED
      BY <3>1, <3>2, <3>3 DEF MoveCounts, Counted
  <2>2. QED
    BY <2>1, CommitMoves DEF CountsFollow
<1>6. \A p \in Orders, u \in Users : Holds(p, u)' <=> p # o /\ Holds(p, u)
  BY CommitMoves, OvertakesIs DEF Holds
<1>7. HeldByOne'
  BY <1>6 DEF HeldByOne, CountsInv
<1>8. ASSUME NEW p \in Orders PROVE SeenIsTrue(p)'
  <2>1. CASE p = o
    BY <1>6, <2>1, CommitMoves DEF SeenIsTrue
  <2>2. CASE p # o
    <3>1. /\ move'[p].left = move[p].left /\ move'[p].seen = move[p].seen
          /\ move'[p].rows = move[p].rows /\ move[p].late \subseteq move'[p].late
          /\ move[p].seen # Nobody /\ Head(move[p].left) \in DOMAIN move[o].rows
               => Head(move[p].left) \in move'[p].late
      BY <2>2, CommitMoves, OvertakesIs
    <3>2. SeenIsTrue(p)
      BY DEF CountsInv
    <3>3. ASSUME NEW u \in Users, Holds(p, u)', u \notin move'[p].late
          PROVE  move'[p].rows[u] = Tally(u, Visible(p))'
      <4>1. Holds(p, u) /\ u \notin move[p].late /\ u \notin DOMAIN move[o].rows
        BY <1>1, <1>6, <2>2, <3>1, <3>3 DEF CountsInv, HeldByOne, Holds
      <4>2. Tally(u, Visible(p)') = Tally(u, Visible(p))
        BY <2>2, <4>1, CommitTallies
      <4>3. QED
        BY <3>1, <3>2, <4>1, <4>2 DEF SeenIsTrue
    <3>4. ASSUME move'[p].seen # Nobody, Head(move'[p].left) \notin move'[p].late
          PROVE  move'[p].seen = Tally(Head(move'[p].left), Visible(p)')
      <4>1. Head(move[p].left) \notin move[p].late /\ Head(move[p].left) \notin DOMAIN move[o].rows
        BY <3>1, <3>4
      <4>2. Head(move[p].left) \in Users
        <5>1. move[p].left # <<>> /\ move[p].left \in Seq(Users)
          BY <3>1, <3>4 DEF CountsInv, CountsFollow, MoveCounts, DealTypes, MoveRecords
        <5>2. QED
          BY <5>1
      <4>3. Tally(Head(move[p].left), Visible(p)') = Tally(Head(move[p].left), Visible(p))
        BY <2>2, <4>1, <4>2, CommitTallies
      <4>4. QED
        BY <3>1, <3>2, <3>4, <4>1, <4>3 DEF SeenIsTrue
    <3>5. QED
      BY <3>3, <3>4 DEF SeenIsTrue
  <2>3. QED
    BY <2>1, <2>2
<1>9. CountersTrue'
  <2>1. Marked("counters", DOMAIN move[o].rows, move[o].late)
    BY DEF CommitMove
  <2>2. ASSUME NEW u \in Users
        PROVE counters'[u] = Tally(u, status') \/ <<u, "counters">> \in overtaken'
    <3>1. CASE u \in DOMAIN move[o].rows /\ u \in move[o].late
      BY <2>1, <3>1, MarkedCounters
    <3>2. CASE u \in DOMAIN move[o].rows /\ u \notin move[o].late
      <4>1. move[o].rows[u] = Tally(u, Visible(o))
        BY <1>1, <3>2 DEF CountsInv, SeenIsTrue, Holds
      <4>2. QED
        BY <1>2, <3>2, <4>1, CommitTallies
    <3>3. CASE u \notin DOMAIN move[o].rows
      <4>1. <<u, "counters">> \in overtaken => <<u, "counters">> \in overtaken'
        BY <2>1, <3>3, MarkedCounters
      <4>2. Tally(u, status') = Tally(u, status) /\ counters'[u] = counters[u]
        BY <1>2, <3>3, CommitTallies
      <4>3. QED
        BY <4>1, <4>2 DEF CountsInv, CountersTrue
    <3>4. QED
      BY <3>1, <3>2, <3>3
  <2>3. QED
    BY <2>2 DEF CountersTrue
<1>10. RatingsInv'
  <2>1. \A w \in Users : <<w, "ratings">> \in overtaken => <<w, "ratings">> \in overtaken'
    BY MarkedCounters DEF CommitMove
  <2>2. QED
    BY <1>3, <2>1, RatingsStay
<1>11. QED
  BY <1>4, <1>5, <1>7, <1>8, <1>9, <1>10 DEF CountsInv

-----------------------------------------------------------------------------
(* The steps of a review change neither orders nor counters.                 *)
LEMMA CountsStay ==
  ASSUME CountsInv, UNCHANGED <<status, counters, move>>,
         \A u \in Users : <<u, "counters">> \in overtaken => <<u, "counters">> \in overtaken'
  PROVE CountsInv'
<1>1. CountersTrue'
  BY CountersStay DEF CountsInv
<1>2. QED
  BY <1>1 DEF CountsInv, CountsFollow, MoveCounts, Counted, Parties, HeldByOne, Holds,
              SeenIsTrue, Visible, Tally

LEMMA UnaskedIs ==
  Unasked \in ReviewRecords /\ Unasked.at = "idle"
  BY DEF Unasked, ReviewRecords

LEMMA ReviewAllowedKeeps ==
  ASSUME DealsInv, NEW v \in Reviews, ReviewAllowed(v)
  PROVE DealsInv'
<1> USE DEF DealsInv
<1>1. /\ review' \in [Reviews -> ReviewRecords]
      /\ \A w \in Reviews \ {v} : review'[w] = review[w]
      /\ review'[v].at = "allowed" /\ review[v].at = "idle"
  BY DEF ReviewAllowed, DealTypes, ReviewRecords
<1>2. DealTypes'
  BY <1>1 DEF ReviewAllowed, DealTypes
<1>3. CountsInv'
  BY CountsStay DEF ReviewAllowed
<1>4. \A w \in Reviews : Recounting(w)' <=> Recounting(w)
  BY <1>1 DEF Recounting
<1>5. RatingsInv'
  BY <1>1, <1>4 DEF ReviewAllowed, RatingsInv, About, DealTypes
<1>6. QED
  BY <1>2, <1>3, <1>5

LEMMA PostReviewKeeps ==
  ASSUME DealsInv, NEW v \in Reviews, PostReview(v)
  PROVE DealsInv'
<1> USE DEF DealsInv
<1> DEFINE overlaps(w) == review[w].at = "rating" /\ v \notin posted /\ Reviewee[w] = Reviewee[v]
<1>1. UNCHANGED <<status, counters, ratings, move, overtaken>>
      /\ posted' = posted \cup {v} /\ review[v].at = "allowed"
  BY DEF PostReview
<1>2. ASSUME NEW w \in Reviews \ {v}
      PROVE /\ review'[w] \in ReviewRecords /\ review'[w].at = review[w].at
            /\ review'[w].seen = review[w].seen
            /\ review[w].late => review'[w].late
            /\ overlaps(w) => review'[w].late
  <2>1. review[w] \in ReviewRecords
    BY DEF DealTypes
  <2>2. PICK late \in BOOLEAN : late = (review[w].late \/ overlaps(w))
    OBVIOUS
  <2>3. review'[w] = [review[w] EXCEPT !.late = late]
    BY <2>2 DEF PostReview
  <2>4. QED
    BY <2>1, <2>2, <2>3 DEF ReviewRecords
<1>3. /\ review'[v] \in ReviewRecords
      /\ review'[v].at = IF v \in posted THEN "idle" ELSE "posted"
  BY UnaskedIs DEF PostReview, ReviewRecords
<1>4. DealTypes'
  <2>1. review' = [w \in Reviews |-> review'[w]]
    BY DEF PostReview
  <2>2. review' \in [Reviews -> ReviewRecords]
    BY <1>2, <1>3, <2>1
  <2>3. QED
    BY <1>1, <2>2 DEF DealTypes
<1>5. CountsInv'
  BY <1>1, CountsStay
<1>6. \A w \in Reviews \ {v} : Recounting(w)' <=> Recounting(w)
  BY <1>2 DEF Recounting
<1>7. ~Recounting(v) /\ (Recounting(v)' <=> v \notin posted)
  BY <1>1, <1>3 DEF Recounting
<1>8. RatingsInv'
  <2>1. ASSUME NEW w \in Reviews, Recounting(w)' PROVE w \in posted'
    BY <1>1, <1>6, <1>7, <2>1 DEF RatingsInv
  <2>2. ASSUME NEW w \in Reviews, review'[w].at = "rating", ~review'[w].late
        PROVE  review'[w].seen = About(Reviewee[w])'
    <3>1. w # v
      BY <1>3, <2>2
    <3>2. review[w].seen = About(Reviewee[w])
      BY <1>2, <2>2, <3>1 DEF RatingsInv
    <3>3. v \in posted \/ Reviewee[w] # Reviewee[v]
      BY <1>2, <2>2, <3>1
    <3>4. About(Reviewee[w])' = About(Reviewee[w])
      BY <1>1, <3>3 DEF About
    <3>5. QED
      BY <1>2, <3>1, <3>2, <3>4
  <2>3. ASSUME NEW u \in Users
        PROVE  \/ ratings'[u] = About(u)' \/ <<u, "ratings">> \in overtaken'
               \/ \E w \in posted' : Reviewee[w] = u /\ Recounting(w)'
    <3>1. CASE v \notin posted /\ Reviewee[v] = u
      BY <1>1, <1>7, <3>1
    <3>2. CASE v \in posted \/ Reviewee[v] # u
      <4>1. About(u)' = About(u)
        BY <1>1, <3>2 DEF About
      <4>2. \A w \in posted : Recounting(w) => w \in posted' /\ Recounting(w)'
        BY <1>1, <1>6, <1>7 DEF DealTypes
      <4>3. QED
        BY <1>1, <4>1, <4>2 DEF RatingsInv
    <3>3. QED
      BY <3>1, <3>2
  <2>4. QED
    BY <2>1, <2>2, <2>3 DEF RatingsInv
<1>9. QED
  BY <1>4, <1>5, <1>8

LEMMA RateStartsKeeps ==
  ASSUME DealsInv, NEW v \in Reviews, RateStarts(v)
  PROVE DealsInv'
<1> USE DEF DealsInv
<1>1. About(Reviewee[v]) \subseteq Reviews
  BY DEF About, DealTypes
<1>2. /\ review' \in [Reviews -> ReviewRecords]
      /\ \A w \in Reviews \ {v} : review'[w] = review[w]
      /\ review'[v].at = "rating" /\ review'[v].seen = About(Reviewee[v])
      /\ review[v].at = "posted"
  BY <1>1 DEF RateStarts, DealTypes, ReviewRecords
<1>3. DealTypes'
  BY <1>2 DEF RateStarts, DealTypes
<1>4. CountsInv'
  BY CountsStay DEF RateStarts
<1>5. \A w \in Reviews : Recounting(w)' <=> Recounting(w)
  BY <1>2 DEF Recounting
<1>6. \A u : About(u)' = About(u)
  BY DEF RateStarts, About
<1>7. RatingsInv'
  BY <1>2, <1>5, <1>6 DEF RateStarts, RatingsInv, DealTypes
<1>8. QED
  BY <1>3, <1>4, <1>7

(* A request that is over; its reviewee's rating is true, marked, or left to *)
(* another request.                                                          *)
LEMMA ReviewEnds ==
  ASSUME DealsInv, NEW v \in Reviews, review' = [review EXCEPT ![v] = Unasked],
         UNCHANGED <<status, posted, counters, move>>, ratings' \in [Users -> SUBSET Reviews],
         \A u \in Users \ {Reviewee[v]} :
           /\ ratings'[u] = ratings[u]
           /\ <<u, "ratings">> \in overtaken => <<u, "ratings">> \in overtaken',
         \A u \in Users : <<u, "counters">> \in overtaken => <<u, "counters">> \in overtaken',
         \/ ratings'[Reviewee[v]] = About(Reviewee[v])
         \/ <<Reviewee[v], "ratings">> \in overtaken'
         \/ /\ ~Recounting(v) /\ ratings' = ratings
            /\ <<Reviewee[v], "ratings">> \in overtaken => <<Reviewee[v], "ratings">> \in overtaken'
  PROVE DealsInv'
<1> USE DEF DealsInv
<1>1. /\ review' \in [Reviews -> ReviewRecords] /\ review'[v].at = "idle"
      /\ \A w \in Reviews \ {v} : review'[w] = review[w]
  BY UnaskedIs DEF DealTypes
<1>2. DealTypes'
  BY <1>1 DEF DealTypes
<1>3. CountsInv'
  BY CountsStay
<1>4. /\ ~Recounting(v)' /\ \A w \in Reviews \ {v} : Recounting(w)' <=> Recounting(w)
      /\ \A u : About(u)' = About(u)
  BY <1>1 DEF Recounting, About
<1>5. ASSUME NEW u \in Users
      PROVE  \/ ratings'[u] = About(u)' \/ <<u, "ratings">> \in overtaken'
             \/ \E w \in posted' : Reviewee[w] = u /\ Recounting(w)'
  <2>1. \/ ratings[u] = About(u) \/ <<u, "ratings">> \in overtaken
        \/ \E w \in posted : Reviewee[w] = u /\ Recounting(w)
    BY DEF RatingsInv
  <2>2. posted \subseteq Reviews
    BY DEF DealTypes
  <2>3. CASE u # Reviewee[v]
    BY <1>4, <2>1, <2>2, <2>3
  <2>4. CASE u = Reviewee[v]
    BY <1>4, <2>1, <2>2, <2>4
  <2>5. QED
    BY <2>3, <2>4
<1>6. RatingsInv'
  BY <1>1, <1>4, <1>5 DEF RatingsInv
<1>7. QED
  BY <1>2, <1>3, <1>6

LEMMA RateWritesKeeps ==
  ASSUME DealsInv, NEW v \in Reviews, RateWrites(v)
  PROVE DealsInv'
<1> USE DEF DealsInv
<1>1. Reviewee[v] \in Users /\ review[v].seen \subseteq Reviews
  BY StandingAssumption DEF DealTypes, ReviewRecords
<1>2. /\ ratings' = [ratings EXCEPT ![Reviewee[v]] = review[v].seen]
      /\ review[v].at = "rating" /\ review' = [review EXCEPT ![v] = Unasked]
      /\ Marked("ratings", {Reviewee[v]}, IF review[v].late THEN {Reviewee[v]} ELSE {})
      /\ UNCHANGED <<status, posted, counters, move>>
  BY DEF RateWrites
<1>3. /\ ratings' \in [Users -> SUBSET Reviews] /\ ratings'[Reviewee[v]] = review[v].seen
      /\ \A u \in Users \ {Reviewee[v]} : ratings'[u] = ratings[u]
  BY <1>1, <1>2 DEF DealTypes
<1>4. /\ \A u \in Users : <<u, "counters">> \in overtaken => <<u, "counters">> \in overtaken'
      /\ \A u \in Users \ {Reviewee[v]} :
           <<u, "ratings">> \in overtaken => <<u, "ratings">> \in overtaken'
      /\ review[v].late => <<Reviewee[v], "ratings">> \in overtaken'
  BY <1>2 DEF Marked
<1>5. ~review[v].late => review[v].seen = About(Reviewee[v])
  BY <1>2 DEF RatingsInv
<1>6. QED
  BY <1>2, <1>3, <1>4, <1>5, ReviewEnds

LEMMA ReviewDiesKeeps ==
  ASSUME DealsInv, NEW v \in Reviews, ReviewDies(v)
  PROVE DealsInv'
<1> USE DEF DealsInv
<1>1. /\ \A pair \in overtaken : pair \in overtaken'
      /\ Recounting(v) => <<Reviewee[v], "ratings">> \in overtaken'
  BY DEF ReviewDies, Recounting
<1>2. /\ review' = [review EXCEPT ![v] = Unasked] /\ ratings \in [Users -> SUBSET Reviews]
      /\ UNCHANGED <<status, posted, counters, ratings, move>>
  BY DEF ReviewDies, DealTypes
<1>3. QED
  BY <1>1, <1>2, ReviewEnds

-----------------------------------------------------------------------------
LEMMA DealsStep ==
  ASSUME DealsInv, [StandingNext]_standingVars
  PROVE DealsInv'
<1>1. CASE UNCHANGED standingVars
  BY <1>1, DealsStay DEF standingVars
<1>2. ASSUME NEW o \in Orders, MoveSteps(o) PROVE DealsInv'
  <2>1. \A to \in {"completed", "disputed", "refunded"} : Move(o, to) => DealsInv'
    BY MoveKeeps DEF Statuses
  <2>2. QED
    BY <1>2, <2>1, CountStartsKeeps, CountWritesKeeps, CommitMoveKeeps, RestKeeps DEF MoveSteps
<1>3. ASSUME NEW v \in Reviews, ReviewSteps(v) PROVE DealsInv'
  BY <1>3, ReviewAllowedKeeps, PostReviewKeeps, RateStartsKeeps, RateWritesKeeps, ReviewDiesKeeps
     DEF ReviewSteps
<1>4. ASSUME NEW r \in Onboardings, OnboardSteps(r) PROVE DealsInv'
  <2>1. UNCHANGED deals
    BY <1>4 DEF OnboardSteps, Onboard, CreateAccount, SaveAccount, OnboardDies, StripeDecides,
                AccountUpdated
  <2>2. QED
    BY <2>1, DealsStay
<1>5. ASSUME NEW k \in Looks, LookUp(k) \/ Retrieve(k) \/ SaveLook(k) PROVE DealsInv'
  <2>1. UNCHANGED deals
    BY <1>5 DEF LookUp, Retrieve, SaveLook
  <2>2. QED
    BY <2>1, DealsStay
<1>6. QED
  BY <1>1, <1>2, <1>3, <1>4, <1>5 DEF StandingNext

(* DealsInv holds in every state of deals.                                   *)
THEOREM DealsCorrect == StandingSpec => []DealsInv
  BY DealsStart, DealsStep, PTL DEF StandingSpec

LEMMA DealsImply == ASSUME DealsInv PROVE ProfileMatches
  BY DEF DealsInv, CountsInv, CountersTrue, RatingsInv, Recounting, ProfileMatches

(* Whoever reads a profile reads the orders and reviews that are there.      *)
THEOREM ProfilesAreTrue == StandingSpec => []ProfileMatches
  BY DealsCorrect, DealsImply, PTL
-----------------------------------------------------------------------------
(***************************************************************************)
(* Codes and links: guesses are bounded, and one link lives.               *)
(***************************************************************************)

RequestPlaces ==
  {"idle", "signingUp", "resending", "verifying", "comparing", "matched", "checking", "wrong",
   "right", "burningOld", "asking", "claimed", "changed", "burning"}

AccountRequests == [at : RequestPlaces, code : Nat, verified : BOOLEAN,
                    link : Links \cup {NoLink}, rows : SUBSET Links]
AttemptCounts == 0 .. MaxAttempts
FailedCounts == 0 .. MaxFailed
AccountRows == [exists : BOOLEAN, verified : BOOLEAN, code : Nat, attempts : AttemptCounts,
                failed : FailedCounts, locked : BOOLEAN]

AccountTypes ==
  /\ user \in AccountRows
  /\ guesses \in Seq(Nat) /\ user.code <= Len(guesses)
  /\ ~user.exists => guesses = <<>>
  /\ link \in [Links -> {"unissued", "live", "used"}]
  /\ req \in [Requests -> AccountRequests]
  /\ \A r \in Requests : req[r].code <= Len(guesses)
  /\ \A r \in Requests : req[r].at = "resending" => user.exists
  /\ strikes \in Nat /\ crossed \in BOOLEAN

\* Those that claimed an attempt and have not compared yet; those past the
\* check of the lock, before and after a wrong password was counted as a strike.
Comparing(c) == {r \in Requests : req[r].at = "comparing" /\ req[r].code = c}
AtPlace(where) == {r \in Requests : req[r].at = where}

(* Each comparison with the code the row has was claimed from its allowance. *)
AttemptsClaimed ==
  /\ \A c \in 1 .. Len(guesses) : guesses[c] <= MaxAttempts
  /\ user.code # 0 => guesses[user.code] + Cardinality(Comparing(user.code)) <= user.attempts

(* Without a lock the strikes are those counted and those about to be; with  *)
(* one, whoever is yet to compare was past the check when it was set.        *)
StrikesCounted ==
  LET checking == Cardinality(AtPlace("checking"))
      wrong == Cardinality(AtPlace("wrong")) IN
  /\ user.locked => strikes + checking <= MaxFailed + Cardinality(Requests) - 1
  /\ ~user.locked => strikes <= wrong + (IF user.failed = MaxFailed THEN 0 ELSE user.failed)

(* Requests for a link that do not overlap come one at a time: the one that  *)
(* burns has all the live links before it, the one that issues finds none.   *)
LinksBurnt ==
  ~crossed =>
    /\ \A q, r \in Requests : Asking(q) /\ Asking(r) => q = r
    /\ \A j, k \in Links : LinkLive(j) /\ LinkLive(k) => j = k
    /\ \A r \in Requests : req[r].at = "burningOld" => {k \in Links : LinkLive(k)} \subseteq req[r].rows
    /\ \A r \in Requests : req[r].at = "asking" => {k \in Links : LinkLive(k)} = {}

AccountsInv == AccountTypes /\ AttemptsClaimed /\ StrikesCounted /\ LinksBurnt

-----------------------------------------------------------------------------
(* Sets of requests that differ in one request differ by one in number.      *)
LEMMA OneMoves ==
  ASSUME NEW S \in SUBSET Requests, NEW T \in SUBSET Requests, NEW r \in Requests,
         S \ {r} = T \ {r}
  PROVE  /\ Cardinality(S) \in Nat /\ Cardinality(T) \in Nat
         /\ r \in S => Cardinality(S) >= 1
         /\ r \in S /\ r \notin T => Cardinality(T) = Cardinality(S) - 1
         /\ r \notin S /\ r \in T => Cardinality(T) = Cardinality(S) + 1
         /\ (r \in S <=> r \in T) => S = T
<1>1. IsFiniteSet(S) /\ IsFiniteSet(T) /\ IsFiniteSet(S \ {r})
  BY AccountsAssumption, FS_Subset
<1>2. Cardinality(S) \in Nat /\ Cardinality(T) \in Nat /\ Cardinality(S \ {r}) \in Nat
  BY <1>1, FS_CardinalityType
<1>3. r \in S => Cardinality(S \ {r}) = Cardinality(S) - 1
  BY <1>1, FS_RemoveElement
<1>4. r \in T => Cardinality(T \ {r}) = Cardinality(T) - 1
  BY <1>1, FS_RemoveElement
<1>5. (r \notin S => S \ {r} = S) /\ (r \notin T => T \ {r} = T)
  OBVIOUS
<1>6. (r \in S <=> r \in T) => S = T
  OBVIOUS
<1>7. QED
  BY <1>2, <1>3, <1>4, <1>5, <1>6

(* Two kinds of requests are no more than all of them.                       *)
LEMMA PlacesApart ==
  /\ Cardinality(Requests) \in Nat
  /\ Cardinality(AtPlace("checking")) \in Nat /\ Cardinality(AtPlace("wrong")) \in Nat
  /\ Cardinality(AtPlace("checking")) + Cardinality(AtPlace("wrong")) <= Cardinality(Requests)
<1> DEFINE C == AtPlace("checking")
           W == AtPlace("wrong")
<1>1. C \cap W = {} /\ C \cup W \subseteq Requests
  BY DEF AtPlace
<1>2. IsFiniteSet(Requests) /\ IsFiniteSet(C) /\ IsFiniteSet(W)
  BY <1>1, AccountsAssumption, FS_Subset
<1>3. Cardinality(C \cup W) = Cardinality(C) + Cardinality(W) - Cardinality(C \cap W)
  BY <1>2, FS_Union
<1>4. Cardinality(C \cap W) = 0
  BY <1>1, FS_EmptySet
<1>5. Cardinality(C \cup W) <= Cardinality(Requests)
  BY <1>1, <1>2, FS_Subset
<1>6. Cardinality(C) \in Nat /\ Cardinality(W) \in Nat /\ Cardinality(Requests) \in Nat
  BY <1>2, FS_CardinalityType
<1>7. QED
  BY <1>3, <1>4, <1>5, <1>6

-----------------------------------------------------------------------------
LEMMA NoRequestType ==
  /\ NoRequest \in AccountRequests
  /\ NoRequest.at = "idle" /\ NoRequest.code = 0
  BY DEF NoRequest, AccountRequests, RequestPlaces

(* What a request step does to the requests: r moves, the others stay.       *)
LEMMA RequestMoves ==
  ASSUME AccountTypes, NEW r \in Requests, NEW where \in RequestPlaces,
         Goes(r, where) \/ Ends(r) \/ Reads(r, where)
  PROVE  /\ req' \in [Requests -> AccountRequests]
         /\ \A q \in Requests \ {r} : req'[q] = req[q]
         /\ Goes(r, where) => req'[r].at = where /\ req'[r].code = req[r].code
                              /\ req'[r].rows = req[r].rows
         /\ Ends(r) => req'[r].at = "idle" /\ req'[r].code = 0
         /\ Reads(r, where) => req'[r].at = where /\ req'[r].code = user.code
<1> USE DEF AccountTypes
<1>1. ASSUME Goes(r, where)
      PROVE  /\ req' \in [Requests -> AccountRequests]
             /\ \A q \in Requests \ {r} : req'[q] = req[q]
             /\ req'[r].at = where /\ req'[r].code = req[r].code /\ req'[r].rows = req[r].rows
  BY <1>1 DEF Goes, AccountRequests
<1>2. ASSUME Ends(r)
      PROVE  /\ req' \in [Requests -> AccountRequests]
             /\ \A q \in Requests \ {r} : req'[q] = req[q]
             /\ req'[r].at = "idle" /\ req'[r].code = 0
  BY <1>2, NoRequestType DEF Ends
<1>3. ASSUME Reads(r, where)
      PROVE  /\ req' \in [Requests -> AccountRequests]
             /\ \A q \in Requests \ {r} : req'[q] = req[q]
             /\ req'[r].at = where /\ req'[r].code = user.code
  <2>1. user.code \in Nat /\ user.verified \in BOOLEAN
    BY DEF AccountRows
  <2>2. PICK v : /\ v = [NoRequest EXCEPT !.at = where, !.code = user.code, !.verified = user.verified]
                 /\ req' = [req EXCEPT ![r] = v]
    BY <1>3 DEF Reads
  <2>3. v \in AccountRequests /\ v.at = where /\ v.code = user.code
    BY <2>1, <2>2, NoRequestType DEF AccountRequests
  <2>4. QED
    BY <2>2, <2>3
<1>4. QED
  BY <1>1, <1>2, <1>3

-----------------------------------------------------------------------------
LEMMA CountTypes ==
  /\ AttemptCounts \subseteq Nat /\ FailedCounts \subseteq Nat
  /\ 0 \in AttemptCounts /\ 0 \in FailedCounts /\ MaxFailed \in FailedCounts
  /\ \A n \in AttemptCounts : n < MaxAttempts => n + 1 \in AttemptCounts
  /\ \A n \in FailedCounts : Lesser(n + 1, MaxFailed) \in FailedCounts
  BY AccountsAssumption DEF AttemptCounts, FailedCounts, Lesser

(* A new code is one that was never issued.                                  *)
LEMMA NewCodeRow ==
  ASSUME NEW row \in AccountRows, Len(guesses) \in Nat
  PROVE  /\ NewCode(row) \in AccountRows
         /\ NewCode(row).code = Len(guesses) + 1 /\ NewCode(row).attempts = 0
         /\ NewCode(row).exists = row.exists
         /\ NewCode(row).failed = row.failed /\ NewCode(row).locked = row.locked
<1>1. 0 \in AttemptCounts /\ Len(guesses) + 1 \in Nat
  BY CountTypes
<1>2. QED
  BY <1>1 DEF NewCode, AccountRows

LEMMA AccountsInitInv == AccountsInit => AccountsInv
<1> SUFFICES ASSUME AccountsInit PROVE AccountsInv
  OBVIOUS
<1> USE AccountsAssumption DEF AccountsInit
<1>1. AccountTypes
  <2>1. guesses \in Seq(Nat) /\ Len(guesses) = 0
    OBVIOUS
  <2>2. user \in AccountRows
    BY CountTypes DEF AccountRows
  <2>3. req \in [Requests -> AccountRequests] /\ \A r \in Requests : req[r] = NoRequest
    BY NoRequestType
  <2>4. user.code = 0 /\ guesses = <<>> /\ strikes \in Nat /\ crossed \in BOOLEAN
        /\ link \in [Links -> {"unissued", "live", "used"}]
    OBVIOUS
  <2>5. QED
    BY <2>1, <2>2, <2>3, <2>4, NoRequestType DEF AccountTypes
<1>2. AttemptsClaimed
  BY DEF AttemptsClaimed
<1>3. StrikesCounted
  BY PlacesApart DEF StrikesCounted
<1>4. LinksBurnt
  BY NoRequestType DEF LinksBurnt, Asking, LinkLive
<1>5. QED
  BY <1>1, <1>2, <1>3, <1>4 DEF AccountsInv

-----------------------------------------------------------------------------
(* Types.                                                                    *)

(* What a step has to show of the types: what it writes has its type, and    *)
(* codes in use were issued.                                                 *)
LEMMA TypesKept ==
  ASSUME AccountTypes, NEW r \in Requests,
         req' \in [Requests -> AccountRequests], \A q \in Requests \ {r} : req'[q] = req[q],
         req'[r].code <= Len(guesses'), req'[r].at = "resending" => user'.exists,
         user' \in AccountRows, user'.code <= Len(guesses'), user.exists => user'.exists,
         ~user'.exists => guesses' = <<>>,
         guesses' \in Seq(Nat), Len(guesses) <= Len(guesses'),
         link' \in [Links -> {"unissued", "live", "used"}], strikes' \in Nat, crossed' \in BOOLEAN
  PROVE  AccountTypes'
<1>1. Len(guesses) \in Nat /\ Len(guesses') \in Nat
  BY DEF AccountTypes
<1>2. \A q \in Requests : req'[q].code <= Len(guesses')
  <2>1. \A q \in Requests : req[q].code \in Nat /\ req[q].code <= Len(guesses)
    BY DEF AccountTypes, AccountRequests
  <2>2. \A q \in Requests \ {r} : req[q].code <= Len(guesses')
    BY <1>1, <2>1
  <2>3. QED
    BY <2>2
<1>3. \A q \in Requests : req'[q].at = "resending" => user'.exists
  BY DEF AccountTypes
<1>4. QED
  BY <1>2, <1>3 DEF AccountTypes

(* The same of a step that writes neither the row nor the codes.             *)
LEMMA RequestTypesKept ==
  ASSUME AccountTypes, NEW r \in Requests, UNCHANGED <<user, guesses>>,
         req' \in [Requests -> AccountRequests], \A q \in Requests \ {r} : req'[q] = req[q],
         req'[r].code \in {0, user.code, req[r].code},
         req'[r].at = "resending" => user.exists,
         link' \in [Links -> {"unissued", "live", "used"}], strikes' \in Nat, crossed' \in BOOLEAN
  PROVE  AccountTypes'
<1>1. Len(guesses) \in Nat /\ 0 <= Len(guesses)
  BY DEF AccountTypes
<1>2. QED
  BY <1>1, TypesKept DEF AccountTypes

LEMMA CodeTypes ==
  ASSUME AccountTypes, NEW r \in Requests, CodeSteps(r)
  PROVE  AccountTypes'
<1> USE AccountsAssumption DEF RequestPlaces
<1>1. /\ user \in AccountRows /\ guesses \in Seq(Nat) /\ Len(guesses) \in Nat
      /\ req[r] \in AccountRequests
  BY DEF AccountTypes
<1>2. \A q \in Requests : req[q].code <= Len(guesses) /\ req[q].code \in Nat
  BY DEF AccountTypes, AccountRequests
<1>3. CASE SignupRead(r) \/ ResendRead(r) \/ VerifyRead(r)
  BY <1>1, <1>2, <1>3, RequestMoves DEF SignupRead, ResendRead, VerifyRead, AccountTypes
<1>4. CASE SignupInsert(r)
  <2>1. CASE user.exists
    BY <1>4, <2>1, RequestMoves DEF SignupInsert, AccountTypes
  <2>2. CASE ~user.exists
    <3>1. guesses = <<>> /\ guesses' = <<0>>
      BY <1>4, <2>2 DEF SignupInsert, AccountTypes
    <3>2. Len(guesses) = 0 /\ Len(guesses') = 1 /\ guesses' \in Seq(Nat)
      BY <3>1
    <3>3. user' \in AccountRows /\ user'.code = 1 /\ user'.exists
      <4>1. user' = [NewCode(user) EXCEPT !.exists = TRUE]
        BY <1>4, <2>2 DEF SignupInsert
      <4>2. NewCode(user) \in AccountRows /\ NewCode(user).code = 1
        BY <1>1, <3>2, NewCodeRow
      <4>3. QED
        BY <4>1, <4>2 DEF AccountRows
    <3>4. Ends(r) /\ link' = link /\ strikes' = strikes /\ crossed' = crossed
      BY <1>4 DEF SignupInsert
    <3>5. QED
      BY <3>2, <3>3, <3>4, RequestMoves, TypesKept DEF AccountTypes
  <2>3. QED
    BY <2>1, <2>2
<1>5. CASE ResendWrite(r)
  <2>1. guesses' \in Seq(Nat) /\ Len(guesses') = Len(guesses) + 1
    BY <1>1, <1>5 DEF ResendWrite
  <2>2. user' \in AccountRows /\ user'.code = Len(guesses) + 1 /\ user'.exists = user.exists
    BY <1>1, <1>5, NewCodeRow DEF ResendWrite
  <2>3. user.exists
    BY <1>5 DEF ResendWrite, AccountTypes
  <2>4. QED
    BY <1>1, <1>5, <2>1, <2>2, <2>3, RequestMoves, TypesKept DEF ResendWrite, AccountTypes
<1>6. CASE ClaimAttempt(r)
  <2>1. CASE user.attempts < MaxAttempts
    <3>1. user' = [user EXCEPT !.attempts = @ + 1] /\ Goes(r, "comparing")
      BY <1>6, <2>1 DEF ClaimAttempt
    <3>2. user.attempts + 1 \in AttemptCounts
      BY <1>1, <2>1, CountTypes DEF AccountRows
    <3>3. user' \in AccountRows /\ user'.code = user.code /\ user'.exists = user.exists
      BY <1>1, <3>1, <3>2 DEF AccountRows
    <3>4. QED
      BY <1>1, <1>2, <1>6, <3>1, <3>3, RequestMoves, TypesKept DEF ClaimAttempt, AccountTypes
  <2>2. CASE ~(user.attempts < MaxAttempts)
    BY <1>1, <1>2, <1>6, <2>2, RequestMoves, RequestTypesKept DEF ClaimAttempt, AccountTypes
  <2>3. QED
    BY <2>1, <2>2
<1>7. CASE CompareCode(r)
  <2>1. guesses' \in Seq(Nat) /\ Len(guesses') = Len(guesses) /\ (guesses = <<>> => guesses' = <<>>)
    BY <1>1, <1>2, <1>7 DEF CompareCode
  <2>2. Ends(r) \/ Goes(r, "matched")
    BY <1>7 DEF CompareCode
  <2>3. UNCHANGED <<user, link, strikes, crossed>>
    BY <1>7 DEF CompareCode
  <2>4. QED
    BY <1>1, <1>2, <2>1, <2>2, <2>3, RequestMoves, TypesKept DEF AccountTypes
<1>8. CASE Verified(r)
  <2>1. user' = [user EXCEPT !.verified = TRUE, !.code = 0, !.attempts = 0]
    BY <1>8 DEF Verified
  <2>2. user' \in AccountRows /\ user'.code = 0 /\ user'.exists = user.exists
    BY <1>1, <2>1, CountTypes DEF AccountRows
  <2>3. QED
    BY <1>1, <1>8, <2>2, RequestMoves, TypesKept DEF Verified, AccountTypes
<1>9. QED
  BY <1>3, <1>4, <1>5, <1>6, <1>7, <1>8 DEF CodeSteps

LEMMA LoginTypes ==
  ASSUME AccountTypes, LockEnds \/ \E r \in Requests : LoginSteps(r)
  PROVE  AccountTypes'
<1> USE AccountsAssumption DEF RequestPlaces
<1>1. user \in AccountRows /\ strikes \in Nat /\ guesses \in Seq(Nat)
  BY DEF AccountTypes
<1>2. CASE LockEnds
  <2>1. user' \in AccountRows /\ user'.code = user.code /\ user'.exists = user.exists
    BY <1>1, <1>2 DEF LockEnds, AccountRows
  <2>2. QED
    BY <1>2, <2>1 DEF LockEnds, AccountTypes
<1>3. ASSUME NEW r \in Requests, LoginRead(r) PROVE AccountTypes'
  BY <1>3, RequestMoves, RequestTypesKept DEF LoginRead, AccountTypes
<1>4. ASSUME NEW r \in Requests, ComparePassword(r) PROVE AccountTypes'
  <2>1. /\ Goes(r, "wrong") \/ Goes(r, "right") \/ Ends(r)
        /\ strikes' \in Nat /\ UNCHANGED <<user, link, guesses, crossed>>
    BY <1>1, <1>4 DEF ComparePassword
  <2>2. QED
    BY <2>1, RequestMoves, RequestTypesKept DEF AccountTypes
<1>5. ASSUME NEW r \in Requests, RecordFailed(r) PROVE AccountTypes'
  <2>1. Lesser(user.failed + 1, MaxFailed) \in FailedCounts
    BY <1>1, CountTypes DEF AccountRows
  <2>2. (user.locked \/ user.failed + 1 >= MaxFailed) \in BOOLEAN
    OBVIOUS
  <2>3. user' \in AccountRows /\ user'.code = user.code /\ user'.exists = user.exists
    BY <1>1, <1>5, <2>1, <2>2 DEF RecordFailed, AccountRows
  <2>4. QED
    BY <1>5, <2>3, RequestMoves, TypesKept DEF RecordFailed, AccountTypes
<1>6. ASSUME NEW r \in Requests, ClearFailed(r) PROVE AccountTypes'
  <2>1. CASE user.failed > 0
    <3>1. user' \in AccountRows /\ user'.code = user.code /\ user'.exists = user.exists
      BY <1>1, <1>6, <2>1, CountTypes DEF ClearFailed, AccountRows
    <3>2. QED
      BY <1>6, <2>1, <3>1, RequestMoves, TypesKept DEF ClearFailed, AccountTypes
  <2>2. CASE ~(user.failed > 0)
    BY <1>6, <2>2, RequestMoves, RequestTypesKept DEF ClearFailed, AccountTypes
  <2>3. QED
    BY <2>1, <2>2
<1>7. QED
  BY <1>2, <1>3, <1>4, <1>5, <1>6 DEF LoginSteps

LEMMA LinkTypes ==
  ASSUME AccountTypes, NEW r \in Requests, LinkSteps(r)
  PROVE  AccountTypes'
<1> USE DEF RequestPlaces
<1>1. user \in AccountRows /\ req[r] \in AccountRequests /\ req \in [Requests -> AccountRequests]
  BY DEF AccountTypes
<1>2. CASE AskForLink(r)
  <2>1. /\ req' \in [Requests -> AccountRequests] /\ \A q \in Requests \ {r} : req'[q] = req[q]
        /\ req'[r].code = req[r].code /\ req'[r].at = "burningOld"
    BY <1>1, <1>2 DEF AskForLink, AccountRequests
  <2>2. crossed' \in BOOLEAN
    BY <1>2 DEF AskForLink, AccountTypes
  <2>3. QED
    BY <1>2, <2>1, <2>2, RequestTypesKept DEF AskForLink, AccountTypes
<1>3. CASE BurnOld(r)
  <2>1. /\ req' \in [Requests -> AccountRequests] /\ \A q \in Requests \ {r} : req'[q] = req[q]
        /\ req'[r].code = req[r].code /\ req'[r].at = "asking"
    BY <1>1, <1>3 DEF BurnOld, AccountRequests
  <2>2. link' \in [Links -> {"unissued", "live", "used"}]
    BY <1>3 DEF BurnOld, AccountTypes
  <2>3. QED
    BY <1>3, <2>1, <2>2, RequestTypesKept DEF BurnOld, AccountTypes
<1>4. CASE AskDies(r) \/ ResetFails(r) \/ ChangePassword(r)
  BY <1>4, RequestMoves, RequestTypesKept DEF AskDies, ResetFails, ChangePassword, AccountTypes
<1>5. ASSUME NEW k \in Links, IssueLink(r, k) PROVE AccountTypes'
  BY <1>5, RequestMoves, RequestTypesKept DEF IssueLink, AccountTypes
<1>6. ASSUME NEW k \in Links, ClaimLink(r, k) PROVE AccountTypes'
  <2>1. /\ req' \in [Requests -> AccountRequests] /\ \A q \in Requests \ {r} : req'[q] = req[q]
        /\ req'[r].code = 0 /\ req'[r].at = "claimed"
    BY <1>1, <1>6, NoRequestType DEF ClaimLink, AccountRequests
  <2>2. QED
    BY <1>6, <2>1, RequestTypesKept DEF ClaimLink, AccountTypes
<1>7. CASE BurnOthers(r)
  <2>1. /\ req' \in [Requests -> AccountRequests] /\ \A q \in Requests \ {r} : req'[q] = req[q]
        /\ req'[r].code = req[r].code /\ req'[r].at = "burning"
    BY <1>1, <1>7 DEF BurnOthers, AccountRequests
  <2>2. QED
    BY <1>7, <2>1, RequestTypesKept DEF BurnOthers, AccountTypes
<1>8. CASE ResetCommits(r)
  <2>1. user' \in AccountRows /\ user'.code = user.code /\ user'.exists = user.exists
    BY <1>1, <1>8, CountTypes DEF ResetCommits, AccountRows
  <2>2. link' \in [Links -> {"unissued", "live", "used"}]
    BY <1>8 DEF ResetCommits, AccountTypes
  <2>3. QED
    BY <1>8, <2>1, <2>2, RequestMoves, TypesKept DEF ResetCommits, AccountTypes
<1>9. QED
  BY <1>2, <1>3, <1>4, <1>5, <1>6, <1>7, <1>8 DEF LinkSteps

-----------------------------------------------------------------------------
(* The allowance of a code.                                                  *)

\* Nothing that the allowance of the code reads is written.
LEMMA AttemptsStand ==
  ASSUME AccountTypes, AttemptsClaimed, UNCHANGED guesses,
         user'.code = user.code, user'.attempts = user.attempts,
         NEW r \in Requests, \A q \in Requests \ {r} : req'[q] = req[q],
         req[r].at # "comparing", req'[r].at # "comparing"
  PROVE  AttemptsClaimed'
<1>1. \A c : Comparing(c)' = Comparing(c)
  BY DEF Comparing
<1>2. Comparing(user.code)' = Comparing(user.code)
  BY <1>1 DEF Comparing
<1>3. QED
  BY <1>2 DEF AttemptsClaimed

LEMMA CodeAttempts ==
  ASSUME AccountTypes, AttemptsClaimed, NEW r \in Requests, CodeSteps(r)
  PROVE  AttemptsClaimed'
<1> USE AccountsAssumption DEF RequestPlaces
<1>1. /\ user \in AccountRows /\ guesses \in Seq(Nat) /\ Len(guesses) \in Nat
      /\ user.code \in Nat /\ user.code <= Len(guesses)
      /\ user.attempts \in Nat /\ user.attempts <= MaxAttempts
  BY DEF AccountTypes, AccountRows, AttemptCounts
<1>2. \A q \in Requests : req[q].code \in Nat /\ req[q].code <= Len(guesses)
  BY DEF AccountTypes, AccountRequests
<1>3. CASE SignupRead(r) \/ ResendRead(r) \/ VerifyRead(r)
  BY <1>3, RequestMoves, AttemptsStand DEF SignupRead, ResendRead, VerifyRead
<1>4. CASE SignupInsert(r) /\ user.exists
  BY <1>4, RequestMoves, AttemptsStand DEF SignupInsert
<1>5. ASSUME \/ SignupInsert(r) /\ ~user.exists
             \/ ResendWrite(r)
      PROVE  AttemptsClaimed'
  <2>1. /\ Len(guesses') = Len(guesses) + 1 /\ guesses'[Len(guesses) + 1] = 0
        /\ \A c \in 1 .. Len(guesses) : guesses'[c] = guesses[c]
    <3>1. CASE ResendWrite(r)
      BY <1>1, <3>1 DEF ResendWrite
    <3>2. CASE SignupInsert(r) /\ ~user.exists
      <4>1. guesses = <<>> /\ guesses' = <<0>>
        BY <3>2 DEF SignupInsert, AccountTypes
      <4>2. QED
        BY <4>1
    <3>3. QED
      BY <1>5, <3>1, <3>2
  <2>2. user'.code = Len(guesses) + 1 /\ user'.attempts = 0
    BY <1>1, <1>5, NewCodeRow DEF SignupInsert, ResendWrite, AccountRows
  <2>3. \A q \in Requests : req'[q].at = "comparing" => req'[q].code <= Len(guesses)
    BY <1>2, <1>5, RequestMoves DEF SignupInsert, ResendWrite
  <2>4. Comparing(user.code)' = {}
    BY <1>1, <2>2, <2>3 DEF Comparing
  <2>5. Cardinality(Comparing(user.code))' = 0
    BY <2>4, FS_EmptySet
  <2>6. QED
    BY <1>1, <2>1, <2>2, <2>5 DEF AttemptsClaimed
<1>6. CASE ClaimAttempt(r)
  <2>1. CASE user.attempts < MaxAttempts
    <3>1. /\ user'.code = user.code /\ user'.attempts = user.attempts + 1
          /\ guesses' = guesses /\ req[r].at = "verifying"
      BY <1>1, <1>6, <2>1 DEF ClaimAttempt, AccountRows
    <3>2. \A q \in Requests \ {r} : req'[q] = req[q]
      BY <1>6, <2>1, RequestMoves DEF ClaimAttempt
    <3>3. Comparing(user.code)' \ {r} = Comparing(user.code) \ {r} /\ r \notin Comparing(user.code)
      BY <3>1, <3>2 DEF Comparing
    <3>4. Comparing(user.code) \in SUBSET Requests /\ Comparing(user.code)' \in SUBSET Requests
      BY DEF Comparing
    <3>5. /\ Cardinality(Comparing(user.code)) \in Nat /\ Cardinality(Comparing(user.code)') \in Nat
          /\ Cardinality(Comparing(user.code)') <= Cardinality(Comparing(user.code)) + 1
      BY <3>3, <3>4, OneMoves
    <3>6. user.code # 0 => guesses[user.code] \in Nat
      BY <1>1
    <3>7. QED
      BY <1>1, <3>1, <3>5, <3>6 DEF AttemptsClaimed
  <2>2. CASE ~(user.attempts < MaxAttempts)
    BY <1>6, <2>2, RequestMoves, AttemptsStand DEF ClaimAttempt
  <2>3. QED
    BY <2>1, <2>2
<1>7. CASE CompareCode(r)
  <2> DEFINE c == req[r].code
  <2>1. user' = user /\ req[r].at = "comparing" /\ c \in Nat /\ c <= Len(guesses)
    BY <1>2, <1>7 DEF CompareCode
  <2>2. req'[r].at # "comparing" /\ \A q \in Requests \ {r} : req'[q] = req[q]
    BY <1>7, RequestMoves DEF CompareCode
  <2>3. /\ Comparing(user.code) \in SUBSET Requests /\ Comparing(user.code)' \in SUBSET Requests
        /\ Comparing(user.code)' \ {r} = Comparing(user.code) \ {r}
        /\ r \notin Comparing(user.code)'
    BY <2>1, <2>2 DEF Comparing
  <2>4. /\ Cardinality(Comparing(user.code)) \in Nat /\ Cardinality(Comparing(user.code)') \in Nat
        /\ r \in Comparing(user.code) =>
             Cardinality(Comparing(user.code)') = Cardinality(Comparing(user.code)) - 1
        /\ r \notin Comparing(user.code) =>
             Cardinality(Comparing(user.code)') = Cardinality(Comparing(user.code))
        /\ r \in Comparing(user.code) => Cardinality(Comparing(user.code)) >= 1
    BY <2>3, OneMoves
  <2>5. CASE c # 0 /\ c = user.code
    <3>1. guesses' = [guesses EXCEPT ![c] = @ + 1] /\ r \in Comparing(user.code)
      BY <1>7, <2>1, <2>5 DEF CompareCode, Comparing
    <3>2. /\ Len(guesses') = Len(guesses) /\ guesses'[c] = guesses[c] + 1 /\ guesses[c] \in Nat
          /\ \A d \in 1 .. Len(guesses) : d # c => guesses'[d] = guesses[d]
      BY <1>1, <2>1, <2>5, <3>1
    <3>3. guesses[c] + Cardinality(Comparing(user.code)) <= user.attempts
      BY <2>5 DEF AttemptsClaimed
    <3>4. guesses'[c] <= MaxAttempts
      BY <1>1, <2>4, <3>1, <3>2, <3>3
    <3>5. QED
      BY <1>1, <2>1, <2>4, <2>5, <3>1, <3>2, <3>3, <3>4 DEF AttemptsClaimed
  <2>6. CASE ~(c # 0 /\ c = user.code)
    <3>1. guesses' = guesses /\ (user.code # 0 => r \notin Comparing(user.code))
      BY <1>7, <2>1, <2>6 DEF CompareCode, Comparing
    <3>2. QED
      BY <2>1, <2>4, <3>1 DEF AttemptsClaimed
  <2>7. QED
    BY <2>5, <2>6
<1>8. CASE Verified(r)
  BY <1>1, <1>8 DEF Verified, AttemptsClaimed, AccountRows
<1>9. QED
  BY <1>3, <1>4, <1>5, <1>6, <1>7, <1>8 DEF CodeSteps

\* Links are asked for and used by requests of their own.
LEMMA LinkMoves ==
  ASSUME AccountTypes, NEW r \in Requests, LinkSteps(r)
  PROVE  /\ req[r].at \notin {"comparing", "checking", "wrong"}
         /\ req'[r].at \notin {"comparing", "checking", "wrong"}
         /\ \A q \in Requests \ {r} : req'[q] = req[q]
<1> USE DEF RequestPlaces
<1>1. req \in [Requests -> AccountRequests]
  BY DEF AccountTypes
<1>2. CASE AskForLink(r) \/ BurnOld(r) \/ BurnOthers(r)
  BY <1>1, <1>2 DEF AskForLink, BurnOld, BurnOthers, AccountRequests
<1>3. CASE AskDies(r) \/ ChangePassword(r) \/ ResetCommits(r) \/ ResetFails(r)
  BY <1>3, RequestMoves DEF AskDies, ChangePassword, ResetCommits, ResetFails, Asking
<1>4. ASSUME NEW k \in Links, IssueLink(r, k)
      PROVE  /\ req[r].at = "asking" /\ req'[r].at = "idle"
             /\ \A q \in Requests \ {r} : req'[q] = req[q]
  BY <1>4, RequestMoves DEF IssueLink
<1>5. ASSUME NEW k \in Links, ClaimLink(r, k)
      PROVE  /\ req[r].at = "idle" /\ req'[r].at = "claimed"
             /\ \A q \in Requests \ {r} : req'[q] = req[q]
  BY <1>1, <1>5, NoRequestType DEF ClaimLink, AccountRequests
<1>6. QED
  BY <1>2, <1>3, <1>4, <1>5 DEF LinkSteps

LEMMA OtherAttempts ==
  ASSUME AccountTypes, AttemptsClaimed,
         LockEnds \/ \E r \in Requests : LoginSteps(r) \/ LinkSteps(r)
  PROVE  AttemptsClaimed'
<1> USE DEF RequestPlaces
<1>1. user \in AccountRows /\ req \in [Requests -> AccountRequests]
  BY DEF AccountTypes
<1>2. CASE LockEnds
  <2>1. /\ user'.code = user.code /\ user'.attempts = user.attempts /\ guesses' = guesses
        /\ \A c : Comparing(c)' = Comparing(c)
    BY <1>1, <1>2 DEF LockEnds, AccountRows, Comparing
  <2>2. Comparing(user.code)' = Comparing(user.code)
    BY <1>1, <1>2, <2>1 DEF LockEnds, Comparing
  <2>3. QED
    BY <2>1, <2>2 DEF AttemptsClaimed
<1>3. ASSUME NEW r \in Requests, LoginSteps(r) PROVE AttemptsClaimed'
  <2>1. user'.code = user.code /\ user'.attempts = user.attempts /\ guesses' = guesses
    BY <1>1, <1>3 DEF LoginSteps, LoginRead, ComparePassword, RecordFailed, ClearFailed, AccountRows
  <2>2. /\ req[r].at # "comparing" /\ req'[r].at # "comparing"
        /\ \A q \in Requests \ {r} : req'[q] = req[q]
    BY <1>3, RequestMoves DEF LoginSteps, LoginRead, ComparePassword, RecordFailed, ClearFailed
  <2>3. QED
    BY <2>1, <2>2, AttemptsStand
<1>4. ASSUME NEW r \in Requests, LinkSteps(r) PROVE AttemptsClaimed'
  <2>1. user'.code = user.code /\ user'.attempts = user.attempts /\ guesses' = guesses
    BY <1>1, <1>4 DEF LinkSteps, AskForLink, BurnOld, AskDies, IssueLink, ClaimLink,
         ChangePassword, BurnOthers, ResetCommits, ResetFails, AccountRows
  <2>2. /\ req[r].at \notin {"comparing", "checking", "wrong"}
        /\ req'[r].at \notin {"comparing", "checking", "wrong"}
        /\ \A q \in Requests \ {r} : req'[q] = req[q]
    BY <1>1, <1>4, LinkMoves
  <2>3. QED
    BY <2>1, <2>2, AttemptsStand
<1>5. QED
  BY <1>2, <1>3, <1>4

-----------------------------------------------------------------------------
(* The lockout.                                                              *)

\* The requests past the check, when only r moves.
LEMMA PlacesMove ==
  ASSUME NEW r \in Requests, \A q \in Requests \ {r} : req'[q] = req[q],
         NEW w \in {"checking", "wrong"}
  PROVE  /\ Cardinality(AtPlace(w)) \in Nat /\ Cardinality(AtPlace(w)') \in Nat
         /\ req[r].at = w => Cardinality(AtPlace(w)) >= 1
         /\ req[r].at = w /\ req'[r].at # w =>
              Cardinality(AtPlace(w)') = Cardinality(AtPlace(w)) - 1
         /\ req[r].at # w /\ req'[r].at = w =>
              Cardinality(AtPlace(w)') = Cardinality(AtPlace(w)) + 1
         /\ (req[r].at = w <=> req'[r].at = w) =>
              Cardinality(AtPlace(w)') = Cardinality(AtPlace(w))
<1>1. /\ AtPlace(w) \in SUBSET Requests /\ AtPlace(w)' \in SUBSET Requests
      /\ AtPlace(w)' \ {r} = AtPlace(w) \ {r}
      /\ r \in AtPlace(w) <=> req[r].at = w
      /\ r \in AtPlace(w)' <=> req'[r].at = w
  BY DEF AtPlace
<1>2. QED
  BY <1>1, OneMoves

LEMMA StrikesStand ==
  ASSUME StrikesCounted, UNCHANGED strikes,
         user'.locked = user.locked, user'.failed = user.failed,
         NEW r \in Requests, \A q \in Requests \ {r} : req'[q] = req[q],
         req[r].at \notin {"checking", "wrong"}, req'[r].at \notin {"checking", "wrong"}
  PROVE  StrikesCounted'
  BY PlacesMove DEF StrikesCounted

LEMMA StrikesStep ==
  ASSUME AccountTypes, StrikesCounted, AccountsNext
  PROVE  StrikesCounted'
<1> USE AccountsAssumption, PlacesApart DEF RequestPlaces
<1> DEFINE N == Cardinality(Requests)
           C == Cardinality(AtPlace("checking"))
           W == Cardinality(AtPlace("wrong"))
<1>1. /\ user \in AccountRows /\ req \in [Requests -> AccountRequests]
      /\ user.failed \in Nat /\ user.failed <= MaxFailed /\ strikes \in Nat
      /\ MaxFailed \in Nat /\ MaxFailed >= 1
  BY DEF AccountTypes, AccountRows, FailedCounts
<1>2. N \in Nat /\ C \in Nat /\ W \in Nat /\ C + W <= N
  OBVIOUS
<1>3. /\ user.locked => strikes + C <= MaxFailed + N - 1
      /\ ~user.locked => strikes <= W + (IF user.failed = MaxFailed THEN 0 ELSE user.failed)
  BY DEF StrikesCounted
<1>4. CASE LockEnds
  <2>1. strikes' = 0 /\ ~user'.locked /\ user'.failed = user.failed /\ req' = req
    BY <1>1, <1>4 DEF LockEnds, AccountRows
  <2>2. Cardinality(AtPlace("wrong"))' = W
    BY <2>1 DEF AtPlace
  <2>3. QED
    BY <1>1, <1>2, <2>1, <2>2 DEF StrikesCounted
<1>5. ASSUME NEW r \in Requests, CodeSteps(r) PROVE StrikesCounted'
  <2>1. user'.locked = user.locked /\ user'.failed = user.failed /\ strikes' = strikes
    <3>1. Len(guesses) \in Nat
      BY DEF AccountTypes
    <3>2. CASE SignupInsert(r) \/ ResendWrite(r)
      BY <1>1, <3>1, <3>2, NewCodeRow DEF SignupInsert, ResendWrite, AccountRows
    <3>3. CASE \/ SignupRead(r) \/ ResendRead(r) \/ VerifyRead(r) \/ ClaimAttempt(r)
               \/ CompareCode(r) \/ Verified(r)
      BY <1>1, <3>3 DEF SignupRead, ResendRead, VerifyRead, ClaimAttempt, CompareCode, Verified,
           AccountRows
    <3>4. QED
      BY <1>5, <3>2, <3>3 DEF CodeSteps
  <2>2. /\ req[r].at \notin {"checking", "wrong"} /\ req'[r].at \notin {"checking", "wrong"}
        /\ \A q \in Requests \ {r} : req'[q] = req[q]
    BY <1>5, RequestMoves DEF CodeSteps, SignupRead, SignupInsert, ResendRead, ResendWrite,
         VerifyRead, ClaimAttempt, CompareCode, Verified
  <2>3. QED
    BY <2>1, <2>2, StrikesStand
<1>6. ASSUME NEW r \in Requests, LoginRead(r) PROVE StrikesCounted'
  <2>1. /\ ~user.locked /\ user' = user /\ strikes' = strikes
        /\ req[r].at = "idle" /\ req'[r].at = "checking" /\ \A q \in Requests \ {r} : req'[q] = req[q]
    BY <1>6, RequestMoves DEF LoginRead
  <2>2. Cardinality(AtPlace("wrong")') = W
    BY <2>1, PlacesMove
  <2>3. QED
    BY <1>3, <2>1, <2>2 DEF StrikesCounted
<1>7. ASSUME NEW r \in Requests, ComparePassword(r) PROVE StrikesCounted'
  <2>1. /\ user' = user /\ req[r].at = "checking" /\ \A q \in Requests \ {r} : req'[q] = req[q]
        /\ \/ req'[r].at = "wrong" /\ strikes' = strikes + 1
           \/ req'[r].at \in {"right", "idle"} /\ strikes' = strikes
    BY <1>7, RequestMoves DEF ComparePassword
  <2>2. Cardinality(AtPlace("checking")') = C - 1
    BY <2>1, PlacesMove
  <2>3. Cardinality(AtPlace("wrong")') = IF req'[r].at = "wrong" THEN W + 1 ELSE W
    BY <2>1, PlacesMove
  <2>4. QED
    BY <1>1, <1>2, <1>3, <2>1, <2>2, <2>3 DEF StrikesCounted
<1>8. ASSUME NEW r \in Requests, RecordFailed(r) PROVE StrikesCounted'
  <2>1. /\ user'.failed = Lesser(user.failed + 1, MaxFailed)
        /\ user'.locked = (user.locked \/ user.failed + 1 >= MaxFailed)
        /\ strikes' = strikes /\ req[r].at = "wrong" /\ req'[r].at = "idle"
        /\ \A q \in Requests \ {r} : req'[q] = req[q]
    BY <1>1, <1>8, RequestMoves DEF RecordFailed, AccountRows
  <2>2. Cardinality(AtPlace("checking")') = C
    BY <2>1, PlacesMove
  <2>3. Cardinality(AtPlace("wrong")') = W - 1 /\ W >= 1
    BY <2>1, PlacesMove
  <2>4. CASE user.locked
    BY <1>3, <2>1, <2>2, <2>4 DEF StrikesCounted
  <2>5. CASE ~user.locked /\ user.failed + 1 >= MaxFailed
    <3>1. user'.locked
      BY <2>1, <2>5
    <3>2. strikes <= W + MaxFailed - 1
      BY <1>1, <1>2, <1>3, <2>5
    <3>3. QED
      BY <1>1, <1>2, <2>1, <2>2, <3>1, <3>2 DEF StrikesCounted
  <2>6. CASE ~user.locked /\ user.failed + 1 < MaxFailed
    <3>1. ~(user.failed + 1 >= MaxFailed)
      BY <1>1, <2>6
    <3>2. ~user'.locked
      BY <2>1, <2>6, <3>1
    <3>3. user'.failed = user.failed + 1
      BY <1>1, <2>1, <2>6 DEF Lesser
    <3>4. QED
      BY <1>1, <1>2, <1>3, <2>1, <2>3, <2>6, <3>2, <3>3 DEF StrikesCounted
  <2>7. QED
    BY <1>1, <2>4, <2>5, <2>6
<1>9. ASSUME NEW r \in Requests, ClearFailed(r) PROVE StrikesCounted'
  <2>1. /\ req[r].at = "right" /\ req'[r].at = "idle" /\ \A q \in Requests \ {r} : req'[q] = req[q]
        /\ \/ user'.failed = 0 /\ ~user'.locked /\ strikes' = 0
           \/ user' = user /\ strikes' = strikes
    BY <1>1, <1>9, RequestMoves DEF ClearFailed, AccountRows
  <2>2. Cardinality(AtPlace("wrong")') = W
    BY <2>1, PlacesMove
  <2>3. CASE user'.failed = 0 /\ ~user'.locked /\ strikes' = 0
    BY <1>1, <1>2, <2>2, <2>3 DEF StrikesCounted
  <2>4. CASE user' = user /\ strikes' = strikes
    BY <2>1, <2>4, StrikesStand
  <2>5. QED
    BY <2>1, <2>3, <2>4
<1>10. ASSUME NEW r \in Requests, LinkSteps(r) PROVE StrikesCounted'
  <2>1. /\ req[r].at \notin {"checking", "wrong"} /\ req'[r].at \notin {"checking", "wrong"}
        /\ \A q \in Requests \ {r} : req'[q] = req[q]
    BY <1>10, LinkMoves
  <2>2. CASE ResetCommits(r)
    <3>1. user'.failed = 0 /\ ~user'.locked /\ strikes' = 0
      BY <1>1, <2>2 DEF ResetCommits, AccountRows
    <3>2. Cardinality(AtPlace("wrong")') = W
      BY <2>1, PlacesMove
    <3>3. QED
      BY <1>1, <1>2, <3>1, <3>2 DEF StrikesCounted
  <2>3. CASE ~ResetCommits(r)
    <3>1. user' = user /\ strikes' = strikes
      BY <1>10, <2>3 DEF LinkSteps, AskForLink, BurnOld, AskDies, IssueLink, ClaimLink,
           ChangePassword, BurnOthers, ResetFails
    <3>2. QED
      BY <2>1, <3>1, StrikesStand
  <2>4. QED
    BY <2>2, <2>3
<1>11. QED
  BY <1>4, <1>5, <1>6, <1>7, <1>8, <1>9, <1>10 DEF AccountsNext, LoginSteps

-----------------------------------------------------------------------------
(* The links.                                                                *)

LEMMA LinksStep ==
  ASSUME AccountTypes, LinksBurnt, AccountsNext
  PROVE  LinksBurnt'
<1> USE DEF RequestPlaces, LinksBurnt, Asking, LinkLive
<1>1. req \in [Requests -> AccountRequests] /\ link \in [Links -> {"unissued", "live", "used"}]
  BY DEF AccountTypes
<1>2. ASSUME NEW r \in Requests, \A q \in Requests \ {r} : req'[q] = req[q],
             req'[r].at \notin {"burningOld", "asking"}, crossed' = crossed,
             \A k \in Links : link'[k] = "live" => link[k] = "live"
      PROVE  LinksBurnt'
  BY <1>2
<1>3. CASE LockEnds
  BY <1>3 DEF LockEnds
<1>4. ASSUME NEW r \in Requests, CodeSteps(r) PROVE LinksBurnt'
  BY <1>2, <1>4, RequestMoves DEF CodeSteps, SignupRead, SignupInsert, ResendRead, ResendWrite,
       VerifyRead, ClaimAttempt, CompareCode, Verified
<1>5. ASSUME NEW r \in Requests, LoginSteps(r) PROVE LinksBurnt'
  BY <1>2, <1>5, RequestMoves DEF LoginSteps, LoginRead, ComparePassword, RecordFailed, ClearFailed
<1>6. ASSUME NEW r \in Requests, AskForLink(r) PROVE LinksBurnt'
  <2>1. /\ req'[r].at = "burningOld" /\ req'[r].rows = {k \in Links : link[k] = "live"}
        /\ \A q \in Requests \ {r} : req'[q] = req[q]
        /\ link' = link /\ (~crossed' => ~crossed /\ \A q \in Requests : ~Asking(q))
    BY <1>1, <1>6 DEF AskForLink, AccountRequests
  <2>2. QED
    BY <2>1
<1>7. ASSUME NEW r \in Requests, BurnOld(r) PROVE LinksBurnt'
  <2>1. /\ req[r].at = "burningOld" /\ req'[r].at = "asking" /\ crossed' = crossed
        /\ \A q \in Requests \ {r} : req'[q] = req[q]
        /\ \A k \in Links : link'[k] = IF k \in req[r].rows THEN "used" ELSE link[k]
    BY <1>1, <1>7 DEF BurnOld, AccountRequests
  <2>2. QED
    BY <2>1
<1>8. ASSUME NEW r \in Requests, NEW k \in Links, IssueLink(r, k) PROVE LinksBurnt'
  <2>1. /\ req[r].at = "asking" /\ req'[r].at = "idle" /\ crossed' = crossed
        /\ \A q \in Requests \ {r} : req'[q] = req[q]
        /\ \A j \in Links \ {k} : link'[j] = link[j]
    BY <1>1, <1>8, RequestMoves DEF IssueLink
  <2>2. ~crossed => \A q \in Requests \ {r} : ~Asking(q)
    BY <2>1
  <2>3. ~crossed => \A j \in Links : link[j] # "live"
    BY <2>1
  <2>4. QED
    BY <2>1, <2>2, <2>3
<1>9. ASSUME NEW r \in Requests, NEW k \in Links, ClaimLink(r, k) PROVE LinksBurnt'
  <2>1. /\ req'[r].at = "claimed" /\ crossed' = crossed /\ link' = link
        /\ \A q \in Requests \ {r} : req'[q] = req[q]
    BY <1>1, <1>9, NoRequestType DEF ClaimLink, AccountRequests
  <2>2. QED
    BY <1>2, <2>1
<1>10. ASSUME NEW r \in Requests, AskDies(r) \/ ChangePassword(r) \/ ResetFails(r) PROVE LinksBurnt'
  BY <1>2, <1>10, RequestMoves DEF AskDies, ChangePassword, ResetFails
<1>11. ASSUME NEW r \in Requests, BurnOthers(r) PROVE LinksBurnt'
  <2>1. /\ req'[r].at = "burning" /\ crossed' = crossed /\ link' = link
        /\ \A q \in Requests \ {r} : req'[q] = req[q]
    BY <1>1, <1>11 DEF BurnOthers, AccountRequests
  <2>2. QED
    BY <1>2, <2>1
<1>12. ASSUME NEW r \in Requests, ResetCommits(r) PROVE LinksBurnt'
  BY <1>1, <1>2, <1>12, RequestMoves DEF ResetCommits
<1>13. QED
  BY <1>3, <1>4, <1>5, <1>6, <1>7, <1>8, <1>9, <1>10, <1>11, <1>12 DEF AccountsNext, LinkSteps

-----------------------------------------------------------------------------
LEMMA AccountsStepInv == AccountsInv /\ [AccountsNext]_accountVars => AccountsInv'
<1> SUFFICES ASSUME AccountsInv, [AccountsNext]_accountVars PROVE AccountsInv'
  OBVIOUS
<1>1. CASE UNCHANGED accountVars
  <2>1. \A c, w : Comparing(c)' = Comparing(c) /\ AtPlace(w)' = AtPlace(w)
    BY <1>1 DEF accountVars, Comparing, AtPlace
  <2>2. AttemptsClaimed' /\ StrikesCounted'
    BY <1>1, <2>1 DEF accountVars, AccountsInv, AttemptsClaimed, StrikesCounted, Comparing, AtPlace
  <2>3. QED
    BY <1>1, <2>2 DEF accountVars, AccountsInv, AccountTypes, LinksBurnt, Asking, LinkLive
<1>2. CASE AccountsNext
  <2>1. AccountTypes'
    BY <1>2, CodeTypes, LoginTypes, LinkTypes DEF AccountsInv, AccountsNext
  <2>2. AttemptsClaimed'
    BY <1>2, CodeAttempts, OtherAttempts DEF AccountsInv, AccountsNext
  <2>3. QED
    BY <1>2, <2>1, <2>2, StrikesStep, LinksStep DEF AccountsInv
<1>3. QED
  BY <1>1, <1>2

(* Comparisons are claimed, strikes are counted or about to be, and earlier  *)
(* links are burnt before a new one is issued: the inductive invariant.      *)
THEOREM AccountsCorrect == AccountsSpec => []AccountsInv
  BY AccountsInitInv, AccountsStepInv, PTL DEF AccountsSpec

(* However many requests guess at once, a code is compared no more often     *)
(* than it allows, and no more wrong passwords come through than a lockout   *)
(* allows and were past the check when it was set.                           *)
THEOREM GuessesAreBounded == AccountsSpec => []GuessesBounded
<1>1. AccountsInv => GuessesBounded
  <2> SUFFICES ASSUME AccountsInv PROVE GuessesBounded
    OBVIOUS
  <2>1. \A c \in DOMAIN guesses : guesses[c] <= MaxAttempts
    BY DEF AccountsInv, AccountTypes, AttemptsClaimed
  <2>2. /\ user.failed \in Nat /\ user.failed <= MaxFailed /\ strikes \in Nat
        /\ MaxFailed \in Nat /\ MaxFailed >= 1
    BY AccountsAssumption DEF AccountsInv, AccountTypes, AccountRows, FailedCounts
  <2>3. strikes <= MaxFailed + Cardinality(Requests) - 1
    BY <2>2, PlacesApart DEF AccountsInv, StrikesCounted
  <2>4. QED
    BY <2>1, <2>3 DEF GuessesBounded
<1>2. QED
  BY <1>1, AccountsCorrect, PTL

(* A user never has two live reset links unless two requests for one         *)
(* overlapped.                                                               *)
THEOREM OneLinkLives == AccountsSpec => []OneLiveLink
<1>1. AccountsInv => OneLiveLink
  BY DEF AccountsInv, LinksBurnt, OneLiveLink
<1>2. QED
  BY <1>1, AccountsCorrect, PTL
-----------------------------------------------------------------------------
(***************************************************************************)
(* Refresh tokens: one live token per sign-in, and a reuse is explained.   *)
(***************************************************************************)

Token == [family : SignIns, used : BOOLEAN, revoked : BOOLEAN,
          born : 0..MaxVersion, signed : 0..MaxVersion]

-----------------------------------------------------------------------------
(* What a statement does to refresh_tokens                                 *)

LEMMA IdsAre == TypeOK => Ids = 1 .. Len(token) /\ Len(token) \in Nat /\ \A t \in Ids : token[t] \in Token
<1> SUFFICES ASSUME TypeOK
             PROVE  Ids = 1 .. Len(token) /\ Len(token) \in Nat /\ \A t \in Ids : token[t] \in Token
  OBVIOUS
<1>1. token \in Seq(Token)
  BY DEF TypeOK, Token
<1>2. QED
  BY <1>1 DEF Ids

(* An INSERT leaves the rows there are. *)
LEMMA Inserted ==
  ASSUME TypeOK, NEW f \in SignIns, NEW v \in 0..MaxVersion, Len(token) < MaxTokens,
         token' = Append(token, Issued(f, v, v))
  PROVE  /\ token' \in Seq(Token) /\ Len(token') = Len(token) + 1 /\ Len(token') <= MaxTokens
         /\ Ids' = Ids \cup {Len(token) + 1} /\ Len(token) + 1 \notin Ids
         /\ \A t \in Ids : token'[t] = token[t]
         /\ token'[Len(token) + 1] = Issued(f, v, v)
<1>1. Issued(f, v, v) \in Token
  BY DEF Issued, Token, TypeOK
<1>2. token \in Seq(Token) /\ Len(token) \in Nat
  BY DEF TypeOK, Token
<1>3. QED
  BY <1>1, <1>2, SessionsAssumption DEF Ids

(* A revocation changes what is live, and nothing else that is read here. *)
LEMMA RevokedRows ==
  ASSUME TypeOK, NEW rows, token' = Revoked(rows)
  PROVE  /\ token' \in Seq(Token) /\ Len(token') = Len(token) /\ Ids' = Ids
         /\ \A t \in Ids : /\ token'[t].family = token[t].family
                           /\ token'[t].born = token[t].born
                           /\ Live(t)' <=> Live(t) /\ t \notin rows
<1> DEFINE New(t) == IF t \in rows THEN [token[t] EXCEPT !.revoked = TRUE] ELSE token[t]
<1>1. token \in Seq(Token) /\ Len(token) \in Nat /\ Ids = 1 .. Len(token)
  BY IdsAre DEF TypeOK, Token
<1>2. \A t \in Ids : token[t] \in Token
  BY <1>1
<1>3. \A t \in Ids : New(t) \in Token
  BY <1>2 DEF Token
<1>4. token' = [t \in 1 .. Len(token) |-> New(t)]
  BY <1>1 DEF Revoked
<1>5. token' \in Seq(Token) /\ Len(token') = Len(token) /\ Ids' = Ids
  <2> HIDE DEF New
  <2> QED
    BY <1>1, <1>3, <1>4 DEF Ids
<1>6. ASSUME NEW t \in Ids
      PROVE  /\ token'[t].family = token[t].family
             /\ token'[t].born = token[t].born
             /\ Live(t)' <=> Live(t) /\ t \notin rows
  <2>1. token'[t] = New(t)
    BY <1>1, <1>4
  <2>2. CASE t \in rows
    BY <1>2, <2>1, <2>2 DEF Token, Live
  <2>3. CASE t \notin rows
    BY <1>2, <2>1, <2>3 DEF Live
  <2>4. QED
    BY <2>2, <2>3
<1>7. QED
  BY <1>5, <1>6

(* A rotation marks one row used and inserts another of its family. *)
LEMMA RotatedRow ==
  ASSUME TypeOK, NEW c \in Callers, RotateCommit(c), refresh[c].presented \in Ids
  PROVE  /\ token' \in Seq(Token) /\ Len(token') = Len(token) + 1 /\ Len(token') <= MaxTokens
         /\ Ids' = Ids \cup {Len(token) + 1} /\ Len(token) + 1 \notin Ids
         /\ \A t \in Ids : /\ token'[t].family = token[t].family
                           /\ token'[t].born = token[t].born
                           /\ Live(t)' <=> Live(t) /\ t # refresh[c].presented
         /\ token'[Len(token) + 1].family = token[refresh[c].presented].family
         /\ token'[Len(token) + 1].born = token[refresh[c].presented].born
<1> DEFINE p == refresh[c].presented
           used == [token EXCEPT ![p].used = TRUE]
           new == Issued(token[p].family, token[p].born, refresh[c].seen)
<1>1. token \in Seq(Token) /\ Len(token) \in Nat /\ Ids = 1 .. Len(token) /\ token[p] \in Token
  BY IdsAre DEF TypeOK, Token
<1>2. [token[p] EXCEPT !.used = TRUE] \in Token
  BY <1>1 DEF Token
<1>3. used \in Seq(Token) /\ Len(used) = Len(token)
  BY <1>1, <1>2
<1>4. refresh[c].seen \in 0..MaxVersion
  BY DEF TypeOK
<1>5. new \in Token
  BY <1>1, <1>4 DEF Token, Issued, TypeOK
<1>6. token' = Append(used, new) /\ Len(token) < MaxTokens
  BY DEF RotateCommit
<1>7. /\ token' \in Seq(Token) /\ Len(token') = Len(token) + 1 /\ Ids' = Ids \cup {Len(token) + 1}
      /\ \A t \in Ids : token'[t] = used[t]
      /\ token'[Len(token) + 1] = new
  <2> HIDE DEF used, new
  <2> QED
    BY <1>1, <1>3, <1>5, <1>6 DEF Ids
<1>8. ASSUME NEW t \in Ids
      PROVE  /\ token'[t].family = token[t].family
             /\ token'[t].born = token[t].born
             /\ Live(t)' <=> Live(t) /\ t # p
  <2>1. CASE t = p
    <3>1. token'[t] = [token[p] EXCEPT !.used = TRUE]
      <4>1. DOMAIN token = 1 .. Len(token) /\ t \in DOMAIN token
        BY <1>1
      <4>2. used[t] = [token[p] EXCEPT !.used = TRUE]
        BY <2>1, <4>1
      <4>3. token'[t] = used[t]
        BY <1>7
      <4> HIDE DEF used
      <4>4. QED
        BY <4>2, <4>3
    <3>2. token'[t].used = TRUE /\ token'[t].family = token[p].family /\ token'[t].born = token[p].born
      BY <1>1, <3>1 DEF Token
    <3>3. ~Live(t)'
      BY <3>2 DEF Live
    <3>4. QED
      BY <2>1, <3>2, <3>3
  <2>2. CASE t # p
    <3>1. token'[t] = token[t]
      BY <1>1, <1>7, <2>2
    <3>2. QED
      BY <2>2, <3>1 DEF Live
  <2>3. QED
    BY <2>1, <2>2
<1>9. QED
  BY <1>1, <1>6, <1>7, <1>8, SessionsAssumption DEF Issued
-----------------------------------------------------------------------------
(* The invariant                                                           *)

LEMMA SessionsInitInv == SessionsInit => SessionsInv
<1> SUFFICES ASSUME SessionsInit PROVE SessionsInv
  OBVIOUS
<1> USE SessionsAssumption DEF SessionsInit, At
<1>1. TypeOK
  BY DEF TypeOK, Sweepers, NoSweep
<1>2. Ids = {}
  BY DEF Ids
<1>3. QED
  BY <1>1, <1>2
     DEF SessionsInv, OneLivePerFamily, LockedIsLive, FamilyBegins, Known, WaitingHolds, SweepCovers,
         Sweepers, NoSweep

(* The types of what is not a sequence, a record at a time.                  *)
SignInRec  == [at : {"new", "checked", "issued"}, seen : 0..MaxVersion]
DeviceRec  == [user : SignIns \cup {None}, held : 0..MaxTokens,
               doing : {"nothing", "signingOut", "leaving", "everywhere"}, sent : 0..MaxTokens]
RefreshAt  == {"idle", "sent", "locked", "rotated", "reuse", "refused", "failed"}
RefreshRec == [at : RefreshAt, presented : 0..MaxTokens, seen : 0..MaxVersion,
               result : 0..MaxTokens]
SweepAt    == {"none", "owed", "waiting", "done", "died"}
SweepRec   == [at : SweepAt, rows : SUBSET (1..MaxTokens), for : 0..MaxVersion,
               evaded : SUBSET SignIns]

Rest ==
  /\ phones \subseteq Devices /\ version \in 0..MaxVersion
  /\ signIn \in [SignIns -> SignInRec] /\ device \in [Devices -> DeviceRec]
  /\ refresh \in [Callers -> RefreshRec] /\ sweep \in [Sweepers -> SweepRec]
  /\ disturbed \subseteq Devices

LEMMA TypeParts ==
  TypeOK <=> token \in Seq(Token) /\ Len(token) <= MaxTokens /\ Rest
  BY DEF TypeOK, Rest, Token, SignInRec, DeviceRec, RefreshRec, RefreshAt, SweepRec, SweepAt

LEMMA RefreshRecs ==
  ASSUME NEW r \in RefreshRec, NEW w \in RefreshAt
  PROVE  /\ At(w) \in RefreshRec /\ [r EXCEPT !.at = w] \in RefreshRec
         /\ \A t \in 0..MaxTokens : /\ [At(w) EXCEPT !.presented = t] \in RefreshRec
                                  /\ [At(w) EXCEPT !.result = t] \in RefreshRec
         /\ \A v \in 0..MaxVersion : [[r EXCEPT !.at = w] EXCEPT !.seen = v] \in RefreshRec
<1>1. 0 \in 0..MaxTokens /\ 0 \in 0..MaxVersion
  BY SessionsAssumption
<1> USE <1>1 DEF RefreshRec
<1>2. At(w) \in RefreshRec /\ [r EXCEPT !.at = w] \in RefreshRec
  BY DEF At
<1>3. ASSUME NEW t \in 0..MaxTokens
      PROVE  /\ [At(w) EXCEPT !.presented = t] \in RefreshRec
             /\ [At(w) EXCEPT !.result = t] \in RefreshRec
  BY DEF At
<1>4. ASSUME NEW v \in 0..MaxVersion PROVE [[r EXCEPT !.at = w] EXCEPT !.seen = v] \in RefreshRec
  BY <1>2
<1>5. QED
  BY <1>2, <1>3, <1>4

LEMMA DeviceRecs ==
  ASSUME NEW r \in DeviceRec
  PROVE  /\ \A t \in 0..MaxTokens : [r EXCEPT !.held = t] \in DeviceRec
         /\ \A w \in {"nothing", "signingOut", "leaving", "everywhere"} :
              /\ [r EXCEPT !.doing = w] \in DeviceRec
              /\ \A t \in 0..MaxTokens : [[r EXCEPT !.doing = w] EXCEPT !.sent = t] \in DeviceRec
         /\ r.held \in 0..MaxTokens /\ 0 \in 0..MaxTokens
         /\ \A s \in SignIns \cup {None}, t \in 0..MaxTokens :
              [user |-> s, held |-> t, doing |-> "nothing", sent |-> 0] \in DeviceRec
<1>1. 0 \in 0..MaxTokens
  BY SessionsAssumption
<1>2. ASSUME NEW t \in 0..MaxTokens, NEW s \in SignIns \cup {None}
      PROVE  /\ [r EXCEPT !.held = t] \in DeviceRec
             /\ [user |-> s, held |-> t, doing |-> "nothing", sent |-> 0] \in DeviceRec
  BY <1>1 DEF DeviceRec
<1>3. ASSUME NEW w \in {"nothing", "signingOut", "leaving", "everywhere"}
      PROVE  [r EXCEPT !.doing = w] \in DeviceRec
  BY DEF DeviceRec
<1>4. ASSUME NEW w \in {"nothing", "signingOut", "leaving", "everywhere"}, NEW t \in 0..MaxTokens
      PROVE  [[r EXCEPT !.doing = w] EXCEPT !.sent = t] \in DeviceRec
  BY <1>3 DEF DeviceRec
<1>5. r.held \in 0..MaxTokens
  BY DEF DeviceRec
<1>6. QED
  BY <1>1, <1>2, <1>3, <1>4, <1>5

LEMMA SweepRecs ==
  ASSUME NEW r \in SweepRec, NEW w \in SweepAt
  PROVE  /\ NoSweep \in SweepRec /\ [r EXCEPT !.at = w] \in SweepRec
         /\ \A rows \in SUBSET (1..MaxTokens) : [[r EXCEPT !.at = w] EXCEPT !.rows = rows] \in SweepRec
         /\ \A v \in 0..MaxVersion : [[r EXCEPT !.at = w] EXCEPT !.for = v] \in SweepRec
         /\ \A f \in SignIns : [r EXCEPT !.evaded = @ \cup {f}] \in SweepRec
<1>1. 0 \in 0..MaxVersion
  BY SessionsAssumption
<1>2. NoSweep \in SweepRec
  BY <1>1 DEF NoSweep, SweepRec, SweepAt
<1>3. [r EXCEPT !.at = w] \in SweepRec
  BY DEF SweepRec
<1>4. \A rows \in SUBSET (1..MaxTokens) : [[r EXCEPT !.at = w] EXCEPT !.rows = rows] \in SweepRec
  BY <1>3 DEF SweepRec
<1>5. \A v \in 0..MaxVersion : [[r EXCEPT !.at = w] EXCEPT !.for = v] \in SweepRec
  BY <1>3 DEF SweepRec
<1>6. \A f \in SignIns : [r EXCEPT !.evaded = @ \cup {f}] \in SweepRec
  BY DEF SweepRec
<1>7. QED
  BY <1>2, <1>3, <1>4, <1>5, <1>6

(* A token inserted past a sweep only adds to what evaded it.                *)
LEMMA EvadesDoes ==
  ASSUME Rest, NEW f \in SignIns, NEW v, NEW where, Evades(f, v, where)
  PROVE  /\ sweep' \in [Sweepers -> SweepRec]
         /\ \A x \in Sweepers :
              /\ sweep'[x].at = sweep[x].at /\ sweep'[x].rows = sweep[x].rows
              /\ sweep'[x].for = sweep[x].for /\ sweep[x].evaded \subseteq sweep'[x].evaded
              /\ sweep[x].at \in where /\ v < sweep[x].for => f \in sweep'[x].evaded
<1> DEFINE New(x) == IF sweep[x].at \in where /\ v < sweep[x].for
                     THEN [sweep[x] EXCEPT !.evaded = @ \cup {f}] ELSE sweep[x]
<1>1. sweep' = [x \in Sweepers |-> New(x)]
  BY DEF Evades
<1>2. ASSUME NEW x \in Sweepers
      PROVE  /\ New(x) \in SweepRec
             /\ New(x).at = sweep[x].at /\ New(x).rows = sweep[x].rows
             /\ New(x).for = sweep[x].for /\ sweep[x].evaded \subseteq New(x).evaded
             /\ sweep[x].at \in where /\ v < sweep[x].for => f \in New(x).evaded
  <2>1. sweep[x] \in SweepRec
    BY DEF Rest
  <2>2. [sweep[x] EXCEPT !.evaded = @ \cup {f}] \in SweepRec
    BY <2>1 DEF SweepRec
  <2>3. CASE sweep[x].at \in where /\ v < sweep[x].for
    BY <2>1, <2>2, <2>3 DEF SweepRec
  <2>4. CASE ~(sweep[x].at \in where /\ v < sweep[x].for)
    BY <2>1, <2>4
  <2>5. QED
    BY <2>3, <2>4
<1> HIDE DEF New
<1>3. QED
  BY <1>1, <1>2

(* One step per actor. *)
LEMMA RestStep == SessionsInv /\ [SessionsNext]_sessionVars => Rest'
<1> SUFFICES ASSUME SessionsInv, [SessionsNext]_sessionVars PROVE Rest'
  OBVIOUS
<1>1. TypeOK /\ Rest
  BY TypeParts DEF SessionsInv
<1>2. Len(token) \in Nat /\ Ids = 1 .. Len(token) /\ Len(token) <= MaxTokens
  BY <1>1, IdsAre DEF TypeOK
<1>3. 0 \in 0..MaxTokens
  BY SessionsAssumption
<1>12. ASSUME NEW x \in Sweepers, Bump(x, "owed")
       PROVE  version' \in 0..MaxVersion /\ sweep' \in [Sweepers -> SweepRec]
  <2>1. version' = version + 1 /\ version + 1 \in 0..MaxVersion
    BY <1>1, <1>12, SessionsAssumption DEF Rest, Bump
  <2>2. sweep[x] \in SweepRec /\ "owed" \in SweepAt
    BY <1>1 DEF Rest, SweepAt
  <2>3. [[sweep[x] EXCEPT !.at = "owed"] EXCEPT !.for = version + 1] \in SweepRec
    BY <2>1, <2>2, SweepRecs
  <2>4. sweep' = [sweep EXCEPT ![x] = [[sweep[x] EXCEPT !.at = "owed"] EXCEPT !.for = version + 1]]
    BY <1>1, <1>12 DEF Bump, Rest
  <2>5. QED
    BY <1>1, <2>1, <2>3, <2>4 DEF Rest
<1> USE SessionsAssumption DEF Rest
<1>4. ASSUME NEW c \in Callers, ClientMoves(c) \/ ServerMoves(c) \/ Faults(c)
      PROVE  refresh' \in [Callers -> RefreshRec]
  <2>1. refresh[c] \in RefreshRec /\ refresh[c].presented \in 0..MaxTokens
    BY <1>1 DEF RefreshRec
  <2>2. device[DeviceOf[c]].held \in 0..MaxTokens
    BY <1>1 DEF DeviceRec
  <2>3. \E r \in RefreshRec : refresh' = [refresh EXCEPT ![c] = r]
    <3>1. CASE StartRefresh(c)
      BY <2>1, <2>2, <3>1, RefreshRecs DEF StartRefresh, RefreshAt
    <3>2. CASE RefreshSucceeds(c) \/ RefreshRefused(c) \/ RefreshUnanswered(c) \/ AppRestarts(c)
               \/ RotateRollsBack(c)
      BY <2>1, <3>2, RefreshRecs
         DEF RefreshSucceeds, RefreshRefused, RefreshUnanswered, AppRestarts, RotateRollsBack, Idle, RefreshAt
    <3>3. CASE RotateRead(c)
      BY <1>1, <2>1, <3>3, RefreshRecs DEF RotateRead, RefreshAt
    <3>4. CASE RotateCommit(c)
      <4>1. Len(token) + 1 \in 0..MaxTokens
        BY <1>2, <3>4 DEF RotateCommit
      <4>2. QED
        BY <2>1, <3>4, <4>1, RefreshRecs DEF RotateCommit, RefreshAt
    <3>5. QED
      BY <1>4, <3>1, <3>2, <3>3, <3>4 DEF ClientMoves, ServerMoves, Faults
  <2>4. QED
    BY <1>1, <2>3
<1>5. ASSUME NEW c \in Callers, ClientMoves(c) \/ ServerMoves(c) \/ Faults(c) PROVE Rest'
  <2>1. refresh' \in [Callers -> RefreshRec]
    BY <1>4, <1>5
  <2>2. DeviceOf[c] \in Devices
    OBVIOUS
  <2>3. device' = device \/ \E t \in 0..MaxTokens : device' = [device EXCEPT ![DeviceOf[c]].held = t]
    <3>1. refresh[c].result \in 0..MaxTokens
      BY <1>1 DEF RefreshRec
    <3>2. QED
      BY <1>3, <1>5, <3>1
         DEF ClientMoves, StartRefresh, RefreshSucceeds, RefreshRefused, ServerMoves, RotateRead,
             RotateCommit, Faults, RefreshUnanswered, AppRestarts, RotateRollsBack
  <2>4. device' \in [Devices -> DeviceRec]
    <3>1. device[DeviceOf[c]] \in DeviceRec
      BY <1>1, <2>2
    <3>2. \A t \in 0..MaxTokens : [device[DeviceOf[c]] EXCEPT !.held = t] \in DeviceRec
      BY <3>1, DeviceRecs
    <3>3. QED
      BY <1>1, <2>2, <2>3, <3>2
  <2>5. ASSUME ~RotateCommit(c) PROVE sweep' \in [Sweepers -> SweepRec]
    <3>1. c \in Sweepers /\ [sweep[c] EXCEPT !.at = "owed"] \in SweepRec
      BY <1>1, SweepRecs DEF Sweepers, SweepAt
    <3>2. sweep' = sweep \/ sweep' = [sweep EXCEPT ![c] = [sweep[c] EXCEPT !.at = "owed"]]
      BY <1>5, <2>5
         DEF ClientMoves, StartRefresh, RefreshSucceeds, RefreshRefused, ServerMoves, RotateRead,
             SweepTo, Faults, RefreshUnanswered, AppRestarts, RotateRollsBack
    <3>3. PICK r \in SweepRec : sweep' = sweep \/ sweep' = [sweep EXCEPT ![c] = r]
      BY <3>1, <3>2
    <3>4. QED
      BY <1>1, <3>1, <3>3
  <2>9. ASSUME RotateCommit(c) PROVE sweep' \in [Sweepers -> SweepRec]
    <3>1. token[refresh[c].presented].family \in SignIns
      BY <1>1, <2>9, IdsAre DEF RotateCommit, SessionsInv, Known, Token
    <3>2. Evades(token[refresh[c].presented].family, token[refresh[c].presented].born, {"waiting"})
      BY <2>9 DEF RotateCommit
    <3>3. QED
      BY <1>1, <3>1, <3>2, EvadesDoes
  <2>6. sweep' \in [Sweepers -> SweepRec]
    BY <2>5, <2>9
  <2>7. UNCHANGED <<phones, version, signIn>> /\ disturbed' \subseteq Devices
    BY <1>1, <1>5, <2>2
       DEF ClientMoves, StartRefresh, RefreshSucceeds, RefreshRefused, ServerMoves, RotateRead,
           RotateCommit, Faults, RefreshUnanswered, AppRestarts, RotateRollsBack
  <2>8. QED
    BY <1>1, <2>1, <2>4, <2>6, <2>7
<1>6. ASSUME NEW s \in SignIns, CheckPassword(s) \/ IssueSession(s) \/ StaysSignedIn(s)
      PROVE  Rest'
  <2>1. signIn' \in [SignIns -> SignInRec]
    <3>1. signIn[s] \in SignInRec /\ 0 \in 0..MaxVersion
      BY <1>1, SessionsAssumption
    <3>2. \E r \in SignInRec : signIn' = [signIn EXCEPT ![s] = r]
      <4>1. CASE CheckPassword(s)
        BY <1>1, <4>1 DEF CheckPassword, SignInRec
      <4>2. CASE IssueSession(s)
        BY <3>1, <4>2 DEF IssueSession, SignInRec
      <4>3. CASE StaysSignedIn(s)
        BY <3>1, <4>3 DEF StaysSignedIn, SignInRec
      <4>4. QED
        BY <1>6, <4>1, <4>2, <4>3
    <3>3. QED
      BY <1>1, <3>2
  <2>2. device' = device \/ (Adopt(From[s], s) /\ Len(token) < MaxTokens)
    BY <1>6 DEF CheckPassword, IssueSession, StaysSignedIn
  <2>3. device' \in [Devices -> DeviceRec]
    <3>1. CASE Adopt(From[s], s) /\ Len(token) < MaxTokens
      <4>1. Len(token) + 1 \in 0..MaxTokens
        BY <1>2, <3>1
      <4>2. From[s] \in Devices
        OBVIOUS
      <4>3. [user |-> s, held |-> Len(token) + 1, doing |-> "nothing", sent |-> 0] \in DeviceRec
        BY <4>1 DEF DeviceRec
      <4>4. QED
        BY <1>1, <3>1, <4>2, <4>3 DEF Adopt
    <3>2. QED
      BY <1>1, <2>2, <3>1
  <2>4. UNCHANGED <<phones, version, refresh, disturbed>>
    BY <1>6 DEF CheckPassword, IssueSession, StaysSignedIn
  <2>6. sweep' \in [Sweepers -> SweepRec]
    BY <1>1, <1>6, EvadesDoes DEF CheckPassword, IssueSession, StaysSignedIn
  <2>5. QED
    BY <1>1, <2>1, <2>3, <2>4, <2>6
<1>7. ASSUME NEW x \in Sweepers, SweepAtOnce(x) \/ SweepWaits(x) \/ SweepEnds(x) \/ SweepDies(x)
      PROVE  Rest'
  <2>1. Unrevoked(x) \in SUBSET (1..MaxTokens)
    BY <1>2 DEF Unrevoked, InReach
  <2>2. \E r \in SweepRec : sweep' = [sweep EXCEPT ![x] = r]
    <3>1. sweep[x] \in SweepRec
      BY <1>1
    <3>6. ASSUME NEW rows \in SUBSET (1..MaxTokens), NEW w \in SweepAt
          PROVE  /\ [sweep[x] EXCEPT !.at = w, !.rows = rows] \in SweepRec
                 /\ NoSweep \in SweepRec
      BY <3>1, SweepRecs
    <3>2. CASE SweepWaits(x)
      <4>1. sweep' = [sweep EXCEPT ![x] = [sweep[x] EXCEPT !.at = "waiting", !.rows = Unrevoked(x)]]
        BY <1>1, <3>2 DEF SweepWaits
      <4>2. QED
        BY <2>1, <3>6, <4>1 DEF SweepAt
    <3>3. CASE SweepAtOnce(x) \/ SweepEnds(x)
      <4>1. sweep[x].rows \in SUBSET (1..MaxTokens)
        BY <3>1 DEF SweepRec
      <4>2. PICK rows \in SUBSET (1..MaxTokens) :
              sweep' = [sweep EXCEPT ![x] = IF x \in Callers THEN NoSweep
                                            ELSE [sweep[x] EXCEPT !.at = "done", !.rows = rows]]
        BY <2>1, <3>3, <4>1 DEF SweepAtOnce, SweepEnds, Sweeps
      <4>3. QED
        BY <3>6, <4>2 DEF SweepAt
    <3>4. CASE SweepDies(x)
      BY <3>1, <3>4, SweepRecs DEF SweepDies, SweepTo, SweepAt
    <3>5. QED
      BY <1>7, <3>2, <3>3, <3>4
  <2>3. sweep' \in [Sweepers -> SweepRec]
    BY <1>1, <2>2
  <2>4. refresh' = refresh
        \/ (x \in Callers /\ \E w \in RefreshAt : refresh' = [refresh EXCEPT ![x] = At(w)])
    BY <1>7 DEF SweepWaits, SweepAtOnce, SweepEnds, Sweeps, SweepDies, RefreshAt
  <2>5. refresh' \in [Callers -> RefreshRec]
    <3>1. ASSUME x \in Callers, NEW w \in RefreshAt, refresh' = [refresh EXCEPT ![x] = At(w)]
          PROVE  refresh' \in [Callers -> RefreshRec]
      <4>1. refresh[x] \in RefreshRec
        BY <1>1, <3>1
      <4>2. At(w) \in RefreshRec
        BY <3>1, <4>1, RefreshRecs
      <4>3. QED
        BY <1>1, <3>1, <4>2
    <3>2. QED
      BY <1>1, <2>4, <3>1
  <2>6. UNCHANGED <<phones, version, signIn, device, disturbed>>
    BY <1>7 DEF SweepWaits, SweepAtOnce, SweepEnds, SweepDies
  <2>7. QED
    BY <1>1, <2>3, <2>5, <2>6
<1>8. ASSUME NEW d \in Devices, DeviceMoves(d) PROVE Rest'
  <2>1. \E r \in DeviceRec : device' = [device EXCEPT ![d] = r]
    <3>1. device[d] \in DeviceRec /\ device[d].held \in 0..MaxTokens
      BY <1>1 DEF DeviceRec
    <3>2. CASE SignOut(d) \/ RevokePresented(d)
      <4>1. PICK w \in {"signingOut", "leaving"}, t \in 0..MaxTokens :
              device' = [device EXCEPT ![d].doing = w, ![d].sent = t]
        BY <1>3, <3>1, <3>2 DEF SignOut, RevokePresented
      <4>2. device' = [device EXCEPT ![d] = [[device[d] EXCEPT !.doing = w] EXCEPT !.sent = t]]
        BY <1>1, <4>1
      <4>3. [[device[d] EXCEPT !.doing = w] EXCEPT !.sent = t] \in DeviceRec
        BY <3>1, DeviceRecs
      <4>4. QED
        BY <4>2, <4>3
    <3>3. CASE SignedOut(d)
      BY <1>3, <3>3 DEF SignedOut, DeviceRec
    <3>4. CASE LogoutEverywhere(d)
      BY <3>1, <3>4, DeviceRecs DEF LogoutEverywhere, Doing
    <3>5. QED
      BY <1>8, <3>2, <3>3, <3>4 DEF DeviceMoves
  <2>2. sweep' \in [Sweepers -> SweepRec] /\ version' \in 0..MaxVersion
    BY <1>1, <1>8, <1>12
       DEF DeviceMoves, SignOut, RevokePresented, SignedOut, LogoutEverywhere, Sweepers
  <2>3. device' \in [Devices -> DeviceRec]
    BY <1>1, <2>1
  <2>4. UNCHANGED <<phones, signIn, refresh, disturbed>>
    BY <1>8 DEF DeviceMoves, SignOut, RevokePresented, SignedOut, LogoutEverywhere
  <2>5. QED
    BY <1>1, <2>2, <2>3, <2>4
<1>9. ASSUME NEW r \in Resets, ResetPassword(r) PROVE Rest'
  BY <1>1, <1>9, <1>12 DEF ResetPassword, Sweepers
<1>10. CASE UNCHANGED sessionVars
  BY <1>1, <1>10 DEF sessionVars
<1> HIDE DEF Rest
<1>11. QED
  BY <1>5, <1>6, <1>7, <1>8, <1>9, <1>10 DEF SessionsNext

-----------------------------------------------------------------------------
(* Every step either leaves refresh_tokens alone, starts a family, rotates  *)
(* or revokes rows nobody holds; and only RotateRead takes a lock.          *)
Starts(s) ==
  /\ signIn[s].at # "issued" /\ signIn'[s].at = "issued"
  /\ Len(token) < MaxTokens
  /\ \E v \in 0..MaxVersion : /\ token' = Append(token, Issued(s, v, v))
                             /\ Evades(s, v, {"waiting", "done"})
  /\ UNCHANGED <<version, refresh>>

Revokes(rows) == token' = Revoked(rows) /\ \A t \in rows : ~Locked(t)

NoNewLock ==
  \A b \in Callers : refresh'[b].at = "locked" =>
    refresh[b].at = "locked" /\ refresh'[b].presented = refresh[b].presented

FamiliesStay == \A s \in SignIns : signIn[s].at = "issued" => signIn'[s].at = "issued"

LEMMA Kinds ==
  ASSUME SessionsInv, [SessionsNext]_sessionVars
  PROVE  /\ \/ UNCHANGED token
            \/ \E s \in SignIns : Starts(s)
            \/ \E c \in Callers : RotateCommit(c)
            \/ \E rows \in SUBSET Nat : Revokes(rows)
         /\ NoNewLock \/ \E c \in Callers : RotateRead(c)
         /\ FamiliesStay
<1> DEFINE Tokens == \/ UNCHANGED token
                     \/ \E s \in SignIns : Starts(s)
                     \/ \E c \in Callers : RotateCommit(c)
                     \/ \E rows \in SUBSET Nat : Revokes(rows)
           Goal == Tokens /\ (NoNewLock \/ \E c \in Callers : RotateRead(c)) /\ FamiliesStay
<1> SUFFICES Goal
  OBVIOUS
<1>1. TypeOK /\ Rest /\ Ids \in SUBSET Nat
  BY TypeParts, IdsAre DEF SessionsInv
<1>2. ASSUME NEW c \in Callers, ClientMoves(c) \/ ServerMoves(c) \/ Faults(c) PROVE Goal
  <2>1. FamiliesStay
    BY <1>2 DEF ClientMoves, StartRefresh, RefreshSucceeds, RefreshRefused, ServerMoves, RotateRead,
                RotateCommit, Faults, RefreshUnanswered, AppRestarts, RotateRollsBack, FamiliesStay
  <2>2. UNCHANGED token \/ RotateCommit(c)
    BY <1>2 DEF ClientMoves, StartRefresh, RefreshSucceeds, RefreshRefused, ServerMoves, RotateRead,
                Faults, RefreshUnanswered, AppRestarts, RotateRollsBack
  <2>3. RotateRead(c) \/ \E r : refresh' = [refresh EXCEPT ![c] = r] /\ r.at # "locked"
    BY <1>2 DEF ClientMoves, StartRefresh, RefreshSucceeds, RefreshRefused, ServerMoves,
                RotateCommit, Faults, RefreshUnanswered, AppRestarts, RotateRollsBack, Idle, At
  <2>4. NoNewLock \/ RotateRead(c)
    BY <1>1, <2>3 DEF Rest, NoNewLock
  <2>5. QED
    BY <2>1, <2>2, <2>4
<1>3. ASSUME NEW s \in SignIns, CheckPassword(s) \/ IssueSession(s) \/ StaysSignedIn(s)
      PROVE  Goal
  <2>1. UNCHANGED token \/ Starts(s)
    <3>1. CASE CheckPassword(s)
      BY <3>1 DEF CheckPassword
    <3>2. CASE IssueSession(s)
      <4>1. signIn[s].seen \in 0..MaxVersion /\ signIn'[s].at = "issued"
        BY <1>1, <3>2 DEF IssueSession, Rest, SignInRec
      <4>2. QED
        BY <3>2, <4>1 DEF IssueSession, Starts
    <3>3. CASE StaysSignedIn(s)
      <4>1. sweep[From[s]].for \in 0..MaxVersion /\ signIn'[s].at = "issued"
        BY <1>1, <3>3, SessionsAssumption DEF StaysSignedIn, Rest, SignInRec, SweepRec, Sweepers
      <4>2. QED
        BY <3>3, <4>1 DEF StaysSignedIn, Starts
    <3>4. QED
      BY <1>3, <3>1, <3>2, <3>3
  <2>2. FamiliesStay
    BY <1>1, <1>3 DEF CheckPassword, IssueSession, StaysSignedIn, FamiliesStay, Rest, SignInRec
  <2>3. NoNewLock
    BY <1>3 DEF CheckPassword, IssueSession, StaysSignedIn, NoNewLock
  <2>4. QED
    BY <2>1, <2>2, <2>3
<1>4. ASSUME NEW x \in Sweepers, SweepAtOnce(x) \/ SweepWaits(x) \/ SweepEnds(x) \/ SweepDies(x)
      PROVE  Goal
  <2>1. Unrevoked(x) \in SUBSET Nat /\ sweep[x].rows \in SUBSET Nat
    <3>1. Unrevoked(x) \subseteq Ids
      BY DEF Unrevoked, InReach
    <3>2. sweep[x].rows \subseteq 1..MaxTokens
      BY <1>1 DEF Rest, SweepRec
    <3>3. 1..MaxTokens \subseteq Nat
      BY SessionsAssumption
    <3>4. QED
      BY <1>1, <3>1, <3>2, <3>3
  <2>2. UNCHANGED token \/ \E rows \in SUBSET Nat : Revokes(rows)
    BY <1>4, <2>1 DEF SweepAtOnce, SweepWaits, SweepEnds, SweepDies, Sweeps, Revokes
  <2>3. refresh' = refresh \/ \E r : refresh' = [refresh EXCEPT ![x] = r] /\ r.at # "locked"
    BY <1>4 DEF SweepAtOnce, SweepWaits, SweepEnds, SweepDies, Sweeps, At
  <2>4. NoNewLock
    BY <1>1, <2>3 DEF Rest, NoNewLock
  <2>5. FamiliesStay
    BY <1>4 DEF SweepAtOnce, SweepWaits, SweepEnds, SweepDies, FamiliesStay
  <2>6. QED
    BY <2>2, <2>4, <2>5
<1>5. ASSUME NEW d \in Devices, DeviceMoves(d) PROVE Goal
  <2>1. UNCHANGED token \/ Revokes({device[d].sent})
    BY <1>5 DEF DeviceMoves, SignOut, RevokePresented, SignedOut, LogoutEverywhere, Revokes
  <2>2. {device[d].sent} \in SUBSET Nat
    BY <1>1 DEF Rest, DeviceRec
  <2>3. UNCHANGED <<refresh, signIn>>
    BY <1>5 DEF DeviceMoves, SignOut, RevokePresented, SignedOut, LogoutEverywhere
  <2>4. QED
    BY <2>1, <2>2, <2>3 DEF NoNewLock, FamiliesStay
<1>6. ASSUME NEW r \in Resets, ResetPassword(r) PROVE Goal
  BY <1>6 DEF ResetPassword, NoNewLock, FamiliesStay
<1>7. CASE UNCHANGED sessionVars
  BY <1>7 DEF sessionVars, NoNewLock, FamiliesStay
<1> HIDE DEF Goal
<1>8. QED
  BY <1>2, <1>3, <1>4, <1>5, <1>6, <1>7 DEF SessionsNext

LEMMA TypeStep == SessionsInv /\ [SessionsNext]_sessionVars => TypeOK'
<1> SUFFICES ASSUME SessionsInv, [SessionsNext]_sessionVars PROVE TypeOK'
  OBVIOUS
<1>1. TypeOK /\ Rest' /\ token \in Seq(Token) /\ Len(token) <= MaxTokens
  BY TypeParts, RestStep DEF SessionsInv
<1>2. token' \in Seq(Token) /\ Len(token') <= MaxTokens
  <2>1. ASSUME NEW c \in Callers, RotateCommit(c) PROVE refresh[c].presented \in Ids
    BY <2>1 DEF RotateCommit, SessionsInv, Known
  <2>2. QED
    BY <1>1, <2>1, Kinds, Inserted, RotatedRow, RevokedRows DEF Starts, Revokes
<1>3. QED
  BY <1>1, <1>2 DEF TypeOK, Rest, Token, SignInRec, DeviceRec, RefreshRec, RefreshAt, SweepRec, SweepAt

-----------------------------------------------------------------------------
(* The conjuncts of the invariant                                          *)

LEMMA PresentedKnown ==
  ASSUME SessionsInv, NEW c \in Callers, refresh[c].at \in {"sent", "locked", "reuse"}
  PROVE  refresh[c].presented \in Ids
  BY DEF SessionsInv, Known

(* Ids only grow, and a token keeps its family and its birth. *)
LEMMA Kept ==
  ASSUME SessionsInv, [SessionsNext]_sessionVars
  PROVE  /\ Ids \subseteq Ids'
         /\ \A t \in Ids : /\ token'[t].family = token[t].family
                           /\ token'[t].born = token[t].born
                           /\ Live(t)' => Live(t)
<1>1. TypeOK
  BY DEF SessionsInv
<1>2. CASE UNCHANGED token
  BY <1>2 DEF Ids, Live
<1>3. ASSUME NEW s \in SignIns, Starts(s)
      PROVE  Ids \subseteq Ids' /\ \A t \in Ids : token'[t] = token[t]
  BY <1>1, <1>3, Inserted DEF Starts
<1>4. ASSUME NEW c \in Callers, RotateCommit(c)
      PROVE  /\ Ids \subseteq Ids'
             /\ \A t \in Ids : /\ token'[t].family = token[t].family
                               /\ token'[t].born = token[t].born
                               /\ Live(t)' => Live(t)
  BY <1>1, <1>4, RotatedRow, PresentedKnown DEF RotateCommit
<1>5. ASSUME NEW rows \in SUBSET Nat, Revokes(rows)
      PROVE  /\ Ids \subseteq Ids'
             /\ \A t \in Ids : /\ token'[t].family = token[t].family
                               /\ token'[t].born = token[t].born
                               /\ Live(t)' => Live(t)
  BY <1>1, <1>5, RevokedRows DEF Revokes
<1>6. QED
  BY <1>2, <1>3, <1>4, <1>5, Kinds DEF Live

(* A token that is inserted begins a family, or succeeds one that was live  *)
(* and is as old.                                                          *)
LEMMA NewToken ==
  ASSUME SessionsInv, [SessionsNext]_sessionVars, NEW n \in Ids', n \notin Ids
  PROVE  /\ Ids' = Ids \cup {n} /\ version' = version
         /\ \/ \E s \in SignIns : /\ Starts(s) /\ token'[n].family = s
                                 /\ Evades(s, token'[n].born, {"waiting", "done"})
            \/ \E c \in Callers, p \in Ids : /\ RotateCommit(c) /\ refresh[c].presented = p
                                           /\ token'[n].family = token[p].family /\ ~Live(p)'
                                           /\ token'[n].born = token[p].born
<1>1. TypeOK
  BY DEF SessionsInv
<1>2. CASE UNCHANGED token
  BY <1>2 DEF Ids
<1>3. ASSUME NEW s \in SignIns, Starts(s)
      PROVE  /\ Ids' = Ids \cup {n} /\ version' = version
             /\ token'[n].family = s /\ Evades(s, token'[n].born, {"waiting", "done"})
  <2>1. PICK v \in 0..MaxVersion : /\ token' = Append(token, Issued(s, v, v))
                                  /\ Evades(s, v, {"waiting", "done"})
    BY <1>3 DEF Starts
  <2>2. Ids' = Ids \cup {n} /\ token'[n] = Issued(s, v, v)
    BY <1>1, <1>3, <2>1, Inserted DEF Starts
  <2>3. version' = version /\ Issued(s, v, v).family = s /\ Issued(s, v, v).born = v
    BY <1>3 DEF Issued, Starts
  <2>4. token'[n].born = v
    BY <2>2, <2>3
  <2>5. QED
    BY <2>1, <2>2, <2>3, <2>4
<1>4. ASSUME NEW c \in Callers, RotateCommit(c)
      PROVE  /\ Ids' = Ids \cup {n} /\ version' = version
             /\ \E p \in Ids : /\ refresh[c].presented = p
                              /\ token'[n].family = token[p].family /\ ~Live(p)'
                              /\ token'[n].born = token[p].born
  <2>1. PICK p \in Ids : refresh[c].presented = p
    BY <1>4, PresentedKnown DEF RotateCommit
  <2>2. version' = version
    BY <1>4 DEF RotateCommit
  <2>3. /\ Ids' = Ids \cup {Len(token) + 1} /\ Len(token) + 1 \notin Ids
        /\ token'[Len(token) + 1].family = token[p].family
        /\ token'[Len(token) + 1].born = token[p].born
        /\ Live(p)' <=> Live(p) /\ p # p
    BY <1>1, <1>4, <2>1, RotatedRow
  <2>4. n = Len(token) + 1
    BY <2>3
  <2>5. QED
    BY <2>1, <2>2, <2>3, <2>4
<1>5. ASSUME NEW rows \in SUBSET Nat, Revokes(rows) PROVE FALSE
  BY <1>1, <1>5, RevokedRows DEF Revokes
<1>6. QED
  BY <1>2, <1>3, <1>4, <1>5, Kinds

LEMMA FamilyStep == SessionsInv /\ [SessionsNext]_sessionVars => FamilyBegins'
<1> SUFFICES ASSUME SessionsInv, [SessionsNext]_sessionVars, NEW t \in Ids'
             PROVE  signIn'[token'[t].family].at = "issued"
  BY DEF FamilyBegins
<1>1. \A u \in Ids : token[u].family \in SignIns /\ signIn[token[u].family].at = "issued"
  BY IdsAre DEF SessionsInv, FamilyBegins, Token
<1>2. CASE t \in Ids
  BY <1>1, <1>2, Kept, Kinds DEF FamiliesStay
<1>3. CASE t \notin Ids
  BY <1>1, <1>3, NewToken, Kinds DEF FamiliesStay, Starts
<1>4. QED
  BY <1>2, <1>3

LEMMA OneLiveStep == SessionsInv /\ [SessionsNext]_sessionVars => OneLivePerFamily'
<1> SUFFICES ASSUME SessionsInv, [SessionsNext]_sessionVars, NEW t \in Ids', NEW u \in Ids',
                    token'[t].family = token'[u].family, Live(t)', Live(u)', t # u
             PROVE  FALSE
  BY DEF OneLivePerFamily
<1>1. \A v, w \in Ids : token[v].family = token[w].family /\ Live(v) /\ Live(w) => v = w
  BY DEF SessionsInv, OneLivePerFamily
<1>2. ASSUME NEW n \in Ids', NEW o \in Ids, n \notin Ids, Live(o)',
             token'[n].family = token'[o].family
      PROVE  FALSE
  <2>1. token[o].family = token'[n].family /\ Live(o)
    BY <1>2, Kept
  <2>2. ASSUME NEW s \in SignIns, Starts(s), token'[n].family = s PROVE FALSE
    BY <2>1, <2>2 DEF Starts, SessionsInv, FamilyBegins
  <2>3. ASSUME NEW c \in Callers, NEW p \in Ids, RotateCommit(c), refresh[c].presented = p,
               token'[n].family = token[p].family, ~Live(p)'
        PROVE  FALSE
    <3>1. Live(p)
      BY <2>3 DEF RotateCommit, SessionsInv, LockedIsLive
    <3>2. o = p
      BY <1>1, <2>1, <2>3, <3>1
    <3>3. QED
      BY <1>2, <2>3, <3>2
  <2>4. QED
    BY <1>2, <2>2, <2>3, NewToken
<1>3. t \in Ids /\ u \in Ids
  <2>1. t \notin Ids /\ u \notin Ids => FALSE
    BY NewToken
  <2>2. QED
    BY <1>2, <2>1
<1>4. QED
  BY <1>1, <1>3, Kept

LEMMA HeldStaysLive ==
  ASSUME SessionsInv, [SessionsNext]_sessionVars, NEW b \in Callers, NEW p \in Ids,
         refresh[b].at = "locked", refresh[b].presented = p, refresh'[b].at = "locked"
  PROVE  Live(p)'
<1>1. TypeOK /\ Live(p) /\ Locked(p)
  BY DEF SessionsInv, LockedIsLive, Locked
<1>2. CASE UNCHANGED token
  BY <1>1, <1>2 DEF Live
<1>3. ASSUME NEW s \in SignIns, Starts(s) PROVE Live(p)'
  <2>1. token'[p] = token[p]
    BY <1>1, <1>3, Inserted DEF Starts
  <2>2. QED
    BY <1>1, <2>1 DEF Live
<1>4. ASSUME NEW c \in Callers, RotateCommit(c) PROVE Live(p)'
  <2>1. refresh[c].at = "locked" /\ refresh'[c].at = "rotated" /\ refresh[c].presented \in Ids
    BY <1>1, <1>4, PresentedKnown DEF RotateCommit, TypeOK, At
  <2>2. p # refresh[c].presented
    BY <2>1 DEF SessionsInv, LockedIsLive
  <2>3. Live(p)' <=> Live(p) /\ p # refresh[c].presented
    BY <1>1, <1>4, <2>1, RotatedRow
  <2>4. QED
    BY <1>1, <2>2, <2>3
<1>5. ASSUME NEW rows \in SUBSET Nat, Revokes(rows) PROVE Live(p)'
  <2>1. Live(p)' <=> Live(p) /\ p \notin rows
    BY <1>1, <1>5, RevokedRows DEF Revokes
  <2>2. QED
    BY <1>1, <1>5, <2>1 DEF Revokes
<1>6. QED
  BY <1>2, <1>3, <1>4, <1>5, Kinds

LEMMA LockedStep == SessionsInv /\ [SessionsNext]_sessionVars => LockedIsLive'
<1> SUFFICES ASSUME SessionsInv, [SessionsNext]_sessionVars PROVE LockedIsLive'
  OBVIOUS
<1>1. CASE NoNewLock
  <2>1. ASSUME NEW c \in Callers, refresh'[c].at = "locked" PROVE Live(refresh[c].presented)'
    <3>1. PICK p \in Ids : refresh[c].presented = p /\ refresh[c].at = "locked" /\ refresh'[c].presented = p
      BY <1>1, <2>1, PresentedKnown DEF NoNewLock
    <3>2. QED
      BY <2>1, <3>1, HeldStaysLive
  <2>2. QED
    BY <1>1, <2>1 DEF NoNewLock, LockedIsLive, SessionsInv
<1>2. ASSUME NEW c \in Callers, RotateRead(c) PROVE LockedIsLive'
  <2>1. TypeOK /\ LockedIsLive /\ UNCHANGED token
    BY <1>2 DEF SessionsInv, RotateRead
  <2>2. \A b \in Callers \ {c} : refresh'[b] = refresh[b]
    BY <1>2, <2>1 DEF RotateRead, TypeOK
  <2>3. /\ refresh'[c].presented = refresh[c].presented
        /\ refresh'[c].at = "locked" => Live(refresh[c].presented)
        /\ ~Locked(refresh[c].presented)
    BY <1>2, <2>1 DEF RotateRead, TypeOK
  <2>4. \A b \in Callers : refresh'[b].at = "locked" => Live(refresh'[b].presented)
    BY <2>1, <2>2, <2>3 DEF LockedIsLive
  <2>5. \A b \in Callers \ {c} : refresh[b].at = "locked" => refresh[b].presented # refresh[c].presented
    BY <2>3 DEF Locked
  <2>6. QED
    BY <2>1, <2>2, <2>3, <2>4, <2>5 DEF LockedIsLive, Live
<1>3. QED
  BY <1>1, <1>2, Kinds

KnownCaller(c) ==
  /\ refresh[c].at \in {"sent", "locked", "reuse"} => refresh[c].presented \in Ids
  /\ refresh[c].at = "rotated" => refresh[c].result \in Ids
  /\ sweep[c].at \in {"owed", "waiting"} => refresh[c].at = "reuse"

KnownDevice(d) == device[d].held \in Ids \cup {0} /\ device[d].sent \in Ids \cup {0}

LEMMA KnownParts ==
  Known <=> (\A c \in Callers : KnownCaller(c)) /\ \A d \in Devices : KnownDevice(d)
  BY DEF Known, KnownCaller, KnownDevice

(* An exchange leaves every sweep where it is. *)
LEMMA CommitSweeps ==
  ASSUME SessionsInv, NEW c \in Callers, RotateCommit(c)
  PROVE  \A x \in Sweepers :
           /\ sweep'[x].at = sweep[x].at /\ sweep'[x].rows = sweep[x].rows
           /\ sweep'[x].for = sweep[x].for /\ sweep[x].evaded \subseteq sweep'[x].evaded
<1>1. Rest /\ token[refresh[c].presented].family \in SignIns
  BY TypeParts, IdsAre DEF RotateCommit, SessionsInv, Known, Token
<1>2. QED
  BY <1>1, EvadesDoes DEF RotateCommit

LEMMA KnownStep == SessionsInv /\ [SessionsNext]_sessionVars => Known'
<1> SUFFICES ASSUME SessionsInv, [SessionsNext]_sessionVars
             PROVE  (\A c \in Callers : KnownCaller(c)') /\ \A d \in Devices : KnownDevice(d)'
  BY DEF Known, KnownCaller, KnownDevice
<1>1. TypeOK /\ Rest /\ Ids \subseteq Ids'
  BY TypeParts, Kept DEF SessionsInv
<1>2. (\A c \in Callers : KnownCaller(c)) /\ \A d \in Devices : KnownDevice(d)
  BY KnownParts DEF SessionsInv
<1> DEFINE Goal == (\A c \in Callers : KnownCaller(c)') /\ \A d \in Devices : KnownDevice(d)'
<1> SUFFICES Goal
  OBVIOUS
<1>3. \A c \in Callers : UNCHANGED <<refresh[c], sweep[c].at>> => KnownCaller(c)'
  BY <1>1, <1>2 DEF KnownCaller
<1>4. \A d \in Devices : UNCHANGED device[d] => KnownDevice(d)'
  BY <1>1, <1>2 DEF KnownDevice
<1>5. ASSUME NEW c \in Callers, ClientMoves(c) \/ ServerMoves(c) \/ Faults(c) PROVE Goal
  <2>1. \A b \in Callers \ {c} : UNCHANGED <<refresh[b], sweep[b].at>>
    <3>1. CASE RotateRead(c)
      <4>1. sweep' = sweep \/ sweep' = [sweep EXCEPT ![c].at = "owed"]
        BY <3>1 DEF RotateRead, SweepTo
      <4>2. \A b \in Callers \ {c} : sweep'[b] = sweep[b]
        BY <1>1, <4>1 DEF Rest, Sweepers
      <4>3. QED
        BY <1>1, <3>1, <4>2 DEF RotateRead, Rest
    <3>4. CASE RotateCommit(c)
      <4>1. \A b \in Callers : sweep'[b].at = sweep[b].at
        BY <1>1, <1>5, <3>4, CommitSweeps DEF Sweepers
      <4>2. QED
        BY <1>1, <3>4, <4>1 DEF RotateCommit, Rest
    <3>2. CASE ~RotateRead(c) /\ ~RotateCommit(c)
      <4>1. sweep' = sweep /\ \E r : refresh' = [refresh EXCEPT ![c] = r]
        BY <1>5, <3>2
           DEF ClientMoves, StartRefresh, RefreshSucceeds, RefreshRefused, ServerMoves,
               Faults, RefreshUnanswered, AppRestarts, RotateRollsBack, Idle
      <4>2. QED
        BY <1>1, <4>1 DEF Rest
    <3>3. QED
      BY <3>1, <3>2, <3>4
  <2>2. KnownCaller(c)'
    <3>1. KnownCaller(c)
      BY <1>2
    <3>2. CASE StartRefresh(c)
      <4>1. device[DeviceOf[c]].held \in Ids
        BY <1>2, <3>2, SessionsAssumption DEF StartRefresh, KnownDevice
      <4>2. QED
        BY <1>1, <3>1, <3>2, <4>1 DEF StartRefresh, KnownCaller, Rest, At
    <3>3. CASE RefreshSucceeds(c) \/ RefreshRefused(c) \/ RefreshUnanswered(c) \/ AppRestarts(c)
               \/ RotateRollsBack(c)
      <4>1. sweep' = sweep /\ refresh[c].at # "reuse" /\ \E w \in {"idle", "failed"} : refresh' = [refresh EXCEPT ![c] = At(w)]
        BY <3>3
           DEF RefreshSucceeds, RefreshRefused, RefreshUnanswered, AppRestarts, RotateRollsBack, Idle
      <4>2. QED
        BY <1>1, <3>1, <4>1 DEF KnownCaller, Rest, At
    <3>4. CASE RotateRead(c)
      <4>1. refresh[c].presented \in Ids /\ refresh[c].at = "sent" /\ UNCHANGED token
        BY <3>1, <3>4 DEF RotateRead, KnownCaller
      <4>2. refresh'[c].presented = refresh[c].presented
        BY <1>1, <3>4 DEF RotateRead, Rest, RefreshRec
      <4>3. \/ refresh'[c].at = "locked" /\ sweep' = sweep
            \/ refresh'[c].at = "reuse"
        BY <1>1, <3>4 DEF RotateRead, Rest, RefreshRec
      <4>4. QED
        BY <1>1, <3>1, <4>1, <4>2, <4>3 DEF KnownCaller
    <3>5. CASE RotateCommit(c)
      <4>1. refresh'[c].at = "rotated" /\ refresh'[c].result = Len(token) + 1
            /\ sweep'[c].at = sweep[c].at /\ refresh[c].at = "locked"
        BY <1>1, <3>5, CommitSweeps DEF RotateCommit, Rest, At, Sweepers
      <4>2. Len(token) + 1 \in Ids'
        BY <1>1, <3>1, <3>5, <4>1, RotatedRow DEF KnownCaller
      <4>3. QED
        BY <3>1, <4>1, <4>2 DEF KnownCaller
    <3>6. QED
      BY <1>5, <3>2, <3>3, <3>4, <3>5 DEF ClientMoves, ServerMoves, Faults
  <2>3. DeviceOf[c] \in Devices /\ \A d \in Devices \ {DeviceOf[c]} : UNCHANGED device[d]
    BY <1>1, <1>5, SessionsAssumption
       DEF ClientMoves, StartRefresh, RefreshSucceeds, RefreshRefused, ServerMoves, RotateRead,
           RotateCommit, Faults, RefreshUnanswered, AppRestarts, RotateRollsBack, Rest
  <2>4. KnownDevice(DeviceOf[c])'
    <3>1. KnownDevice(DeviceOf[c]) /\ KnownCaller(c) /\ device[DeviceOf[c]] \in DeviceRec
      BY <1>1, <1>2, <2>3 DEF Rest
    <3>2. \/ UNCHANGED device
          \/ device' = [device EXCEPT ![DeviceOf[c]].held = 0]
          \/ refresh[c].at = "rotated" /\ device' = [device EXCEPT ![DeviceOf[c]].held = refresh[c].result]
      BY <1>5
         DEF ClientMoves, StartRefresh, RefreshSucceeds, RefreshRefused, ServerMoves, RotateRead,
             RotateCommit, Faults, RefreshUnanswered, AppRestarts, RotateRollsBack
    <3>3. QED
      BY <1>1, <2>3, <3>1, <3>2 DEF KnownDevice, KnownCaller, Rest, DeviceRec
  <2>5. QED
    BY <1>3, <1>4, <2>1, <2>2, <2>3, <2>4
<1>6. ASSUME NEW s \in SignIns, CheckPassword(s) \/ IssueSession(s) \/ StaysSignedIn(s)
      PROVE  Goal
  <2>1. UNCHANGED refresh /\ \A c \in Callers : sweep'[c].at = sweep[c].at
    BY <1>1, <1>6, EvadesDoes DEF CheckPassword, IssueSession, StaysSignedIn, Sweepers
  <2>2. CASE UNCHANGED device
    BY <1>3, <1>4, <2>1, <2>2
  <2>3. CASE device' # device
    <3>1. Adopt(From[s], s) /\ Len(token) < MaxTokens
          /\ \E v \in 0..MaxVersion : token' = Append(token, Issued(s, v, v))
      <4>1. signIn[s].seen \in 0..MaxVersion /\ sweep[From[s]].for \in 0..MaxVersion
        BY <1>1, SessionsAssumption DEF Rest, SignInRec, SweepRec, Sweepers
      <4>2. QED
        BY <1>6, <2>3, <4>1 DEF CheckPassword, IssueSession, StaysSignedIn
    <3>2. Len(token) + 1 \in Ids'
      BY <1>1, <3>1, Inserted
    <3>3. From[s] \in Devices
      BY SessionsAssumption
    <3>4. /\ device'[From[s]].held = Len(token) + 1 /\ device'[From[s]].sent = 0
          /\ \A d \in Devices \ {From[s]} : UNCHANGED device[d]
      BY <1>1, <3>1, <3>3 DEF Adopt, Rest
    <3>5. KnownDevice(From[s])'
      BY <3>2, <3>4 DEF KnownDevice
    <3>6. QED
      BY <1>3, <1>4, <2>1, <3>4, <3>5
  <2>4. QED
    BY <2>2, <2>3
<1>7. ASSUME NEW x \in Sweepers, SweepAtOnce(x) \/ SweepWaits(x) \/ SweepEnds(x) \/ SweepDies(x)
      PROVE  Goal
  <2>1. UNCHANGED device /\ \A b \in Callers \ {x} : UNCHANGED <<refresh[b], sweep[b]>>
    BY <1>1, <1>7 DEF SweepAtOnce, SweepWaits, SweepEnds, SweepDies, Sweeps, SweepTo, Rest, Sweepers
  <2>2. ASSUME x \in Callers PROVE KnownCaller(x)'
    <3>1. KnownCaller(x) /\ refresh[x].at = "reuse"
      BY <1>2, <1>7, <2>2 DEF KnownCaller, SweepAtOnce, SweepWaits, SweepEnds, SweepDies
    <3>2. CASE SweepWaits(x)
      BY <1>1, <3>1, <3>2 DEF KnownCaller, SweepWaits
    <3>3. CASE SweepAtOnce(x) \/ SweepEnds(x) \/ SweepDies(x)
      <4>1. sweep'[x].at = "none" /\ refresh'[x].at \in {"refused", "failed"}
        BY <1>1, <2>2, <3>3 DEF SweepAtOnce, SweepEnds, SweepDies, Sweeps, SweepTo, Rest, SweepRec, At, NoSweep
      <4>2. QED
        BY <4>1 DEF KnownCaller
    <3>4. QED
      BY <1>7, <3>2, <3>3
  <2>3. QED
    BY <1>3, <1>4, <2>1, <2>2
<1>8. ASSUME NEW d \in Devices, DeviceMoves(d) PROVE Goal
  <2>1. UNCHANGED refresh /\ \A c \in Callers : UNCHANGED sweep[c]
    BY <1>1, <1>8, SessionsAssumption
       DEF DeviceMoves, SignOut, RevokePresented, SignedOut, LogoutEverywhere, Bump, Rest, Sweepers
  <2>2. \A e \in Devices \ {d} : UNCHANGED device[e]
    BY <1>1, <1>8
       DEF DeviceMoves, SignOut, RevokePresented, SignedOut, LogoutEverywhere, Doing, Rest
  <2>3. device'[d].held \in {0, device[d].held}
        /\ device'[d].sent \in {0, device[d].held, device[d].sent}
    BY <1>1, <1>8
       DEF DeviceMoves, SignOut, RevokePresented, SignedOut, LogoutEverywhere, Doing, Rest, DeviceRec
  <2>4. KnownDevice(d)'
    BY <1>1, <1>2, <2>3 DEF KnownDevice
  <2>5. QED
    BY <1>3, <1>4, <2>1, <2>2, <2>4
<1>9. ASSUME NEW r \in Resets, ResetPassword(r) PROVE Goal
  <2>1. UNCHANGED <<refresh, device>> /\ \A c \in Callers : UNCHANGED sweep[c]
    BY <1>1, <1>9, SessionsAssumption DEF ResetPassword, Bump, Rest, Sweepers
  <2>2. QED
    BY <1>3, <1>4, <2>1
<1>10. CASE UNCHANGED sessionVars
  BY <1>3, <1>4, <1>10 DEF sessionVars
<1> HIDE DEF Goal
<1>11. QED
  BY <1>5, <1>6, <1>7, <1>8, <1>9, <1>10 DEF SessionsNext

Everyone == Devices \cup Resets

(* No token the update does not hold outlives the sweep unexplained.       *)
Covered(x) ==
  sweep[x].at \in {"waiting", "done"} =>
    \A t \in Ids : Live(t) /\ Outlived(x, t) => sweep[x].at = "waiting" /\ t \in sweep[x].rows

LEMMA CoveredParts == WaitingHolds /\ SweepCovers <=> \A x \in Everyone : Covered(x)
  BY DEF WaitingHolds, SweepCovers, Covered, Everyone

(* A step that leaves a sweep where it is keeps every older usable token    *)
(* among its rows: one that is inserted goes past it or succeeds another.   *)
LEMMA CoveredStays ==
  ASSUME SessionsInv, [SessionsNext]_sessionVars, NEW x \in Everyone,
         sweep'[x].at = sweep[x].at, sweep'[x].rows = sweep[x].rows,
         sweep'[x].for = sweep[x].for, sweep[x].evaded \subseteq sweep'[x].evaded
  PROVE  Covered(x)'
<1> SUFFICES ASSUME sweep[x].at \in {"waiting", "done"}, NEW t \in Ids', Live(t)', Outlived(x, t)'
             PROVE  sweep[x].at = "waiting" /\ t \in sweep[x].rows
  BY DEF Covered
<1>1. Rest /\ Covered(x) /\ x \in Sweepers
  BY TypeParts, CoveredParts DEF SessionsInv, Everyone, Sweepers
<1>2. ASSUME NEW p \in Ids, token[p].born = token'[t].born, token[p].family = token'[t].family
      PROVE  Outlived(x, p)
  BY <1>2 DEF Outlived
<1>3. CASE t \in Ids
  BY <1>1, <1>2, <1>3, Kept DEF Covered
<1>4. CASE t \notin Ids
  <2>1. ASSUME NEW s \in SignIns, token'[t].family = s, Evades(s, token'[t].born, {"waiting", "done"})
        PROVE  FALSE
    <3>1. token'[t].born < sweep[x].for /\ s \notin sweep'[x].evaded
      BY <2>1 DEF Outlived
    <3>2. sweep[x].at \in {"waiting", "done"} /\ token'[t].born < sweep[x].for => s \in sweep'[x].evaded
      BY <1>1, <2>1, EvadesDoes
    <3>3. QED
      BY <3>1, <3>2
  <2>2. ASSUME NEW c \in Callers, NEW p \in Ids, RotateCommit(c), refresh[c].presented = p,
               token'[t].family = token[p].family, token'[t].born = token[p].born
        PROVE  FALSE
    <3>1. Live(p) /\ Outlived(x, p)
      BY <1>2, <2>2 DEF RotateCommit, SessionsInv, LockedIsLive
    <3>2. sweep[x].at = "waiting"
      BY <1>1, <3>1 DEF Covered
    <3>3. token[p].family \in SignIns /\ Evades(token[p].family, token[p].born, {"waiting"})
      BY <2>2, IdsAre DEF RotateCommit, SessionsInv, Token
    <3>4. sweep[x].at \in {"waiting"} /\ token[p].born < sweep[x].for => token[p].family \in sweep'[x].evaded
      BY <1>1, <3>3, EvadesDoes
    <3>5. token[p].family \notin sweep'[x].evaded
      BY <2>2 DEF Outlived
    <3>6. QED
      BY <3>1, <3>2, <3>4, <3>5 DEF Outlived
  <2>3. QED
    BY <1>4, <2>1, <2>2, NewToken
<1>5. QED
  BY <1>3, <1>4

LEMMA CoveredStep == SessionsInv /\ [SessionsNext]_sessionVars => WaitingHolds' /\ SweepCovers'
<1> SUFFICES ASSUME SessionsInv, [SessionsNext]_sessionVars, NEW x \in Everyone PROVE Covered(x)'
  BY DEF WaitingHolds, SweepCovers, Covered, Everyone
<1>1. TypeOK /\ Rest
  BY TypeParts DEF SessionsInv
<1>2. Callers \cap Everyone = {} /\ Everyone \subseteq Sweepers /\ x \in Sweepers /\ x \notin Callers
  BY SessionsAssumption DEF Everyone, Sweepers
<1>3. ASSUME sweep'[x] = sweep[x] PROVE Covered(x)'
  BY <1>3, CoveredStays
<1>4. ASSUME sweep'[x].at \notin {"waiting", "done"} PROVE Covered(x)'
  BY <1>4 DEF Covered
<1>5. ASSUME NEW c \in Callers, ClientMoves(c) \/ ServerMoves(c) \/ Faults(c) PROVE Covered(x)'
  <2>1. CASE RotateCommit(c)
    BY <1>2, <2>1, CommitSweeps, CoveredStays
  <2>2. CASE ~RotateCommit(c)
    <3>1. sweep'[x] = sweep[x]
      BY <1>1, <1>2, <1>5, <2>2
         DEF ClientMoves, StartRefresh, RefreshSucceeds, RefreshRefused, ServerMoves, RotateRead,
             SweepTo, Faults, RefreshUnanswered, AppRestarts, RotateRollsBack, Rest
    <3>2. QED
      BY <1>3, <3>1
  <2>3. QED
    BY <2>1, <2>2
<1>6. ASSUME NEW s \in SignIns, CheckPassword(s) \/ IssueSession(s) \/ StaysSignedIn(s)
      PROVE  Covered(x)'
  <2>1. CASE CheckPassword(s)
    BY <1>3, <2>1 DEF CheckPassword
  <2>2. CASE IssueSession(s) \/ StaysSignedIn(s)
    <3>1. \E v : Evades(s, v, {"waiting", "done"})
      BY <2>2 DEF IssueSession, StaysSignedIn
    <3>2. QED
      BY <1>1, <1>2, <3>1, EvadesDoes, CoveredStays
  <2>3. QED
    BY <1>6, <2>1, <2>2
<1>7. ASSUME NEW y \in Sweepers, SweepAtOnce(y) \/ SweepWaits(y) \/ SweepEnds(y) \/ SweepDies(y)
      PROVE  Covered(x)'
  <2>1. CASE x # y
    <3>1. sweep'[x] = sweep[x]
      BY <1>1, <1>2, <1>7, <2>1 DEF SweepAtOnce, SweepWaits, SweepEnds, SweepDies, Sweeps, SweepTo, Rest
    <3>2. QED
      BY <1>3, <3>1
  <2>2. CASE x = y
    <3>1. InReach(x) = Ids /\ \A t \in Ids : Live(t) => t \in Unrevoked(x)
      BY <1>2 DEF InReach, Unrevoked, Live
    <3>2. CASE SweepDies(x)
      <4>1. sweep'[x].at = "died"
        BY <1>1, <1>2, <3>2 DEF SweepDies, SweepTo, Rest
      <4>2. QED
        BY <1>4, <4>1
    <3>3. CASE SweepWaits(x)
      <4>1. sweep'[x].at = "waiting" /\ sweep'[x].rows = Unrevoked(x) /\ token' = token
        BY <1>1, <1>2, <3>3 DEF SweepWaits, Rest, SweepRec
      <4>2. QED
        BY <3>1, <4>1 DEF Covered, Live, Ids
    <3>4. CASE SweepAtOnce(x)
      <4>1. token' = Revoked(Unrevoked(x))
        BY <3>4 DEF SweepAtOnce, Sweeps
      <4>2. Ids' = Ids /\ \A t \in Ids : ~Live(t)'
        BY <1>1, <3>1, <4>1, RevokedRows
      <4>3. QED
        BY <4>2 DEF Covered
    <3>5. CASE SweepEnds(x)
      <4>1. /\ token' = Revoked(sweep[x].rows) /\ sweep[x].at = "waiting"
            /\ sweep' = [sweep EXCEPT ![x] = [sweep[x] EXCEPT !.at = "done", !.rows = sweep[x].rows]]
        BY <1>2, <3>5 DEF SweepEnds, Sweeps
      <4>2. sweep[x] \in SweepRec
        BY <1>1, <1>2 DEF Rest
      <4>3. sweep'[x].for = sweep[x].for /\ sweep'[x].evaded = sweep[x].evaded
        BY <1>1, <1>2, <4>1, <4>2 DEF Rest, SweepRec
      <4>4. /\ Ids' = Ids
            /\ \A t \in Ids : /\ token'[t].family = token[t].family /\ token'[t].born = token[t].born
                              /\ Live(t)' <=> Live(t) /\ t \notin sweep[x].rows
        BY <1>1, <4>1, RevokedRows
      <4>5. \A t \in Ids : Live(t) /\ Outlived(x, t) => t \in sweep[x].rows
        BY <4>1, CoveredParts DEF SessionsInv, Covered
      <4>6. \A t \in Ids : ~(Live(t)' /\ Outlived(x, t)')
        BY <4>3, <4>4, <4>5 DEF Outlived
      <4>7. QED
        BY <4>4, <4>6 DEF Covered
    <3>6. QED
      BY <1>7, <2>2, <3>2, <3>3, <3>4, <3>5
  <2>3. QED
    BY <2>1, <2>2
<1>8. ASSUME NEW y \in Sweepers, Bump(y, "owed") PROVE Covered(x)'
  <2>1. CASE x = y
    <3>1. sweep[x] \in SweepRec
      BY <1>1, <1>2 DEF Rest
    <3>2. sweep'[x].at = "owed"
      BY <1>1, <1>2, <1>8, <2>1, <3>1 DEF Bump, Rest, SweepRec
    <3>3. QED
      BY <1>4, <3>2
  <2>2. CASE x # y
    BY <1>1, <1>2, <1>3, <1>8, <2>2 DEF Bump, Rest
  <2>3. QED
    BY <2>1, <2>2
<1>9. ASSUME NEW d \in Devices, DeviceMoves(d) PROVE Covered(x)'
  <2>1. CASE LogoutEverywhere(d)
    BY <1>8, <2>1 DEF LogoutEverywhere, Sweepers
  <2>2. CASE SignOut(d) \/ RevokePresented(d) \/ SignedOut(d)
    BY <1>3, <2>2 DEF SignOut, RevokePresented, SignedOut
  <2>3. QED
    BY <1>9, <2>1, <2>2 DEF DeviceMoves
<1>10. ASSUME NEW r \in Resets, ResetPassword(r) PROVE Covered(x)'
  BY <1>8, <1>10 DEF ResetPassword, Sweepers
<1>11. CASE UNCHANGED sessionVars
  BY <1>3, <1>11 DEF sessionVars
<1>12. QED
  BY <1>5, <1>6, <1>7, <1>9, <1>10, <1>11 DEF SessionsNext

LEMMA SessionsStepInv == SessionsInv /\ [SessionsNext]_sessionVars => SessionsInv'
  BY TypeStep, OneLiveStep, LockedStep, FamilyStep, KnownStep, CoveredStep DEF SessionsInv

-----------------------------------------------------------------------------
(* A family has at most one usable token, row locks are held on usable      *)
(* tokens, and no usable token older than a bump outlives its sweep          *)
(* unexplained, whatever refreshes, sign-outs and resets interleave.        *)
THEOREM SessionsCorrect == SessionsSpec => []SessionsInv
  BY SessionsInitInv, SessionsStepInv, PTL DEF SessionsSpec

(* Once "log out everywhere" or a password reset has revoked, the only older *)
(* sessions with a usable refresh token are those refreshed while the        *)
(* revocation waited for a row, and sign-ins whose password had been         *)
(* compared before the bump (tokenService.js, auth/controller.js).           *)
THEOREM SweepsCover == SessionsSpec => []SweepCovers
<1>1. SessionsInv => SweepCovers
  BY DEF SessionsInv
<1>2. QED
  BY <1>1, SessionsCorrect, PTL

(* A session that has ended is never revived by a refresh under way.        *)
THEOREM EndedForGood == SessionsSpec => EndedStaysEnded
<1>1. ASSUME SessionsInv, [SessionsNext]_sessionVars, NEW s \in SignIns, Ended(s)
      PROVE  Ended(s)'
  <2>1. PICK o \in Ids : token[o].family = s
    BY <1>1 DEF Ended
  <2>2. o \in Ids' /\ token'[o].family = s
    BY <1>1, <2>1, Kept
  <2>3. ASSUME NEW n \in Ids', n \notin Ids, token'[n].family = s PROVE FALSE
    <3>1. ~Starts(s)
      <4>1. signIn[s].at = "issued"
        BY <1>1, <2>1 DEF SessionsInv, FamilyBegins
      <4>2. QED
        BY <4>1 DEF Starts
    <3>2. ASSUME NEW c \in Callers, NEW p \in Ids, RotateCommit(c), refresh[c].presented = p,
                 token'[n].family = token[p].family
          PROVE  FALSE
      BY <1>1, <2>3, <3>2 DEF Ended, Locked, RotateCommit
    <3>3. QED
      BY <1>1, <2>3, <3>1, <3>2, NewToken
  <2>4. ASSUME NEW t \in Ids', token'[t].family = s PROVE ~Live(t)' /\ ~Locked(t)'
    <3>1. t \in Ids
      BY <2>3, <2>4
    <3>2. token[t].family = s
      BY <1>1, <2>4, <3>1, Kept
    <3>3. ~Live(t) /\ ~Locked(t)
      BY <1>1, <3>1, <3>2 DEF Ended
    <3>4. ~Live(t)'
      BY <1>1, <3>1, <3>3, Kept
    <3>5. ~Locked(t)'
      BY <1>1, <3>4, SessionsStepInv DEF SessionsInv, LockedIsLive, Locked
    <3>6. QED
      BY <3>4, <3>5
  <2>5. QED
    BY <2>2, <2>4 DEF Ended
<1>2. SessionsInv /\ [SessionsNext]_sessionVars
        => [\A s \in SignIns : Ended(s) => Ended(s)']_sessionVars
  BY <1>1
<1>3. QED
  BY <1>2, SessionsCorrect, PTL DEF SessionsSpec, EndedStaysEnded
-----------------------------------------------------------------------------
(* Why a client is not taken for a thief of its own session                *)

\* Exchanged and not revoked: presenting it again is taken for a theft.
Spent(t) == token[t].used /\ ~token[t].revoked
Quiet(d) == Alone(d) /\ d \notin disturbed

OwnTokens ==
  /\ \A c \in Callers :
       /\ refresh[c].at \in {"sent", "locked", "reuse"} =>
            From[token[refresh[c].presented].family] = DeviceOf[c]
       /\ refresh[c].at = "rotated" => From[token[refresh[c].result].family] = DeviceOf[c]
  /\ \A d \in Devices : device[d].held # 0 => From[token[device[d].held].family] = d

OneInFlight ==
  \A b, c \in Callers : DeviceOf[b] = DeviceOf[c] /\ Alone(DeviceOf[c])
      /\ refresh[b].at # "idle" /\ refresh[c].at # "idle" => b = c

FreshInFlight ==
  \A c \in Callers : Quiet(DeviceOf[c]) =>
    /\ refresh[c].at \in {"sent", "locked"} => ~Spent(refresh[c].presented)
    /\ refresh[c].at = "reuse" => token[refresh[c].presented].revoked
    /\ refresh[c].at = "rotated" => ~Spent(refresh[c].result)

\* While an exchange is on its way back the device may hold a spent token.
FreshHeld ==
  \A d \in Devices : Quiet(d) /\ device[d].held # 0
      /\ (\A c \in Callers : DeviceOf[c] = d => refresh[c].at # "rotated")
    => ~Spent(device[d].held)

(* Each device refreshes the tokens of its own sign-ins, one at a time, and *)
(* presents a spent one only when it was not told of the exchange.         *)
ReuseInv == SessionsInv /\ OwnTokens /\ OneInFlight /\ FreshInFlight /\ FreshHeld

(* Who rotates is done with the token it presented.                        *)
LEMMA CommitDoes ==
  ASSUME SessionsInv, NEW c \in Callers, RotateCommit(c)
  PROVE  /\ refresh[c].at = "locked" /\ refresh[c].presented \in Ids
         /\ refresh'[c].at = "rotated" /\ refresh'[c].result = Len(token) + 1
         /\ \A b \in Callers \ {c} : refresh'[b] = refresh[b]
         /\ UNCHANGED <<device, disturbed>>
  BY PresentedKnown DEF SessionsInv, TypeOK, RotateCommit, At

(* What a step does to the marks on a row: a revocation is for good, a      *)
(* token is spent by the rotation that presents it, and none is born spent. *)
LEMMA SpentRows ==
  ASSUME SessionsInv, [SessionsNext]_sessionVars
  PROVE  /\ \A t \in Ids : /\ token[t].revoked => token'[t].revoked
                           /\ Spent(t)' => \/ Spent(t)
                                           \/ \E c \in Callers : RotateCommit(c) /\ refresh[c].presented = t
         /\ \A t \in Ids' : t \notin Ids => ~Spent(t)'
<1> DEFINE Goal ==
      /\ \A t \in Ids : /\ token[t].revoked => token'[t].revoked
                        /\ Spent(t)' => \/ Spent(t)
                                        \/ \E c \in Callers : RotateCommit(c) /\ refresh[c].presented = t
      /\ \A t \in Ids' : t \notin Ids => ~Spent(t)'
<1>1. TypeOK /\ token \in Seq(Token) /\ Len(token) \in Nat /\ Ids = 1 .. Len(token)
      /\ \A t \in Ids : token[t] \in Token
  BY IdsAre DEF SessionsInv, TypeOK, Token
<1>2. CASE UNCHANGED token
  BY <1>2 DEF Ids, Spent
<1>3. ASSUME NEW s \in SignIns, Starts(s) PROVE Goal
  <2>1. PICK v \in 0..MaxVersion : token' = Append(token, Issued(s, v, v))
    BY <1>3 DEF Starts
  <2>2. /\ Ids' = Ids \cup {Len(token) + 1} /\ Len(token) + 1 \notin Ids
        /\ \A t \in Ids : token'[t] = token[t]
        /\ token'[Len(token) + 1] = Issued(s, v, v)
    BY <1>1, <1>3, <2>1, Inserted DEF Starts
  <2>3. Issued(s, v, v).used = FALSE
    BY DEF Issued
  <2>4. QED
    BY <2>2, <2>3 DEF Spent
<1>4. ASSUME NEW c \in Callers, RotateCommit(c) PROVE Goal
  <2> DEFINE p == refresh[c].presented
             marked == [token EXCEPT ![p].used = TRUE]
             new == Issued(token[p].family, token[p].born, refresh[c].seen)
  <2>1. p \in Ids
    BY <1>4, CommitDoes
  <2>2. /\ Ids' = Ids \cup {Len(token) + 1} /\ Len(token) + 1 \notin Ids
    BY <1>1, <1>4, <2>1, RotatedRow
  <2>3. [token[p] EXCEPT !.used = TRUE] \in Token
    BY <1>1, <2>1 DEF Token
  <2>4. marked \in Seq(Token) /\ Len(marked) = Len(token)
    BY <1>1, <2>1, <2>3
  <2>5. token' = Append(marked, new)
    BY <1>4 DEF RotateCommit
  <2>6. (\A t \in Ids : token'[t] = marked[t]) /\ token'[Len(token) + 1] = new
    <3> HIDE DEF marked, new
    <3> QED
      BY <1>1, <2>4, <2>5
  <2>7. new.used = FALSE
    BY DEF Issued
  <2>8. ASSUME NEW t \in Ids, t # p PROVE token'[t] = token[t]
    <3>1. marked[t] = token[t]
      BY <1>1, <2>8
    <3> HIDE DEF marked
    <3>2. QED
      BY <2>6, <3>1
  <2>9. token[p].revoked => token'[p].revoked
    <3>1. p \in DOMAIN token
      BY <1>1, <2>1
    <3>2. marked[p] = [token[p] EXCEPT !.used = TRUE]
      BY <3>1
    <3> HIDE DEF marked
    <3>3. token'[p] = [token[p] EXCEPT !.used = TRUE]
      BY <2>1, <2>6, <3>2
    <3>4. token[p] \in Token
      BY <1>1, <2>1
    <3> HIDE DEF p
    <3>5. QED
      BY <3>3, <3>4 DEF Token
  <2> HIDE DEF marked, new
  <2>10. ASSUME NEW t \in Ids
         PROVE  /\ token[t].revoked => token'[t].revoked
                /\ Spent(t)' => Spent(t) \/ (RotateCommit(c) /\ refresh[c].presented = t)
    BY <1>4, <2>8, <2>9 DEF Spent
  <2>11. ASSUME NEW t \in Ids', t \notin Ids PROVE ~Spent(t)'
    BY <2>2, <2>6, <2>7, <2>11 DEF Spent
  <2>12. QED
    BY <2>10, <2>11
<1>5. ASSUME NEW rows \in SUBSET Nat, Revokes(rows) PROVE Goal
  <2>1. Ids' = Ids
    BY <1>1, <1>5, RevokedRows DEF Revokes
  <2>2. ASSUME NEW t \in Ids
        PROVE  /\ token[t].revoked => token'[t].revoked
               /\ Spent(t)' => Spent(t)
    <3>1. token'[t] = IF t \in rows THEN [token[t] EXCEPT !.revoked = TRUE] ELSE token[t]
      BY <1>1, <1>5 DEF Revokes, Revoked
    <3>2. CASE t \in rows
      <4>1. token'[t].revoked = TRUE
        BY <1>1, <3>1, <3>2 DEF Token
      <4>2. QED
        BY <4>1 DEF Spent
    <3>3. CASE t \notin rows
      BY <3>1, <3>3 DEF Spent
    <3>4. QED
      BY <3>2, <3>3
  <2>3. QED
    BY <2>1, <2>2
<1> HIDE DEF Goal
<1>6. Goal
  BY <1>2, <1>3, <1>4, <1>5, Kinds DEF Goal, Ids, Spent
<1>7. QED
  BY <1>6 DEF Goal

(* What a step does to the refresh of a caller.                            *)
Sends(c) ==
  /\ StartRefresh(c) /\ refresh[c].at = "idle"
  /\ refresh'[c].at = "sent" /\ refresh'[c].presented = device[DeviceOf[c]].held
  /\ device[DeviceOf[c]].held # 0
  /\ \A b \in Callers \ {c} : refresh'[b] = refresh[b]
  /\ UNCHANGED <<token, device, disturbed>>

ReadsToken(c) ==
  /\ refresh[c].at = "sent" /\ refresh'[c].presented = refresh[c].presented
  /\ refresh'[c].at = IF Live(refresh[c].presented) THEN "locked" ELSE "reuse"
  /\ UNCHANGED token

EndsCall(c) ==
  /\ refresh[c].at # "idle" /\ refresh'[c].at \in {"idle", "refused", "failed"}
  /\ refresh[c].at = "rotated" => RefreshSucceeds(c) \/ DeviceOf[c] \in disturbed'

LEMMA CallerStep ==
  ASSUME SessionsInv, [SessionsNext]_sessionVars, NEW c \in Callers
  PROVE  \/ refresh'[c] = refresh[c]
         \/ Sends(c) \/ ReadsToken(c) \/ RotateCommit(c) \/ EndsCall(c)
<1> DEFINE Goal(b) == \/ refresh'[b] = refresh[b]
                      \/ Sends(b) \/ ReadsToken(b) \/ RotateCommit(b) \/ EndsCall(b)
<1>1. TypeOK /\ Known
  BY DEF SessionsInv
<1>2. refresh \in [Callers -> RefreshRec]
  BY <1>1 DEF TypeOK, RefreshRec, RefreshAt
<1>3. ASSUME NEW b \in Callers, ClientMoves(b) \/ ServerMoves(b) \/ Faults(b) PROVE Goal(c)
  <2>1. \E r : refresh' = [refresh EXCEPT ![b] = r]
    <3>1. CASE RotateRead(b)
      <4>1. refresh' = [refresh EXCEPT ![b] = [[refresh[b] EXCEPT !.at = IF Live(refresh[b].presented) THEN "locked" ELSE "reuse"]
                                                EXCEPT !.seen = version]]
        BY <1>2, <3>1 DEF RotateRead
      <4>2. QED
        BY <4>1
    <3>2. CASE ~RotateRead(b)
      BY <1>3, <3>2
         DEF ClientMoves, StartRefresh, RefreshSucceeds, RefreshRefused, ServerMoves,
             RotateCommit, Faults, RefreshUnanswered, AppRestarts, RotateRollsBack, Idle
    <3>3. QED
      BY <3>1, <3>2
  <2>2. c # b => refresh'[c] = refresh[c]
    BY <1>2, <2>1
  <2>3. Goal(b)
    <3>1. CASE StartRefresh(b)
      BY <1>2, <3>1 DEF StartRefresh, Sends, At
    <3>2. CASE RotateRead(b)
      BY <1>2, <3>2 DEF RotateRead, ReadsToken, RefreshRec
    <3>3. CASE RefreshSucceeds(b)
      BY <1>2, <3>3 DEF RefreshSucceeds, Idle, At, EndsCall
    <3>4. CASE RefreshRefused(b)
      BY <1>2, <3>4 DEF RefreshRefused, Idle, At, EndsCall
    <3>5. CASE RefreshUnanswered(b) \/ AppRestarts(b)
      <4>1. refresh[b].at # "idle" /\ refresh' = [refresh EXCEPT ![b] = At("idle")]
            /\ disturbed' = disturbed \cup {DeviceOf[b]}
        BY <3>5 DEF RefreshUnanswered, AppRestarts, Idle
      <4>2. QED
        BY <1>2, <4>1 DEF At, EndsCall
    <3>6. CASE RotateRollsBack(b)
      BY <1>2, <3>6 DEF RotateRollsBack, At, EndsCall
    <3>7. QED
      BY <1>3, <3>1, <3>2, <3>3, <3>4, <3>5, <3>6 DEF ClientMoves, ServerMoves, Faults
  <2> HIDE DEF Goal
  <2>4. QED
    <3>1. c # b => Goal(c)
      BY <2>2 DEF Goal
    <3>2. QED
      BY <2>3, <3>1
<1>4. ASSUME NEW x \in Sweepers, SweepAtOnce(x) \/ SweepWaits(x) \/ SweepEnds(x) \/ SweepDies(x)
      PROVE  Goal(c)
  <2>1. refresh' = refresh \/ (x \in Callers /\ \E w \in {"refused", "failed"} : refresh' = [refresh EXCEPT ![x] = At(w)])
    BY <1>4 DEF SweepWaits, SweepAtOnce, SweepEnds, Sweeps, SweepDies
  <2>2. x \in Callers => refresh[x].at = "reuse"
    BY <1>1, <1>4 DEF Known, SweepWaits, SweepAtOnce, SweepEnds, SweepDies
  <2>3. QED
    BY <1>2, <2>1, <2>2 DEF At, EndsCall
<1>5. CASE UNCHANGED refresh
  BY <1>5
<1> HIDE DEF Goal
<1>6. Goal(c)
  <2>1. refresh' = refresh => Goal(c)
    BY DEF Goal
  <2>2. ASSUME NEW s \in SignIns, CheckPassword(s) \/ IssueSession(s) \/ StaysSignedIn(s)
        PROVE  refresh' = refresh
    BY <2>2 DEF CheckPassword, IssueSession, StaysSignedIn
  <2>3. ASSUME NEW d \in Devices, DeviceMoves(d) PROVE refresh' = refresh
    BY <2>3 DEF DeviceMoves, SignOut, RevokePresented, SignedOut, LogoutEverywhere
  <2>4. ASSUME NEW r \in Resets, ResetPassword(r) PROVE refresh' = refresh
    BY <2>4 DEF ResetPassword
  <2>5. UNCHANGED sessionVars => refresh' = refresh
    BY DEF sessionVars
  <2>6. QED
    BY <1>3, <1>4, <2>1, <2>2, <2>3, <2>4, <2>5 DEF SessionsNext
<1>7. QED
  BY <1>6 DEF Goal

(* What a step does to the token a device holds.                           *)
LEMMA HeldStep ==
  ASSUME SessionsInv, [SessionsNext]_sessionVars, NEW d \in Devices
  PROVE  \/ device'[d].held \in {0, device[d].held}
         \/ \E c \in Callers : DeviceOf[c] = d /\ RefreshSucceeds(c)
                               /\ device'[d].held = refresh[c].result /\ UNCHANGED token
         \/ \E s \in SignIns : From[s] = d /\ Starts(s) /\ device'[d].held = Len(token) + 1
<1> DEFINE Goal == \/ device'[d].held \in {0, device[d].held}
                   \/ \E c \in Callers : DeviceOf[c] = d /\ RefreshSucceeds(c)
                               /\ device'[d].held = refresh[c].result /\ UNCHANGED token
                   \/ \E s \in SignIns : From[s] = d /\ Starts(s) /\ device'[d].held = Len(token) + 1
<1>1. TypeOK /\ Rest
  BY TypeParts DEF SessionsInv
<1>2. ASSUME NEW c \in Callers, ClientMoves(c) \/ ServerMoves(c) \/ Faults(c) PROVE Goal
  <2>1. DeviceOf[c] \in Devices
    BY SessionsAssumption
  <2>2. CASE RefreshSucceeds(c)
    BY <1>1, <2>1, <2>2 DEF RefreshSucceeds, Rest, DeviceRec
  <2>3. CASE ~RefreshSucceeds(c)
    <3>1. UNCHANGED device \/ device' = [device EXCEPT ![DeviceOf[c]].held = 0]
      BY <1>2, <2>3
         DEF ClientMoves, StartRefresh, RefreshRefused, ServerMoves, RotateRead,
             RotateCommit, Faults, RefreshUnanswered, AppRestarts, RotateRollsBack
    <3>2. QED
      BY <1>1, <2>1, <3>1 DEF Rest, DeviceRec
  <2>4. QED
    BY <2>2, <2>3
<1>3. ASSUME NEW s \in SignIns, CheckPassword(s) \/ IssueSession(s) \/ StaysSignedIn(s)
      PROVE  Goal
  <2>1. CASE UNCHANGED device
    BY <2>1
  <2>2. CASE ~UNCHANGED device
    <3>1. IssueSession(s) \/ StaysSignedIn(s)
      BY <1>3, <2>2 DEF CheckPassword
    <3>2. Adopt(From[s], s)
      BY <2>2, <3>1 DEF IssueSession, StaysSignedIn
    <3>3. signIn[s].seen \in 0..MaxVersion /\ signIn'[s].at = "issued"
          /\ sweep[From[s]].for \in 0..MaxVersion
      BY <1>1, <3>1, SessionsAssumption
         DEF IssueSession, StaysSignedIn, Rest, SignInRec, SweepRec, Sweepers
    <3>4. Starts(s)
      BY <3>1, <3>3 DEF IssueSession, StaysSignedIn, Starts
    <3>5. device'[From[s]].held = Len(token) + 1 /\ \A e \in Devices \ {From[s]} : device'[e] = device[e]
      BY <1>1, <3>2, SessionsAssumption DEF Adopt, Rest
    <3>6. QED
      BY <3>4, <3>5
  <2>3. QED
    BY <2>1, <2>2
<1>4. ASSUME NEW e \in Devices, DeviceMoves(e) PROVE Goal
  <2>1. \A f \in Devices \ {e} : device'[f] = device[f]
    BY <1>1, <1>4
       DEF DeviceMoves, SignOut, RevokePresented, SignedOut, LogoutEverywhere, Doing, Rest
  <2>2. device'[e].held \in {0, device[e].held}
    BY <1>1, <1>4
       DEF DeviceMoves, SignOut, RevokePresented, SignedOut, LogoutEverywhere, Doing, Rest, DeviceRec
  <2>3. QED
    BY <2>1, <2>2
<1>5. CASE UNCHANGED device
  BY <1>5
<1> HIDE DEF Goal
<1>6. Goal
  <2>1. device' = device => Goal
    BY DEF Goal
  <2>2. ASSUME NEW x \in Sweepers, SweepAtOnce(x) \/ SweepWaits(x) \/ SweepEnds(x) \/ SweepDies(x)
        PROVE  device' = device
    BY <2>2 DEF SweepAtOnce, SweepWaits, SweepEnds, SweepDies
  <2>3. ASSUME NEW r \in Resets, ResetPassword(r) PROVE device' = device
    BY <2>3 DEF ResetPassword
  <2>4. UNCHANGED sessionVars => device' = device
    BY DEF sessionVars
  <2>5. QED
    BY <1>2, <1>3, <1>4, <2>1, <2>2, <2>3, <2>4 DEF SessionsNext
<1>7. QED
  BY <1>6 DEF Goal

(* A device that was disturbed stays so, and is what it was.               *)
LEMMA QuietBefore ==
  ASSUME [SessionsNext]_sessionVars, NEW d, Quiet(d)'
  PROVE  Quiet(d) /\ phones' = phones
<1>1. disturbed \subseteq disturbed' /\ phones' = phones
  BY DEF SessionsNext, ClientMoves, StartRefresh, RefreshSucceeds, RefreshRefused, ServerMoves,
         RotateRead, RotateCommit, Faults, RefreshUnanswered, AppRestarts, RotateRollsBack,
         CheckPassword, IssueSession, StaysSignedIn, SweepAtOnce, SweepWaits, SweepEnds, SweepDies,
         DeviceMoves, SignOut, RevokePresented, SignedOut, LogoutEverywhere, ResetPassword, sessionVars
<1>2. QED
  BY <1>1 DEF Quiet, Alone
(* A device is the one whose tokens it presents and holds.                 *)
LEMMA OwnStep == ReuseInv /\ [SessionsNext]_sessionVars => OwnTokens'
<1> SUFFICES ASSUME ReuseInv, [SessionsNext]_sessionVars PROVE OwnTokens'
  OBVIOUS
<1>1. SessionsInv /\ OwnTokens /\ TypeOK /\ Known
  BY DEF ReuseInv, SessionsInv
<1>2. Ids \subseteq Ids' /\ \A t \in Ids : token'[t].family = token[t].family
  BY <1>1, Kept
<1>3. ASSUME NEW c \in Callers
      PROVE  /\ refresh'[c].at \in {"sent", "locked", "reuse"} =>
                  From[token'[refresh'[c].presented].family] = DeviceOf[c]
             /\ refresh'[c].at = "rotated" => From[token'[refresh'[c].result].family] = DeviceOf[c]
  <2>1. CASE refresh'[c] = refresh[c]
    BY <1>1, <1>2, <2>1 DEF OwnTokens, Known
  <2>2. CASE Sends(c)
    <3>1. DeviceOf[c] \in Devices /\ device[DeviceOf[c]].held # 0
      BY <2>2, SessionsAssumption DEF Sends
    <3>2. From[token[device[DeviceOf[c]].held].family] = DeviceOf[c]
      BY <1>1, <3>1 DEF OwnTokens
    <3>3. QED
      BY <2>2, <3>2 DEF Sends
  <2>3. CASE ReadsToken(c)
    BY <1>1, <2>3 DEF OwnTokens, ReadsToken
  <2>4. CASE RotateCommit(c)
    <3>1. /\ refresh[c].at = "locked" /\ refresh[c].presented \in Ids
          /\ refresh'[c].at = "rotated" /\ refresh'[c].result = Len(token) + 1
      BY <1>1, <2>4, CommitDoes
    <3>2. token'[Len(token) + 1].family = token[refresh[c].presented].family
      BY <1>1, <2>4, <3>1, RotatedRow
    <3>3. From[token[refresh[c].presented].family] = DeviceOf[c]
      BY <1>1, <3>1 DEF OwnTokens
    <3>4. QED
      BY <3>1, <3>2, <3>3
  <2>5. CASE EndsCall(c)
    BY <2>5 DEF EndsCall
  <2>6. QED
    BY <1>1, <2>1, <2>2, <2>3, <2>4, <2>5, CallerStep
<1>4. ASSUME NEW d \in Devices, device'[d].held # 0
      PROVE  From[token'[device'[d].held].family] = d
  <2>1. CASE device'[d].held \in {0, device[d].held}
    <3>1. device[d].held \in Ids /\ device'[d].held = device[d].held
      BY <1>1, <1>4, <2>1 DEF Known
    <3>2. QED
      BY <1>1, <1>2, <1>4, <3>1 DEF OwnTokens
  <2>2. ASSUME NEW c \in Callers, DeviceOf[c] = d, RefreshSucceeds(c),
               device'[d].held = refresh[c].result, UNCHANGED token
        PROVE  From[token'[device'[d].held].family] = d
    BY <1>1, <2>2 DEF OwnTokens, RefreshSucceeds
  <2>3. ASSUME NEW s \in SignIns, From[s] = d, Starts(s), device'[d].held = Len(token) + 1
        PROVE  From[token'[device'[d].held].family] = d
    <3>1. PICK v \in 0..MaxVersion : token' = Append(token, Issued(s, v, v))
      BY <2>3 DEF Starts
    <3>2. token'[Len(token) + 1] = Issued(s, v, v)
      BY <1>1, <2>3, <3>1, Inserted DEF Starts
    <3>3. token'[device'[d].held].family = s
      BY <2>3, <3>2 DEF Issued
    <3>4. QED
      BY <2>3, <3>3
  <2>4. QED
    BY <1>1, <2>1, <2>2, <2>3, HeldStep
<1>5. QED
  BY <1>3, <1>4 DEF OwnTokens

LEMMA OneInFlightStep == ReuseInv /\ [SessionsNext]_sessionVars => OneInFlight'
<1> SUFFICES ASSUME ReuseInv, [SessionsNext]_sessionVars,
                    NEW b \in Callers, NEW c \in Callers, DeviceOf[b] = DeviceOf[c],
                    Alone(DeviceOf[c])', refresh'[b].at # "idle", refresh'[c].at # "idle"
             PROVE  b = c
  BY DEF OneInFlight
<1>1. SessionsInv /\ OneInFlight
  BY DEF ReuseInv
<1>2. phones' = phones
  BY DEF SessionsNext, ClientMoves, StartRefresh, RefreshSucceeds, RefreshRefused, ServerMoves,
         RotateRead, RotateCommit, Faults, RefreshUnanswered, AppRestarts, RotateRollsBack,
         CheckPassword, IssueSession, StaysSignedIn, SweepAtOnce, SweepWaits, SweepEnds, SweepDies,
         DeviceMoves, SignOut, RevokePresented, SignedOut, LogoutEverywhere, ResetPassword, sessionVars
<1>3. Alone(DeviceOf[c])
  BY <1>2 DEF Alone
<1>4. ASSUME NEW x \in Callers, refresh[x].at = "idle", refresh'[x].at # "idle" PROVE Sends(x)
  <2>1. ~ReadsToken(x) /\ ~EndsCall(x)
    BY <1>4 DEF ReadsToken, EndsCall
  <2>2. ~RotateCommit(x)
    BY <1>4 DEF RotateCommit
  <2>3. refresh'[x] # refresh[x]
    BY <1>4
  <2>4. QED
    BY <1>1, <2>1, <2>2, <2>3, CallerStep
<1>5. ASSUME NEW x \in Callers, NEW y \in Callers, x # y, DeviceOf[x] = DeviceOf[y],
             Alone(DeviceOf[y]), Sends(x), refresh'[y].at # "idle"
      PROVE  FALSE
  <2>1. refresh[y].at # "idle"
    BY <1>5 DEF Sends
  <2>2. DeviceOf[x] \notin phones
    BY <1>5, <2>1 DEF Sends, StartRefresh, InFlight
  <2>3. QED
    BY <1>5, <2>2 DEF Alone
<1>6. QED
  BY <1>1, <1>3, <1>4, <1>5 DEF OneInFlight

(* Who rotates a token of a device is the one that is in flight there.      *)
LEMMA SpentByOwn ==
  ASSUME ReuseInv, [SessionsNext]_sessionVars, NEW t \in Ids, NEW d, Alone(d),
         From[token[t].family] = d, ~Spent(t), Spent(t)'
  PROVE  \E b \in Callers : /\ RotateCommit(b) /\ DeviceOf[b] = d
                            /\ refresh[b].at = "locked" /\ refresh'[b].at = "rotated"
                            /\ \A c \in Callers : DeviceOf[c] = d /\ refresh[c].at # "idle" => c = b
<1>1. SessionsInv /\ OwnTokens /\ OneInFlight
  BY DEF ReuseInv
<1>2. PICK b \in Callers : RotateCommit(b) /\ refresh[b].presented = t
  BY <1>1, SpentRows
<1>3. refresh[b].at = "locked" /\ refresh'[b].at = "rotated"
  BY <1>1, <1>2, CommitDoes
<1>4. DeviceOf[b] = d
  BY <1>1, <1>2, <1>3 DEF OwnTokens
<1>5. QED
  BY <1>1, <1>2, <1>3, <1>4 DEF OneInFlight

LEMMA FreshInFlightStep == ReuseInv /\ [SessionsNext]_sessionVars => FreshInFlight'
<1> DEFINE Fresh(c) == /\ refresh[c].at \in {"sent", "locked"} => ~Spent(refresh[c].presented)
                       /\ refresh[c].at = "reuse" => token[refresh[c].presented].revoked
                       /\ refresh[c].at = "rotated" => ~Spent(refresh[c].result)
<1> SUFFICES ASSUME ReuseInv, [SessionsNext]_sessionVars, NEW c \in Callers, Quiet(DeviceOf[c])'
             PROVE  Fresh(c)'
  BY DEF FreshInFlight
<1>1. SessionsInv /\ OwnTokens /\ OneInFlight /\ FreshHeld /\ FreshInFlight /\ TypeOK /\ Known
  BY DEF ReuseInv, SessionsInv
<1>2. Quiet(DeviceOf[c]) /\ Alone(DeviceOf[c])
  BY QuietBefore DEF Quiet
<1>3. Fresh(c)
  BY <1>1, <1>2 DEF FreshInFlight
<1>4. CASE refresh'[c] = refresh[c]
  <2>1. CASE refresh[c].at \in {"sent", "locked"}
    <3>1. PICK p \in Ids : refresh[c].presented = p /\ From[token[p].family] = DeviceOf[c] /\ ~Spent(p)
      BY <1>1, <1>3, <2>1 DEF OwnTokens, Known
    <3>2. ASSUME Spent(p)' PROVE FALSE
      BY <1>2, <1>4, <2>1, <3>1, <3>2, SpentByOwn
    <3>3. QED
      BY <1>4, <2>1, <3>1, <3>2
  <2>2. CASE refresh[c].at = "reuse"
    <3>1. PICK p \in Ids : refresh[c].presented = p /\ token[p].revoked
      BY <1>1, <1>3, <2>2 DEF Known
    <3>2. token'[p].revoked
      BY <1>1, <3>1, SpentRows
    <3>3. QED
      BY <1>4, <2>2, <3>1, <3>2
  <2>3. CASE refresh[c].at = "rotated"
    <3>1. PICK r \in Ids : refresh[c].result = r /\ From[token[r].family] = DeviceOf[c] /\ ~Spent(r)
      BY <1>1, <1>3, <2>3 DEF OwnTokens, Known
    <3>2. ASSUME Spent(r)' PROVE FALSE
      BY <1>2, <2>3, <3>1, <3>2, SpentByOwn
    <3>3. QED
      BY <1>4, <2>3, <3>1, <3>2
  <2>4. QED
    BY <1>4, <2>1, <2>2, <2>3
<1>5. CASE Sends(c)
  <2>1. PICK d \in Devices : d = DeviceOf[c]
    BY SessionsAssumption
  <2>2. ASSUME NEW b \in Callers, DeviceOf[b] = d, refresh[b].at = "rotated" PROVE FALSE
    <3>1. d \notin phones
      BY <1>5, <2>1, <2>2 DEF Sends, StartRefresh, InFlight
    <3>2. b = c
      BY <1>2, <2>1, <2>2, <3>1 DEF Alone
    <3>3. QED
      BY <1>5, <2>2, <3>2 DEF Sends
  <2>3. ~Spent(device[d].held)
    BY <1>1, <1>2, <1>5, <2>1, <2>2 DEF FreshHeld, Sends
  <2>4. QED
    BY <1>5, <2>1, <2>3 DEF Sends, Spent
<1>6. CASE ReadsToken(c)
  BY <1>3, <1>6 DEF ReadsToken, Spent, Live
<1>7. CASE RotateCommit(c)
  <2>1. /\ refresh[c].presented \in Ids
        /\ refresh'[c].at = "rotated" /\ refresh'[c].result = Len(token) + 1
    BY <1>1, <1>7, CommitDoes
  <2>2. Len(token) + 1 \in Ids' /\ Len(token) + 1 \notin Ids
    BY <1>1, <1>7, <2>1, RotatedRow
  <2>3. PICK n \in Ids' : n = Len(token) + 1 /\ n \notin Ids
    BY <2>2
  <2>4. ~Spent(n)'
    BY <1>1, <2>3, SpentRows
  <2>5. QED
    BY <2>1, <2>3, <2>4 DEF Spent
<1>8. CASE EndsCall(c)
  BY <1>8 DEF EndsCall
<1> HIDE DEF Fresh
<1>9. QED
  BY <1>1, <1>4, <1>5, <1>6, <1>7, <1>8, CallerStep

LEMMA FreshHeldStep == ReuseInv /\ [SessionsNext]_sessionVars => FreshHeld'
<1> SUFFICES ASSUME ReuseInv, [SessionsNext]_sessionVars, NEW d \in Devices, Quiet(d)',
                    device'[d].held # 0,
                    \A c \in Callers : DeviceOf[c] = d => refresh'[c].at # "rotated"
             PROVE  ~(token'[device'[d].held].used /\ ~token'[device'[d].held].revoked)
  BY DEF FreshHeld, Spent
<1>1. SessionsInv /\ OwnTokens /\ FreshHeld /\ FreshInFlight /\ TypeOK /\ Known
  BY DEF ReuseInv, SessionsInv
<1>2. Quiet(d) /\ Alone(d)
  BY QuietBefore DEF Quiet
<1>3. ASSUME NEW c \in Callers, DeviceOf[c] = d, refresh[c].at = "rotated"
      PROVE  ~(token'[device'[d].held].used /\ ~token'[device'[d].held].revoked)
  <2>1. ~Sends(c) /\ ~ReadsToken(c)
    BY <1>3 DEF Sends, ReadsToken
  <2>2. ~RotateCommit(c) /\ refresh'[c] # refresh[c]
    BY <1>3 DEF RotateCommit
  <2>3. EndsCall(c)
    BY <1>1, <2>1, <2>2, CallerStep
  <2>4. RefreshSucceeds(c)
    BY <1>3, <2>3 DEF EndsCall, Quiet
  <2>5. device'[d].held = refresh[c].result /\ UNCHANGED token
    BY <1>1, <1>3, <2>4 DEF RefreshSucceeds, TypeOK
  <2>6. ~Spent(refresh[c].result)
    BY <1>1, <1>2, <1>3 DEF FreshInFlight
  <2>7. QED
    BY <2>5, <2>6 DEF Spent
<1>4. CASE \A c \in Callers : DeviceOf[c] = d => refresh[c].at # "rotated"
  <2>1. CASE device'[d].held \in {0, device[d].held}
    <3>1. PICK h \in Ids : device[d].held = h /\ device'[d].held = h
      BY <1>1, <2>1 DEF Known
    <3>2. ~Spent(h) /\ From[token[h].family] = d
      BY <1>1, <1>2, <1>4, <3>1 DEF FreshHeld, OwnTokens
    <3>3. ASSUME Spent(h)' PROVE FALSE
      BY <1>2, <3>2, <3>3, SpentByOwn
    <3>4. QED
      BY <3>1, <3>3 DEF Spent
  <2>2. ASSUME NEW c \in Callers, DeviceOf[c] = d, RefreshSucceeds(c) PROVE FALSE
    BY <1>4, <2>2 DEF RefreshSucceeds
  <2>3. ASSUME NEW s \in SignIns, Starts(s), device'[d].held = Len(token) + 1
        PROVE  ~(token'[device'[d].held].used /\ ~token'[device'[d].held].revoked)
    <3>1. PICK v \in 0..MaxVersion : token' = Append(token, Issued(s, v, v))
      BY <2>3 DEF Starts
    <3>2. Len(token) + 1 \in Ids' /\ Len(token) + 1 \notin Ids
      BY <1>1, <2>3, <3>1, Inserted DEF Starts
    <3>3. QED
      BY <1>1, <2>3, <3>2, SpentRows DEF Spent
  <2>4. QED
    BY <1>1, <2>1, <2>2, <2>3, HeldStep
<1>5. QED
  BY <1>3, <1>4

LEMMA ReuseInitInv == SessionsInit => ReuseInv
<1> SUFFICES ASSUME SessionsInit PROVE ReuseInv
  OBVIOUS
<1>1. SessionsInv
  BY SessionsInitInv
<1>2. QED
  BY <1>1 DEF SessionsInit, At, ReuseInv, OwnTokens, OneInFlight, FreshInFlight, FreshHeld

LEMMA ReuseStepInv == ReuseInv /\ [SessionsNext]_sessionVars => ReuseInv'
  BY SessionsStepInv, OwnStep, OneInFlightStep, FreshInFlightStep, FreshHeldStep DEF ReuseInv

(* Where the refreshes of a device share their promise, the server takes a  *)
(* token for stolen only when it was revoked, or after an answer was lost   *)
(* or the app killed (tokenService.js rotateToken, client.ts, api.js).      *)
THEOREM ReuseIsExplained == SessionsSpec => []ReuseExplained
<1>1. ReuseInv => ReuseExplained
  BY DEF ReuseInv, FreshInFlight, ReuseExplained, Quiet
<1>2. QED
  BY <1>1, ReuseInitInv, ReuseStepInv, PTL DEF SessionsSpec
=============================================================================
