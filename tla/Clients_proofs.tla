--------------------------- MODULE Clients_proofs ---------------------------
(***************************************************************************)
(* Theorems about the clients, for any number of orders, accounts,         *)
(* conversations, listings and filters.                                    *)
(***************************************************************************)
EXTENDS Desk, Devices, Threads, Catalogue, TLAPS, FiniteSetTheorems
-----------------------------------------------------------------------------
(***************************************************************************)
(* The buyer's desk: what the checkout sheet and the list of orders tell.  *)
(***************************************************************************)

SheetPlaces ==
  {"closed", "choosing", "starting", "ready", "paying", "waiting", "settled", "slow"}
CallPlaces == {"resting", "reading", "landing", "moving"}
Snapshots == [Orders -> (Statuses \cup {"none"}) \X Nat]
ListCalls == [at : CallPlaces, of : Orders \cup {NoOrder},
              to : {"none", "fulfilled", "completed", "disputed"}, saw : Snapshots]

DeskTypes ==
  /\ status \in [Orders -> Statuses \cup {"none"}]
  /\ money \in [Orders -> {"none", "captured", "returned"}]
  /\ moves \in [Orders -> Nat]
  /\ sheet \in [at : SheetPlaces, of : Orders \cup {NoOrder}]
  /\ app.at = "presented" => app.of \in Orders
  /\ orderList \in [kind : {"web", "phone"}, role : {"buyer", "seller"},
                    shown : Snapshots, busy : Orders \cup {NoOrder}]
  /\ call \in [Calls -> ListCalls]
  /\ left \in [asks : BOOLEAN, pays : SUBSET Orders]
  /\ own \in [Orders -> Nat]
  /\ overlaid \in BOOLEAN

(* A sheet has an order from the answer of the checkout on, and its money    *)
(* from the payment on.                                                      *)
SheetTrue ==
  /\ sheet.at \in {"ready", "paying", "waiting", "settled", "slow"} => sheet.of \in Orders
  /\ sheet.at \in {"waiting", "settled", "slow"} => money[sheet.of] # "none"
  /\ sheet.at = "settled" => status[sheet.of] # "pending"

(* No money without an order. *)
MoneyHasOrder == \A o \in Orders : status[o] = "none" => money[o] = "none"

(* Requests that do not overlap come one at a time; what they saw, and what  *)
(* they left on the screen, is no older than the last answered move.         *)
ListTrue ==
  /\ \A o \in Orders : own[o] <= moves[o]
  /\ \A q \in Calls : call[q].at = "moving" => call[q].of \in Orders
  /\ ~overlaid =>
       /\ \A q, r \in Calls : call[q] # Resting /\ call[r] # Resting => q = r
       /\ \A q \in Calls : call[q].at = "landing" =>
            \A o \in Orders : call[q].saw[o][2] >= own[o]
       /\ (\A q \in Calls : call[q].at \in {"resting", "moving"}) =>
            \A o \in Orders : orderList.shown[o][2] >= own[o]

DeskInv == DeskTypes /\ SheetTrue /\ MoneyHasOrder /\ ListTrue

-----------------------------------------------------------------------------
(* What one step may do to the orders: nothing, or a step of the promise.  *)
ShopMoves ==
  \/ UNCHANGED shopVars
  \/ \E o \in Orders :
       /\ \/ Shop!Place(o) \/ Shop!Capture(o) \/ Shop!Return(o)
          \/ \E to \in Statuses : Shop!Advance(o, to)
       /\ moves' = IF status'[o] = status[o] THEN moves ELSE [moves EXCEPT ![o] = @ + 1]

ShopTypes ==
  /\ status \in [Orders -> Statuses \cup {"none"}]
  /\ money \in [Orders -> {"none", "captured", "returned"}]
  /\ moves \in [Orders -> Nat]

(* Money that was taken does not go untaken, an order behind it does not    *)
(* await payment again, and moves are counted up.                           *)
LEMMA ShopKeeps ==
  ASSUME ShopTypes, MoneyHasOrder, ShopMoves
  PROVE  /\ ShopTypes' /\ MoneyHasOrder'
         /\ \A o \in Orders :
              /\ moves[o] <= moves'[o]
              /\ money[o] # "none" =>
                   money'[o] # "none" /\ (status[o] # "pending" => status'[o] # "pending")
<1> USE DEF ShopTypes, MoneyHasOrder
<1>1. CASE UNCHANGED shopVars
  BY <1>1 DEF shopVars
<1>2. ASSUME NEW o \in Orders,
             moves' = IF status'[o] = status[o] THEN moves ELSE [moves EXCEPT ![o] = @ + 1]
      PROVE  moves' \in [Orders -> Nat] /\ \A p \in Orders : moves[p] <= moves'[p]
  BY <1>2
<1>3. ASSUME NEW o \in Orders, Shop!Place(o) \/ Shop!Capture(o) \/ Shop!Return(o)
      PROVE  /\ status' \in [Orders -> Statuses \cup {"none"}]
             /\ money' \in [Orders -> {"none", "captured", "returned"}]
             /\ MoneyHasOrder'
             /\ \A p \in Orders : money[p] # "none" =>
                  money'[p] # "none" /\ (status[p] # "pending" => status'[p] # "pending")
  BY <1>3 DEF Shop!Place, Shop!Capture, Shop!Return, Statuses
<1>4. ASSUME NEW o \in Orders, NEW to \in Statuses, Shop!Advance(o, to)
      PROVE  /\ status' \in [Orders -> Statuses \cup {"none"}]
             /\ money' \in [Orders -> {"none", "captured", "returned"}]
             /\ MoneyHasOrder'
             /\ \A p \in Orders : money[p] # "none" =>
                  money'[p] # "none" /\ (status[p] # "pending" => status'[p] # "pending")
  <2>1. status[o] # "none" /\ to # "pending"
    BY <1>4 DEF Shop!Advance, Shop!ValidTransitions, Statuses
  <2>2. QED
    BY <1>4, <2>1 DEF Shop!Advance, Statuses
<1>5. QED
  BY <1>1, <1>2, <1>3, <1>4 DEF ShopMoves

(* Whatever the clients and the rest of the world do, the orders take a step *)
(* of the promise.                                                           *)
LEMMA StepsOfPromise == DeskInv /\ DeskNext => ShopMoves
<1> SUFFICES ASSUME DeskInv, DeskNext PROVE ShopMoves
  OBVIOUS
<1> USE DEF DeskInv, DeskTypes, SheetTrue, ListTrue, Server, ShopMoves, shopVars, buyVars,
            listVars, Statuses
<1>1. ASSUME NEW o \in Orders, Elsewhere(o) PROVE ShopMoves
  BY <1>1 DEF Elsewhere
<1>2. CASE SheetSteps
  <2>1. CASE \/ OpenSheet \/ StartCheckout \/ CheckoutRefused \/ HandlePay
             \/ PaymentOpen \/ Poll \/ PollEnds \/ CloseSheet
    BY <2>1 DEF OpenSheet, StartCheckout, CheckoutRefused, HandlePay, PaymentOpen, Poll,
         PollEnds, CloseSheet
  <2>2. CASE PaymentTaken
    BY <2>2 DEF PaymentTaken, Turns
  <2>3. ASSUME NEW o \in Orders, CheckoutPlaces(o) \/ LeftPlaces(o) \/ LeftTaken(o)
        PROVE  ShopMoves
    BY <2>3 DEF CheckoutPlaces, LeftPlaces, LeftTaken
  <2>4. QED
    BY <1>2, <2>1, <2>2, <2>3 DEF SheetSteps
<1>3. CASE AppSteps
  <2>1. CASE AppPay \/ AppGivesUp
    BY <2>1 DEF AppPay, AppGivesUp
  <2>2. CASE AppTaken
    BY <2>2 DEF AppTaken
  <2>3. ASSUME NEW o \in Orders, AppPlaces(o) PROVE ShopMoves
    BY <2>3 DEF AppPlaces
  <2>4. QED
    BY <1>3, <2>1, <2>2, <2>3 DEF AppSteps
<1>4. ASSUME NEW q \in Calls, ListSteps(q) PROVE ShopMoves
  <2>1. CASE \/ Load(q) \/ Reads(q) \/ Lands(q) \/ LoadFails(q)
             \/ \E o \in Orders, to \in {"fulfilled", "completed", "disputed"} : Press(q, o, to)
    BY <2>1 DEF Load, Reads, Lands, LoadFails, Press
  <2>2. CASE Moved(q) \/ NotMoved(q)
    <3>1. call[q].of \in Orders /\ call[q].to \in Statuses \cup {"none"}
      BY <2>2 DEF Moved, NotMoved, ListCalls
    <3>2. call[q].to = "none" => ~ Shop!Advance(call[q].of, call[q].to)
      BY <3>1 DEF Shop!Advance, Shop!ValidTransitions
    <3>3. QED
      BY <2>2, <3>1, <3>2 DEF Moved, NotMoved
  <2>3. QED
    BY <1>4, <2>1, <2>2 DEF ListSteps
<1>5. QED
  BY <1>1, <1>2, <1>3, <1>4 DEF DeskNext

-----------------------------------------------------------------------------
SheetTypes ==
  /\ sheet \in [at : SheetPlaces, of : Orders \cup {NoOrder}]
  /\ app.at = "presented" => app.of \in Orders
  /\ left \in [asks : BOOLEAN, pays : SUBSET Orders]

LEMMA RestIsASnapshot == Resting.saw \in Snapshots
  BY DEF Resting, Snapshots

(* The sheet and the phone: what they say was paid is, and what is called   *)
(* settled was read after the payment.                                      *)
LEMMA PurchaseKeeps ==
  ASSUME DeskInv, SheetSteps \/ AppSteps
  PROVE  SheetTypes' /\ SheetTrue'
<1> USE RestIsASnapshot DEF DeskInv, DeskTypes, SheetTypes, SheetTrue, SheetPlaces, At, Turns
<1>1. ShopTypes' /\ \A o \in Orders : money[o] # "none" =>
                money'[o] # "none" /\ (status[o] # "pending" => status'[o] # "pending")
  BY StepsOfPromise, ShopKeeps DEF DeskNext, ShopTypes
<1>2. CASE OpenSheet \/ StartCheckout \/ CheckoutRefused \/ HandlePay \/ Poll \/ PollEnds
  BY <1>2 DEF OpenSheet, StartCheckout, CheckoutRefused, HandlePay, Poll, PollEnds, shopVars
<1>3. CASE PaymentTaken
  <2>1. sheet.of \in Orders /\ money'[sheet.of] # "none"
    BY <1>3 DEF PaymentTaken, Server, Shop!Capture
  <2>2. QED
    BY <1>3, <2>1 DEF PaymentTaken
<1>4. CASE PaymentOpen \/ CloseSheet
  <2>1. left' \in [asks : BOOLEAN, pays : SUBSET Orders]
    <3>1. CASE PaymentOpen
      BY <1>4, <3>1 DEF PaymentOpen
    <3>2. CASE CloseSheet
      BY <1>4, <3>2 DEF CloseSheet
    <3>3. QED
      BY <1>4, <3>1, <3>2
  <2>2. QED
    BY <1>4, <2>1 DEF PaymentOpen, CloseSheet, shopVars
<1>5. ASSUME NEW o \in Orders, CheckoutPlaces(o) PROVE SheetTypes' /\ SheetTrue'
  BY <1>5 DEF CheckoutPlaces
<1>6. ASSUME NEW o \in Orders, LeftPlaces(o) \/ LeftTaken(o)
      PROVE  SheetTypes' /\ SheetTrue'
  <2>1. left' \in [asks : BOOLEAN, pays : SUBSET Orders]
    <3>1. left' = [left EXCEPT !.asks = FALSE] \/ left' = [left EXCEPT !.pays = @ \ {o}]
      BY <1>6 DEF LeftPlaces, LeftTaken
    <3>2. left \in [asks : BOOLEAN, pays : SUBSET Orders]
      OBVIOUS
    <3>3. QED
      BY ONLY <3>1, <3>2
  <2>2. sheet' = sheet /\ app' = app
    BY <1>6 DEF LeftPlaces, LeftTaken
  <2>3. QED
    BY <1>1, <2>1, <2>2
<1>7. CASE AppPay \/ AppGivesUp \/ AppTaken
  BY <1>1, <1>7 DEF AppPay, AppGivesUp, AppTaken
<1>8. ASSUME NEW o \in Orders, AppPlaces(o) PROVE SheetTypes' /\ SheetTrue'
  BY <1>1, <1>8 DEF AppPlaces
<1>9. QED
  BY <1>2, <1>3, <1>4, <1>5, <1>6, <1>7, <1>8 DEF SheetSteps, AppSteps

ListTypes ==
  /\ orderList \in [kind : {"web", "phone"}, role : {"buyer", "seller"},
                    shown : Snapshots, busy : Orders \cup {NoOrder}]
  /\ call \in [Calls -> ListCalls]
  /\ own \in [Orders -> Nat]
  /\ overlaid \in BOOLEAN

LEMMA ListKeepsTypes ==
  ASSUME DeskInv, NEW q \in Calls, ListSteps(q)
  PROVE  ListTypes'
<1> USE RestIsASnapshot DEF DeskInv, DeskTypes, ListTrue, ListTypes, CallPlaces, ListCalls, Becomes
<1>1. ShopTypes'
  BY StepsOfPromise, ShopKeeps DEF DeskNext, ShopTypes
<1>2. Resting \in ListCalls
  BY DEF Resting, ListCalls
<1>3. CASE Load(q)
  BY <1>2, <1>3 DEF Load
<1>4. CASE Reads(q)
  <2>1. [o \in Orders |-> Row(o)] \in Snapshots
    BY DEF Snapshots, Row
  <2>2. PICK rows \in Snapshots : rows = [o \in Orders |-> Row(o)]
    BY <2>1
  <2>3. call' = [call EXCEPT ![q] = [call[q] EXCEPT !.at = "landing", !.saw = rows]]
    BY <1>4, <2>2 DEF Reads
  <2>4. call[q] \in ListCalls
    OBVIOUS
  <2>5. [call[q] EXCEPT !.at = "landing", !.saw = rows] \in ListCalls
    BY ONLY <2>2, <2>4 DEF ListCalls, CallPlaces
  <2>6. QED
    BY <1>4, <2>3, <2>5 DEF Reads
<1>5. CASE Lands(q)
  BY <1>2, <1>5 DEF Lands, Unbusies
<1>6. CASE LoadFails(q)
  BY <1>2, <1>6 DEF LoadFails, Unbusies
<1>7. CASE Moved(q)
  BY <1>1, <1>7 DEF Moved, ShopTypes
<1>8. CASE NotMoved(q)
  BY <1>2, <1>8 DEF NotMoved, Unbusies
<1>9. ASSUME NEW o \in Orders, NEW to \in {"fulfilled", "completed", "disputed"}, Press(q, o, to)
      PROVE  ListTypes'
  BY <1>2, <1>9 DEF Press
<1>10. QED
  BY <1>3, <1>4, <1>5, <1>6, <1>7, <1>8, <1>9 DEF ListSteps

(* The list: an answered move is read back before the list is at rest.       *)
LEMMA ListKeepsTruth ==
  ASSUME DeskInv, NEW q \in Calls, ListSteps(q)
  PROVE  ListTrue'
<1> USE DEF DeskInv, DeskTypes, ListTrue, CallPlaces, ListCalls, Becomes, Others
<1>1. ShopTypes' /\ \A o \in Orders : moves[o] <= moves'[o]
  BY StepsOfPromise, ShopKeeps DEF DeskNext, ShopTypes
<1>2. ListTypes'
  BY ListKeepsTypes
<1>3. \A o \in Orders : moves[o] \in Nat /\ moves'[o] \in Nat /\ own[o] \in Nat
  BY <1>1 DEF ShopTypes
<1>4. Resting.at = "resting" /\ Resting \in ListCalls
  BY RestIsASnapshot DEF Resting, ListCalls
<1>5. CASE Load(q)
  <2>1. /\ call'[q].at = "reading" /\ \A r \in Calls \ {q} : call'[r] = call[r]
        /\ moves' = moves /\ own' = own /\ orderList' = orderList
    BY <1>4, <1>5 DEF Load, shopVars
  <2>2. overlaid' \/ \A r \in Calls \ {q} : call[r] = Resting
    BY <1>5 DEF Load
  <2>3. QED
    BY <1>3, <1>4, <2>1, <2>2
<1>6. CASE Reads(q)
  <2>1. call'[q].at = "landing" /\ \A o \in Orders : call'[q].saw[o][2] = moves[o]
    BY <1>6 DEF Reads, Row
  <2>2. /\ call[q] # Resting /\ \A r \in Calls \ {q} : call'[r] = call[r]
        /\ moves' = moves /\ own' = own /\ orderList' = orderList /\ overlaid' = overlaid
    BY <1>4, <1>6 DEF Reads, shopVars
  <2>3. QED
    BY <1>3, <1>4, <2>1, <2>2
<1>7. CASE Lands(q)
  BY <1>1, <1>2, <1>3, <1>4, <1>7 DEF Lands
<1>8. CASE LoadFails(q)
  BY <1>1, <1>2, <1>3, <1>4, <1>8 DEF LoadFails
<1>9. CASE Moved(q)
  BY <1>1, <1>2, <1>3, <1>4, <1>9 DEF Moved
<1>10. CASE NotMoved(q)
  BY <1>1, <1>2, <1>3, <1>4, <1>10 DEF NotMoved
<1>11. ASSUME NEW o \in Orders, NEW to \in {"fulfilled", "completed", "disputed"}, Press(q, o, to)
       PROVE  ListTrue'
  <2>1. /\ call[q] = Resting /\ call'[q].at = "moving" /\ call'[q].of = o
        /\ \A r \in Calls \ {q} : call'[r] = call[r]
        /\ moves' = moves /\ own' = own /\ orderList'.shown = orderList.shown
    BY <1>4, <1>11 DEF Press, shopVars
  <2>2. overlaid' \/ (~overlaid /\ \A r \in Calls \ {q} : call[r] = Resting)
    BY <1>11 DEF Press
  <2>3. QED
    BY <1>3, <1>4, <2>1, <2>2
<1>12. QED
  BY <1>5, <1>6, <1>7, <1>8, <1>9, <1>10, <1>11 DEF ListSteps

-----------------------------------------------------------------------------
LEMMA DeskInitInv == DeskInit => DeskInv
<1> SUFFICES ASSUME DeskInit PROVE DeskInv
  OBVIOUS
<1> USE RestIsASnapshot
        DEF DeskInit, DeskTypes, SheetTrue, MoneyHasOrder, ListTrue, Shop!Init
<1>1. Resting \in ListCalls /\ Resting.at = "resting" /\ NoLeft \in [asks : BOOLEAN, pays : SUBSET Orders]
  BY DEF Resting, ListCalls, CallPlaces, NoLeft
<1>2. DeskTypes
  <2>1. DeskInit!1 /\ moves \in [Orders -> Nat] /\ own \in [Orders -> Nat]
    OBVIOUS
  <2>2. QED
    BY <1>1, <2>1 DEF SheetPlaces, At
<1>3. SheetTrue
  BY DEF At
<1>4. ListTrue
  <2>1. \A o \in Orders : own[o] = 0 /\ moves[o] = 0 /\ orderList.shown[o][2] = 0
    BY DEF Resting
  <2>2. QED
    BY <1>1, <2>1
<1>5. QED
  BY <1>2, <1>3, <1>4 DEF DeskInv

LEMMA DeskStepInv == DeskInv /\ [DeskNext]_deskVars => DeskInv'
<1> SUFFICES ASSUME DeskInv, [DeskNext]_deskVars PROVE DeskInv'
  OBVIOUS
<1>1. CASE UNCHANGED deskVars
  BY <1>1 DEF deskVars, shopVars, buyVars, listVars, DeskInv, DeskTypes, SheetTrue,
       MoneyHasOrder, ListTrue
<1>2. CASE DeskNext
  <2>1. /\ ShopTypes' /\ MoneyHasOrder'
        /\ \A o \in Orders :
             /\ moves[o] <= moves'[o]
             /\ money[o] # "none" =>
                  money'[o] # "none" /\ (status[o] # "pending" => status'[o] # "pending")
    BY <1>2, StepsOfPromise, ShopKeeps DEF DeskInv, DeskTypes, ShopTypes
  <2>2. SheetTypes' /\ SheetTrue'
    <3>1. CASE UNCHANGED buyVars
      BY <2>1, <3>1 DEF buyVars, SheetTypes, SheetTrue, DeskInv, DeskTypes
    <3>2. CASE SheetSteps \/ AppSteps
      BY <3>2, PurchaseKeeps
    <3>3. UNCHANGED buyVars \/ SheetSteps \/ AppSteps
      BY <1>2 DEF DeskNext, ListSteps, Elsewhere, Load, Reads, Lands, LoadFails, Moved,
           NotMoved, Press
    <3>4. QED
      BY <3>1, <3>2, <3>3
  <2>3. ListTypes' /\ ListTrue'
    <3>1. CASE UNCHANGED listVars
      <4>1. \A o \in Orders : own[o] \in Nat /\ moves[o] \in Nat /\ moves'[o] \in Nat
        BY <2>1 DEF ShopTypes, DeskInv, DeskTypes
      <4>2. QED
        BY <2>1, <3>1, <4>1 DEF listVars, ListTypes, ListTrue, DeskInv, DeskTypes
    <3>2. ASSUME NEW q \in Calls, ListSteps(q) PROVE ListTypes' /\ ListTrue'
      BY <3>2, ListKeepsTypes, ListKeepsTruth
    <3>3. UNCHANGED listVars \/ \E q \in Calls : ListSteps(q)
      BY <1>2 DEF DeskNext, Elsewhere, SheetSteps, AppSteps, OpenSheet, StartCheckout,
           CheckoutRefused, HandlePay, PaymentTaken, PaymentOpen, Poll, PollEnds, CloseSheet,
           CheckoutPlaces, LeftPlaces, LeftTaken, AppPay, AppTaken, AppGivesUp, AppPlaces
    <3>4. QED
      BY <3>1, <3>2, <3>3
  <2>4. QED
    BY <2>1, <2>2, <2>3 DEF DeskInv, DeskTypes, ShopTypes, SheetTypes, ListTypes
<1>3. QED
  BY <1>1, <1>2

(* Each screen's order and money stay in step with the server's, requests    *)
(* that are said not to overlap do not, and no reading under way is older    *)
(* than one's last answered move.                                            *)
THEOREM DeskCorrect == DeskSpec => []DeskInv
  BY DeskInitInv, DeskStepInv, PTL DEF DeskSpec

(* No sheet says a payment was received that was not, or that an order was   *)
(* confirmed of which the server says it awaits payment; a list at rest has  *)
(* caught up with one's own last answered move.                              *)
THEOREM NothingUntrueTold == DeskSpec => []DeskTellsTruth
<1>1. DeskInv => DeskTellsTruth
  BY DEF DeskInv, DeskTellsTruth, SheetTrue, ListTrue, Resting
<1>2. QED
  BY <1>1, DeskCorrect, PTL
-----------------------------------------------------------------------------
(***************************************************************************)
(* A phone's pushes go to who is signed in on it.                          *)
(***************************************************************************)

DeviceTypes ==
  /\ row \in Users \cup {NoUser}
  /\ phone \in [user : Users \cup {NoUser}, tokens : Users \cup {NoUser},
                stored : Users \cup {NoUser}, push : BOOLEAN]
  /\ renewing \in Users \cup {NoUser} /\ asking \in Nat /\ sent \in [Users -> Nat]
  /\ leaving \in {"no", "unregistering", "revoking"}
  /\ stray \in BOOLEAN /\ told \in BOOLEAN /\ allowed \in BOOLEAN

SentBy(u) == \A v \in Users \ {u} : sent[v] = 0

(* Who is told has registered with the tokens the phone still holds.         *)
ToldTruly ==
  told => /\ row = phone.user /\ leaving = "no"
          /\ phone.tokens = phone.user /\ SentBy(phone.user)

(* Unless something went astray, what is under way is the signed-in user's,  *)
(* nothing is under way once he leaves, and his row is gone before he is.    *)
RowFollows ==
  ~stray =>
    /\ phone.tokens = phone.user /\ phone.stored = phone.user
    /\ leaving = "no" => SentBy(phone.user) /\ row \in {phone.user, NoUser}
    /\ leaving # "no" => ~Registering
    /\ leaving = "unregistering" => row \in {phone.user, NoUser}
    /\ leaving = "revoking" => row = NoUser

DevicesInv ==
  DeviceTypes /\ phone.tokens \in {phone.stored, NoUser} /\ ToldTruly /\ RowFollows

-----------------------------------------------------------------------------
LEMMA DevicesInitInv == DevicesInit => DevicesInv
<1>1. NobodySignedIn \in [user : {NoUser}, tokens : {NoUser}, stored : {NoUser}, push : BOOLEAN]
  BY DEF NobodySignedIn
<1>2. ASSUME DevicesInit PROVE DevicesInv
  <2>1. sent \in [Users -> Nat] /\ \A u \in Users : sent[u] = 0
    BY <1>2 DEF DevicesInit
  <2>2. /\ phone.user = NoUser /\ phone.tokens = NoUser /\ phone.stored = NoUser
        /\ phone \in [user : Users \cup {NoUser}, tokens : Users \cup {NoUser},
                      stored : Users \cup {NoUser}, push : BOOLEAN]
    BY <1>2 DEF DevicesInit, NobodySignedIn
  <2>3. /\ row = NoUser /\ renewing = NoUser /\ asking = 0 /\ leaving = "no"
        /\ allowed = TRUE /\ stray = FALSE /\ told = FALSE
    BY <1>2 DEF DevicesInit
  <2>4. DeviceTypes
    BY <2>1, <2>2, <2>3 DEF DeviceTypes
  <2>5. ToldTruly /\ RowFollows
    BY <2>1, <2>2, <2>3 DEF ToldTruly, RowFollows, SentBy
  <2>6. QED
    BY <2>2, <2>4, <2>5 DEF DevicesInv
<1>3. QED
  BY <1>2

LEMMA DevicesStepInv == DevicesInv /\ [DevicesNext]_deviceVars => DevicesInv'
<1> SUFFICES ASSUME DevicesInv, [DevicesNext]_deviceVars PROVE DevicesInv'
  OBVIOUS
<1> USE DevicesAssumption
        DEF DevicesInv, DeviceTypes, ToldTruly, RowFollows, Registering, AllAnswered, SentBy,
            NobodySignedIn
<1>1. CASE UNCHANGED deviceVars
  BY <1>1 DEF deviceVars
<1>2. ASSUME NEW u \in Users, SignIn(u) PROVE DevicesInv'
  <2>1. /\ phone' \in [user : {u}, tokens : {u}, stored : {u}, push : BOOLEAN]
        /\ row' = row /\ sent' = sent /\ leaving' = "no" /\ told' = FALSE
        /\ stray' = (stray \/ Registering) /\ phone.user = NoUser /\ renewing' = renewing
    BY <1>2 DEF SignIn
  <2>2. asking' \in Nat /\ asking' >= asking /\ allowed' \in BOOLEAN
    BY <1>2 DEF SignIn, Begun
  <2>3. QED
    BY <2>1, <2>2
<1>3. ASSUME NEW u \in Users, RegisterToken(u) PROVE DevicesInv'
  <2>1. /\ row' = u /\ sent' \in [Users -> Nat] /\ \A v \in Users \ {u} : sent'[v] = sent[v]
        /\ UNCHANGED <<renewing, phone, asking, leaving, allowed>>
    BY <1>3 DEF RegisterToken
  <2>2. CASE {phone.user, phone.tokens} = {u} /\ leaving = "no"
    <3>1. /\ stray' \in BOOLEAN /\ told' \in BOOLEAN
          /\ ~stray' \/ told' => \A v \in Users : sent'[v] = 0
          /\ phone.user = u /\ phone.tokens = u
      BY <1>3, <2>2 DEF RegisterToken
    <3>2. phone.stored = u
      BY <3>1
    <3>3. QED
      BY <2>1, <2>2, <3>1, <3>2
  <2>3. CASE ~({phone.user, phone.tokens} = {u} /\ leaving = "no")
    BY <1>3, <2>1, <2>3 DEF RegisterToken
  <2>4. QED
    BY <2>2, <2>3
<1>4. ASSUME NEW u \in Users, RegisterFails(u) PROVE DevicesInv'
  BY <1>4 DEF RegisterFails
<1>5. CASE Restart
  <2>1. asking' \in Nat /\ renewing' = NoUser /\ told' = FALSE
        /\ UNCHANGED <<row, sent, leaving, allowed>> /\ leaving = "no"
    BY <1>5 DEF Restart, Begun
  <2>2. CASE /\ phone.stored # NoUser /\ stray' = stray
             /\ phone' = [user |-> phone.stored, tokens |-> phone.stored,
                          stored |-> phone.stored, push |-> FALSE]
    BY <2>1, <2>2
  <2>3. CASE /\ phone' = [NobodySignedIn EXCEPT !.stored = phone.stored]
             /\ stray' = (stray \/ phone.user # NoUser)
    BY <2>1, <2>3
  <2>4. QED
    BY <1>5, <2>2, <2>3 DEF Restart
<1>6. CASE Evicted
  BY <1>6 DEF Evicted
<1>7. CASE GotToken
  <2>1. /\ phone' = [phone EXCEPT !.push = TRUE] /\ asking > 0 /\ asking' = asking - 1
        /\ UNCHANGED <<renewing, row, leaving, allowed, stray, told>>
    BY <1>7 DEF GotToken
  <2>2. /\ phone' \in [user : Users \cup {NoUser}, tokens : Users \cup {NoUser},
                       stored : Users \cup {NoUser}, push : BOOLEAN]
        /\ phone'.user = phone.user /\ phone'.tokens = phone.tokens /\ phone'.stored = phone.stored
    BY <2>1
  <2>3. sent' \in [Users -> Nat] /\ \A v \in Users \ {phone.tokens} : sent'[v] = sent[v]
    BY <1>7 DEF GotToken
  <2>4. QED
    BY <2>1, <2>2, <2>3
<1>8. CASE NoPermission
  BY <1>8 DEF NoPermission
<1>9. CASE Logout
  BY <1>9 DEF Logout
<1>10. CASE UnregisterToken
  BY <1>10 DEF UnregisterToken
<1>11. CASE SessionEnds
  BY <1>11 DEF SessionEnds
<1>12. CASE SendPush \/ Permission
  <2>1. allowed' \in BOOLEAN
    BY <1>12 DEF SendPush, Permission
  <2>2. UNCHANGED <<renewing, row, phone, asking, sent, leaving, stray, told>>
    BY <1>12 DEF SendPush, Permission
  <2>3. QED
    BY <2>1, <2>2
<1>13. ASSUME NEW refused \in BOOLEAN, PushAnswered(refused) PROVE DevicesInv'
  <2>1. UNCHANGED <<renewing, phone, asking, sent, leaving, allowed, stray>>
    BY <1>13 DEF PushAnswered
  <2>2. CASE refused
    <3>1. row' = NoUser /\ told' = FALSE
      BY <1>13, <2>2, Zenon DEF PushAnswered
    <3>2. QED
      BY <2>1, <3>1
  <2>3. CASE ~refused
    <3>1. UNCHANGED <<row, told>>
      BY <1>13, <2>3, Zenon DEF PushAnswered
    <3>2. QED
      BY <2>1, <3>1
  <2>4. QED
    BY <2>2, <2>3
<1>14. CASE RefreshStarts
  BY <1>14 DEF RefreshStarts
<1>15. CASE RefreshLands
  BY <1>15 DEF RefreshLands
<1>16. QED
  BY <1>1, <1>2, <1>3, <1>4, <1>5, <1>6, <1>7, <1>8, <1>9, <1>10, <1>11, <1>12, <1>13, <1>14, <1>15
     DEF DevicesNext

(* What a phone has under way is its user's, or something went astray.       *)
THEOREM DevicesCorrect == DevicesSpec => []DevicesInv
  BY DevicesInitInv, DevicesStepInv, PTL DEF DevicesSpec

(* The token of a phone follows whoever is signed in on it.                  *)
THEOREM PushToWhoIsSignedIn == DevicesSpec => []PushFollowsSignIn
<1>1. DevicesInv => PushFollowsSignIn
  BY DEF DevicesInv, ToldTruly, RowFollows, SentBy, PushFollowsSignIn
<1>2. QED
  BY <1>1, DevicesCorrect, PTL
-----------------------------------------------------------------------------
(***************************************************************************)
(* Conversations: what counts as read was shown, and what a screen shows   *)
(* is current.                                                             *)
(***************************************************************************)

(* The least and the greatest of a set of numbers, by well-foundedness.     *)
LEMMA LeastOf ==
  ASSUME NEW T \in SUBSET Nat, T # {}
  PROVE  \E n \in T : \A k \in T : n <= k
<1> DEFINE Less == OpToRel(<, Nat)
<1>1. IsWellFoundedOn(Less, Nat)
  BY NatLessThanWellFounded
<1>2. \A n, k \in Nat : n < k => <<n, k>> \in Less
  BY DEF OpToRel
<1> HIDE DEF Less
<1>3. PICK n \in T : \A k \in T : ~ (<<k, n>> \in Less)
  BY <1>1, WFMin
<1>4. \A k \in T : ~ (k < n)
  BY <1>2, <1>3
<1>5. QED
  BY <1>3, <1>4

LEMMA GreatestOf ==
  ASSUME NEW T, NEW n \in Nat, T \subseteq 0 .. n, T # {}
  PROVE  \E k \in T : \A j \in T : j <= k
<1> DEFINE D == {n - k : k \in T}
<1>1. D \in SUBSET Nat /\ D # {}
  OBVIOUS
<1>2. PICK d \in D : \A e \in D : d <= e
  BY <1>1, LeastOf
<1>3. PICK k \in T : d = n - k
  BY <1>2
<1>4. ASSUME NEW j \in T PROVE j <= k
  <2>1. n - j \in D
    OBVIOUS
  <2>2. n - k <= n - j
    BY <1>2, <1>3, <2>1
  <2>3. QED
    BY <2>2
<1>5. QED
  BY <1>4

-----------------------------------------------------------------------------
(* The records of Threads                                                  *)
Places  == Convs \X Nat
OrNone  == Convs \cup {NoConv}
ReqRows == [kind : {"none", "list", "older", "thread", "reply", "mark"}, screen : Screens,
            conv : OrNone, at : {"sent", "inserted", "marked", "answered"},
            page : SUBSET Places, first : Nat, left : BOOLEAN]
Views   == [up : BOOLEAN, open : OrNone, shown : SUBSET Places, known : BOOLEAN]

ThreadTypes ==
  /\ msgs \in [Convs -> Seq({"me", "other"})] /\ mark \in [Convs -> Nat]
  /\ list \in [Convs -> {"absent", "read", "unread"}]
  /\ screen \in [Screens -> Views] /\ req \in [Slots -> ReqRows]

MarksReached == \A c \in Convs : mark[c] <= Len(msgs[c])

(* An answer has messages of its conversation; before it there are none.    *)
Answers ==
  \A r \in Slots :
    /\ req[r].kind = "none" => req[r] = NoRequest
    /\ req[r].kind # "none" => req[r].conv \in Convs
    /\ req[r].at # "answered" => req[r].page = {}
    /\ req[r].page # {} => req[r].page \subseteq Messages(req[r].conv)

ThreadBase == ThreadTypes /\ MarksReached /\ Answers

-----------------------------------------------------------------------------
LEMMA LenIs ==
  ASSUME ThreadTypes, NEW c \in Convs
  PROVE  /\ Len(msgs[c]) \in Nat /\ DOMAIN msgs[c] = 1 .. Len(msgs[c])
         /\ Messages(c) = {c} \X (1 .. Len(msgs[c])) /\ Messages(c) \subseteq Places
         /\ IsFiniteSet(Messages(c))
<1>1. msgs[c] \in Seq({"me", "other"})
  BY DEF ThreadTypes
<1>2. Len(msgs[c]) \in Nat /\ DOMAIN msgs[c] = 1 .. Len(msgs[c])
  BY <1>1
<1>3. Messages(c) = {c} \X (1 .. Len(msgs[c])) /\ Messages(c) \subseteq Places
  BY <1>2 DEF Messages, Places
<1>4. IsFiniteSet({c})
  BY FS_Singleton
<1>5. IsFiniteSet(1 .. Len(msgs[c]))
  <2>1. 1 \in Int /\ Len(msgs[c]) \in Int
    BY <1>2
  <2>2. QED
    BY <2>1, FS_Interval
<1>6. IsFiniteSet(Messages(c))
  BY ONLY <1>3, <1>4, <1>5, FS_Product
<1>7. QED
  BY <1>2, <1>3, <1>6

LEMMA FirstIs ==
  ASSUME NEW S \in SUBSET Places
  PROVE  FirstOf(S) \in Nat
<1>1. CASE S = {}
  BY <1>1 DEF FirstOf
<1>2. CASE S # {}
  <2> DEFINE T == {m[2] : m \in S}
  <2>1. T \in SUBSET Nat /\ T # {}
    BY <1>2 DEF Places
  <2>2. \E n \in T : \A k \in T : n <= k
    BY <2>1, LeastOf
  <2>3. \E n \in T : \A m \in S : n <= m[2]
    BY <2>2
  <2>4. FirstOf(S) \in T
    BY <1>2, <2>3 DEF FirstOf
  <2>5. QED
    BY <2>1, <2>4
<1>3. QED
  BY <1>1, <1>2

\* A number no message of S is beyond.
LEMMA LastIs ==
  ASSUME NEW S \in SUBSET Places, NEW n \in Nat, \A m \in S : m[2] <= n
  PROVE  /\ LastOf(S) \in Nat
         /\ \A m \in S : m[2] <= LastOf(S)
         /\ S # {} => \E m \in S : LastOf(S) = m[2]
         /\ S = {} => LastOf(S) = 0
<1>1. CASE S = {}
  BY <1>1 DEF LastOf
<1>2. CASE S # {}
  <2> DEFINE T == {m[2] : m \in S}
  <2>1. T \subseteq 0 .. n /\ T # {}
    BY <1>2 DEF Places
  <2>2. \E k \in T : \A j \in T : j <= k
    BY <2>1, GreatestOf
  <2>3. \E k \in T : \A m \in S : k >= m[2]
    <3>1. PICK k \in T : \A j \in T : j <= k
      BY <2>2
    <3>2. k \in Nat
      BY <2>1
    <3>3. \A m \in S : m[2] \in T /\ m[2] \in Nat
      BY DEF Places
    <3>4. QED
      BY <3>1, <3>2, <3>3
  <2>4. LastOf(S) \in T /\ \A m \in S : LastOf(S) >= m[2]
    BY <1>2, <2>3 DEF LastOf
  <2>5. \A m \in S : m[2] \in Nat
    BY DEF Places
  <2>6. LastOf(S) \in Nat
    BY <2>1, <2>4
  <2>7. QED
    BY <1>2, <2>4, <2>5, <2>6
<1>3. QED
  BY <1>1, <1>2

(* What a step makes of the slot r, the others left alone.                 *)
SlotTurns(r, slot) == req' = [req EXCEPT ![r] = slot]

LEMMA Rows ==
  ASSUME NEW q \in ReqRows, NEW k \in {"list", "older", "thread", "reply", "mark"}, NEW s \in Screens, NEW c \in Convs
  PROVE  /\ NoRequest \in ReqRows /\ Asks(s, c, k) \in ReqRows
         /\ \A n \in Nat : [Asks(s, c, k) EXCEPT !.first = n] \in ReqRows
         /\ \A w \in {"sent", "inserted", "marked", "answered"} : [q EXCEPT !.at = w] \in ReqRows
         /\ \A p \in SUBSET Places : [q EXCEPT !.at = "answered", !.page = p] \in ReqRows
         /\ [q EXCEPT !.kind = k, !.at = "sent", !.page = {}] \in ReqRows
         /\ \A n \in Nat : [q EXCEPT !.kind = k, !.at = "sent", !.page = {}, !.first = n] \in ReqRows
         /\ [q EXCEPT !.left = TRUE] \in ReqRows
<1> USE DEF ReqRows
<1>1. NoRequest \in ReqRows
  BY DEF NoRequest, OrNone, Screens
<1>2. Asks(s, c, k) \in ReqRows
  BY DEF Asks, NoRequest, OrNone, Screens
<1>3. \A n \in Nat : [Asks(s, c, k) EXCEPT !.first = n] \in ReqRows
  BY <1>2
<1>4. \A w \in {"sent", "inserted", "marked", "answered"} : [q EXCEPT !.at = w] \in ReqRows
  OBVIOUS
<1>5. \A p \in SUBSET Places : [q EXCEPT !.at = "answered", !.page = p] \in ReqRows
  OBVIOUS
<1>6. [q EXCEPT !.kind = k, !.at = "sent", !.page = {}] \in ReqRows
  OBVIOUS
<1>7. \A n \in Nat : [q EXCEPT !.kind = k, !.at = "sent", !.page = {}, !.first = n] \in ReqRows
  OBVIOUS
<1>8. [q EXCEPT !.left = TRUE] \in ReqRows
  OBVIOUS
<1>9. QED
  BY <1>1, <1>2, <1>3, <1>4, <1>5, <1>6, <1>7, <1>8

-----------------------------------------------------------------------------
(* Types, marks and answers                                                *)
SlotOK(r) ==
  /\ req[r].kind = "none" => req[r] = NoRequest
  /\ req[r].kind # "none" => req[r].conv \in Convs
  /\ req[r].at # "answered" => req[r].page = {}
  /\ req[r].page # {} => req[r].page \subseteq Messages(req[r].conv)

LEMMA ThreadsInitBase == ThreadsInit => ThreadBase
<1> SUFFICES ASSUME ThreadsInit PROVE ThreadBase
  OBVIOUS
<1>1. NoRequest \in ReqRows /\ Closed \in Views
  BY DEF NoRequest, ReqRows, Closed, Views, OrNone, Screens
<1>2. <<>> \in Seq({"me", "other"}) /\ Len(<<>>) = 0
  OBVIOUS
<1>3. ThreadTypes
  BY <1>1, <1>2 DEF ThreadsInit, ThreadTypes
<1>4. QED
  BY <1>2, <1>3 DEF ThreadsInit, ThreadBase, MarksReached, Answers, NoRequest

(* A message arrives at the end of its conversation.                       *)
LEMMA Appended ==
  ASSUME ThreadTypes, MarksReached, NEW c \in Convs, NEW w \in {"me", "other"},
         msgs' = [msgs EXCEPT ![c] = Append(@, w)], mark' = mark
  PROVE  /\ msgs' \in [Convs -> Seq({"me", "other"})] /\ MarksReached'
         /\ \A d \in Convs : Messages(d) \subseteq Messages(d)'
         /\ \A d \in Convs : \A m \in Messages(d) : msgs'[d][m[2]] = msgs[d][m[2]]
         /\ \A d \in Convs : \A m \in Messages(d)' : m \notin Messages(d) => m[2] > mark[d]
<1>1. msgs[c] \in Seq({"me", "other"}) /\ Len(msgs[c]) \in Nat
  BY DEF ThreadTypes
<1>2. \A d \in Convs : Messages(d) = {d} \X (1 .. Len(msgs[d])) /\ Len(msgs[d]) \in Nat
  BY LenIs
<1>3. /\ \A d \in Convs : d # c => msgs'[d] = msgs[d]
      /\ msgs'[c] = Append(msgs[c], w)
  BY DEF ThreadTypes
<1>4. /\ msgs'[c] \in Seq({"me", "other"}) /\ Len(msgs'[c]) = Len(msgs[c]) + 1
      /\ \A i \in 1 .. Len(msgs[c]) : msgs'[c][i] = msgs[c][i]
  BY <1>1, <1>3
<1>5. msgs' \in [Convs -> Seq({"me", "other"})]
  BY <1>3, <1>4 DEF ThreadTypes
<1>6. \A d \in Convs : Messages(d)' = {d} \X (1 .. Len(msgs'[d]))
  BY DEF Messages
<1>7. \A d \in Convs : Len(msgs[d]) <= Len(msgs'[d]) /\ Len(msgs'[d]) \in Nat /\ mark[d] \in Nat
                       /\ mark[d] <= Len(msgs[d])
  BY <1>2, <1>3, <1>4 DEF MarksReached, ThreadTypes
<1>8. MarksReached'
  BY <1>7 DEF MarksReached
<1>9. \A d \in Convs : Messages(d) \subseteq Messages(d)'
  BY <1>2, <1>6, <1>7
<1>10. ASSUME NEW d \in Convs, NEW m \in Messages(d) PROVE msgs'[d][m[2]] = msgs[d][m[2]]
  BY <1>2, <1>3, <1>4, <1>10
<1>11. ASSUME NEW d \in Convs, NEW m \in Messages(d)', m \notin Messages(d) PROVE m[2] > mark[d]
  <2>1. PICK i \in 1 .. Len(msgs'[d]) : m = <<d, i>>
    BY <1>6, <1>11
  <2>2. i \notin 1 .. Len(msgs[d])
    BY <1>2, <1>11, <2>1
  <2>3. QED
    BY <1>7, <2>1, <2>2
<1>12. QED
  BY <1>5, <1>8, <1>9, <1>10, <1>11

(* One slot turns, and keeps to its conversation.                          *)
LEMMA TurnOK ==
  ASSUME ThreadTypes, Answers, NEW r \in Slots, NEW slot \in ReqRows, SlotTurns(r, slot),
         \A d \in Convs : Messages(d) \subseteq Messages(d)',
         slot.kind = "none" => slot = NoRequest,
         slot.kind # "none" => slot.conv \in Convs,
         slot.at # "answered" => slot.page = {},
         slot.page # {} => slot.page \subseteq Messages(slot.conv)
  PROVE  /\ req' \in [Slots -> ReqRows] /\ Answers'
         /\ req'[r] = slot /\ \A q \in Slots \ {r} : req'[q] = req[q]
<1>1. /\ req' \in [Slots -> ReqRows]
      /\ req'[r] = slot /\ \A q \in Slots \ {r} : req'[q] = req[q]
  BY DEF ThreadTypes, SlotTurns
<1>2. \A q \in Slots \ {r} : req[q].page # {} => req[q].kind # "none"
  BY DEF Answers, NoRequest
<1>3. NoRequest.page = {} /\ NoRequest.kind = "none"
  BY DEF NoRequest
<1>4. ASSUME NEW q \in Slots PROVE SlotOK(q)'
  <2>1. CASE q = r
    <3>1. slot.page # {} => slot.conv \in Convs
      BY <1>3
    <3>2. slot.page # {} => Messages(slot.conv) \subseteq Messages(slot.conv)'
      BY <3>1
    <3>3. PICK c : c = slot.conv
      OBVIOUS
    <3>4. slot.page # {} => slot.page \subseteq Messages(c)'
      BY <3>1, <3>3
    <3>5. req'[q].page # {} => req'[q].page \subseteq Messages(req[q].conv)'
      BY <1>1, <2>1, <3>3, <3>4 DEF Messages
    <3>6. QED
      BY <1>1, <2>1, <3>5 DEF SlotOK
  <2>2. CASE q # r
    <3>1. req'[q] = req[q]
      BY <1>1, <2>2
    <3>2. req[q].page # {} => req[q].conv \in Convs /\ req[q].page \subseteq Messages(req[q].conv)
      BY <1>2, <2>2 DEF Answers
    <3>3. PICK c : c = req[q].conv
      OBVIOUS
    <3>4. req[q].page # {} => req[q].page \subseteq Messages(c)'
      BY <3>2, <3>3
    <3>5. req'[q].page # {} => req'[q].page \subseteq Messages(req[q].conv)'
      BY <3>1, <3>3, <3>4 DEF Messages
    <3>6. QED
      BY <3>1, <3>5 DEF Answers, SlotOK
  <2>3. QED
    BY <2>1, <2>2
<1>5. Answers'
  BY <1>4 DEF Answers, SlotOK
<1>6. QED
  BY <1>1, <1>5

LEMMA NotNone ==
  ASSUME ThreadBase, NEW r \in Slots, req[r].kind # "none" \/ req[r].at # "sent" \/ req[r].page # {}
  PROVE  req[r].conv \in Convs /\ req[r].kind # "none"
  BY DEF ThreadBase, Answers, NoRequest

LEMMA PageOf ==
  ASSUME ThreadBase, NEW c \in Convs
  PROVE  /\ Newest(c) \subseteq Messages(c) /\ Newest(c) \in SUBSET Places
         /\ \A n : Before(c, n) \subseteq Messages(c) /\ Before(c, n) \in SUBSET Places
  BY LenIs DEF Newest, Before, ThreadBase

(* What the requests come to.                                              *)
LEMMA ServerRows ==
  ASSUME ThreadBase, NEW r \in Slots
  PROVE  /\ MarkRead(r) => SlotTurns(r, [req[r] EXCEPT !.at = "marked"]) /\ req[r].page = {}
         /\ Insert(r) => SlotTurns(r, [req[r] EXCEPT !.at = "inserted"]) /\ req[r].page = {}
         /\ ReadPage(r) => \E p \in SUBSET Places :
              /\ p = IF req[r].kind = "older" THEN Before(req[r].conv, req[r].first) ELSE Newest(req[r].conv)
              /\ p \subseteq Messages(req[r].conv) /\ req[r].page = {} /\ req[r].conv \in Convs
              /\ req[r].at \in {"sent", "marked"}
              /\ SlotTurns(r, [req[r] EXCEPT !.at = "answered", !.page = p])
         /\ Fails(r) => SlotTurns(r, NoRequest)
<1>1. MarkRead(r) => SlotTurns(r, [req[r] EXCEPT !.at = "marked"]) /\ req[r].page = {}
  BY DEF MarkRead, SlotTurns, Is, ThreadBase, Answers
<1>2. Insert(r) => SlotTurns(r, [req[r] EXCEPT !.at = "inserted"]) /\ req[r].page = {}
  BY DEF Insert, SlotTurns, Is, ThreadBase, Answers
<1>3. Fails(r) => SlotTurns(r, NoRequest)
  BY DEF Fails, Frees, SlotTurns
<1>4. ASSUME ReadPage(r)
      PROVE  \E p \in SUBSET Places :
              /\ p = IF req[r].kind = "older" THEN Before(req[r].conv, req[r].first) ELSE Newest(req[r].conv)
              /\ p \subseteq Messages(req[r].conv) /\ req[r].page = {} /\ req[r].conv \in Convs
              /\ req[r].at \in {"sent", "marked"}
              /\ SlotTurns(r, [req[r] EXCEPT !.at = "answered", !.page = p])
  <2> DEFINE p == IF req[r].kind = "older" THEN Before(req[r].conv, req[r].first) ELSE Newest(req[r].conv)
  <2>1. req[r].at \in {"sent", "marked"} /\ (req[r].kind # "none" \/ req[r].at # "sent")
    BY <1>4 DEF ReadPage
  <2>2. req[r].conv \in Convs
    BY <2>1, NotNone
  <2>3. p \subseteq Messages(req[r].conv) /\ p \in SUBSET Places
    BY <2>2, PageOf
  <2>4. req[r].page = {}
    BY <2>1 DEF ThreadBase, Answers
  <2>5. SlotTurns(r, [req[r] EXCEPT !.at = "answered", !.page = p])
    BY <1>4 DEF ReadPage, SlotTurns
  <2>6. QED
    BY <2>1, <2>2, <2>3, <2>4, <2>5
<1>5. QED
  BY <1>1, <1>2, <1>3, <1>4

\* Where a landed request goes.
Next1(r, kinds) == \E k \in kinds : SlotTurns(r, [req[r] EXCEPT !.kind = k, !.at = "sent", !.page = {}])
NextPoll(r) == \E n \in Nat :
  SlotTurns(r, [req[r] EXCEPT !.kind = "thread", !.at = "sent", !.page = {}, !.first = n])

LEMMA GoesOnTurns ==
  ASSUME ThreadTypes, NEW r \in Slots, NEW k
  PROVE  GoesOn(r, k) => SlotTurns(r, [req[r] EXCEPT !.kind = k, !.at = "sent", !.page = {}])
  BY DEF GoesOn, SlotTurns, ThreadTypes

LEMMA LandRows ==
  ASSUME ThreadBase, NEW r \in Slots, LandSteps(r)
  PROVE  /\ req[r].at = "answered" /\ req[r].conv \in Convs /\ req[r].kind # "none"
         /\ req[r].page \subseteq Messages(req[r].conv) /\ IsFiniteSet(req[r].page)
         /\ SlotTurns(r, NoRequest) \/ Next1(r, {"list", "mark", "thread"}) \/ NextPoll(r)
         /\ UNCHANGED <<msgs, mark, crossed>>
<1>1. req[r].at = "answered" /\ UNCHANGED <<msgs, mark, crossed>>
  BY DEF LandSteps, InboxLands, ListingLands, PollGivesUp, PhoneLands, Landed
<1>2. req[r].conv \in Convs /\ req[r].kind # "none"
  BY <1>1, NotNone
<1>3. req[r].page \subseteq Messages(req[r].conv)
  BY DEF ThreadBase, Answers
<1>4. IsFiniteSet(Messages(req[r].conv))
  BY <1>2, LenIs DEF ThreadBase
<1>5. IsFiniteSet(req[r].page)
  BY <1>3, <1>4, FS_Subset
<1>6. Cardinality(req[r].page) \in Nat
  BY <1>5, FS_CardinalityType
<1>7. SlotTurns(r, NoRequest) \/ Next1(r, {"list", "mark", "thread"}) \/ NextPoll(r)
  <2>0. \A k \in {"list", "mark", "thread"} : GoesOn(r, k) => Next1(r, {"list", "mark", "thread"})
    BY GoesOnTurns DEF Next1, ThreadBase
  <2>1. CASE InboxLands(r)
    BY <2>1, <2>0 DEF InboxLands, Frees, SlotTurns
  <2>2. CASE ListingLands(r)
    <3>1. Frees(r) => SlotTurns(r, NoRequest)
      BY DEF Frees, SlotTurns
    <3>2. req' = [req EXCEPT ![r].kind = "thread", ![r].at = "sent", ![r].page = {},
                             ![r].first = Cardinality(req[r].page)] => NextPoll(r)
      BY <1>6 DEF NextPoll, SlotTurns
    <3>3. QED
      BY <2>2, <2>0, <3>1, <3>2 DEF ListingLands
  <2>3. CASE PollGivesUp(r)
    BY <2>3 DEF PollGivesUp, Frees, SlotTurns
  <2>4. CASE PhoneLands(r)
    BY <2>4, <2>0 DEF PhoneLands, Frees, SlotTurns
  <2>5. QED
    BY <2>1, <2>2, <2>3, <2>4 DEF LandSteps
<1>8. QED
  BY <1>1, <1>2, <1>3, <1>5, <1>7

LEMMA BaseStep == ThreadBase /\ [ThreadsNext]_threadVars => ThreadBase'
<1> SUFFICES ASSUME ThreadBase, [ThreadsNext]_threadVars PROVE ThreadBase'
  OBVIOUS
<1>1. ThreadTypes /\ MarksReached /\ Answers
  BY DEF ThreadBase
<1>2. NoRequest \in ReqRows /\ NoRequest.kind = "none" /\ NoRequest.page = {}
  BY DEF NoRequest, ReqRows, OrNone, Screens
<1>3. \A r \in Slots : req[r] \in ReqRows
  BY <1>1 DEF ThreadTypes
<1>4. UNCHANGED msgs => \A d \in Convs : Messages(d) \subseteq Messages(d)'
  BY DEF Messages
<1>5. UNCHANGED <<msgs, mark>> => MarksReached'
  BY <1>1 DEF MarksReached
<1>6. ASSUME NEW r \in Slots, SlotTurns(r, NoRequest), \A d \in Convs : Messages(d) \subseteq Messages(d)'
      PROVE  req' \in [Slots -> ReqRows] /\ Answers'
  BY <1>1, <1>2, <1>6, TurnOK
<1>7. ASSUME NEW c \in Convs, Arrives(c) PROVE ThreadBase'
  <2>1. msgs' \in [Convs -> Seq({"me", "other"})] /\ MarksReached' /\ UNCHANGED <<mark, list, screen, req>>
        /\ \A d \in Convs : Messages(d) \subseteq Messages(d)'
    BY <1>1, <1>7, Appended DEF Arrives
  <2>2. Answers'
    <3>1. ASSUME NEW r \in Slots, req[r].page # {} PROVE req[r].page \subseteq Messages(req[r].conv)'
      <4>1. PICK d \in Convs : req[r].conv = d
        BY <3>1, NotNone
      <4>2. req[r].page \subseteq Messages(d)'
        BY <1>1, <2>1, <3>1, <4>1 DEF Answers
      <4>3. QED
        BY <2>1, <4>1, <4>2 DEF Messages
    <3>2. QED
      BY <1>1, <2>1, <3>1 DEF Answers
  <2>3. QED
    BY <1>1, <2>1, <2>2 DEF ThreadBase, ThreadTypes
<1>8. ASSUME NEW r \in Slots, ServerSteps(r) PROVE ThreadBase'
  <2>1. CASE Insert(r)
    <3> DEFINE slot == [req[r] EXCEPT !.at = "inserted"]
    <3>1. SlotTurns(r, slot) /\ req[r].page = {} /\ req[r].kind = "reply" /\ UNCHANGED <<mark, list, screen>>
      BY <2>1, ServerRows DEF Insert, Is
    <3>2. PICK c \in Convs : req[r].conv = c
      BY <3>1, NotNone
    <3>3. msgs' \in [Convs -> Seq({"me", "other"})] /\ MarksReached'
          /\ \A d \in Convs : Messages(d) \subseteq Messages(d)'
      BY <1>1, <2>1, <3>1, <3>2, Appended DEF Insert
    <3>4. slot \in ReqRows /\ slot.kind = "reply" /\ slot.conv = c /\ slot.page = {}
      BY <1>3, <3>1, <3>2 DEF ReqRows
    <3> HIDE DEF slot
    <3>5. req' \in [Slots -> ReqRows] /\ Answers'
      BY <1>1, <3>1, <3>3, <3>4, TurnOK
    <3>6. QED
      BY <1>1, <3>1, <3>3, <3>5 DEF ThreadBase, ThreadTypes
  <2>2. CASE MarkRead(r)
    <3> DEFINE slot == [req[r] EXCEPT !.at = "marked"]
    <3>1. SlotTurns(r, slot) /\ req[r].page = {} /\ req[r].kind # "none" /\ UNCHANGED <<msgs, list, screen>>
      BY <2>2, ServerRows DEF MarkRead, Is
    <3>2. PICK c \in Convs : req[r].conv = c
      BY <3>1, NotNone
    <3>3. mark' = [mark EXCEPT ![c] = Len(msgs[c])] /\ Len(msgs[c]) \in Nat
      BY <1>1, <2>2, <3>2, LenIs DEF MarkRead
    <3>4. mark' \in [Convs -> Nat] /\ MarksReached'
      BY <1>1, <3>1, <3>3 DEF MarksReached, ThreadTypes
    <3>5. slot \in ReqRows /\ slot.kind # "none" /\ slot.conv = c /\ slot.page = {}
      BY <1>3, <3>1, <3>2 DEF ReqRows
    <3> HIDE DEF slot
    <3>6. req' \in [Slots -> ReqRows] /\ Answers'
      BY <1>1, <1>4, <3>1, <3>5, TurnOK
    <3>7. QED
      BY <1>1, <3>1, <3>4, <3>6 DEF ThreadBase, ThreadTypes
  <2>3. CASE ReadPage(r)
    <3>1. PICK p \in SUBSET Places : /\ p \subseteq Messages(req[r].conv) /\ req[r].conv \in Convs
                                     /\ SlotTurns(r, [req[r] EXCEPT !.at = "answered", !.page = p])
      BY <2>3, ServerRows
    <3> DEFINE slot == [req[r] EXCEPT !.at = "answered", !.page = p]
    <3>2. slot \in ReqRows /\ slot.conv = req[r].conv /\ slot.at = "answered" /\ slot.page = p /\ slot.kind = req[r].kind
      BY <1>3 DEF ReqRows
    <3>3. req[r].kind # "none"
      BY <2>3, NotNone DEF ReadPage
    <3>4. UNCHANGED <<msgs, mark, list, screen>> /\ SlotTurns(r, slot)
      BY <2>3, <3>1 DEF ReadPage
    <3> HIDE DEF slot
    <3>5. req' \in [Slots -> ReqRows] /\ Answers'
      BY <1>1, <1>4, <3>1, <3>2, <3>3, <3>4, TurnOK
    <3>6. QED
      BY <1>1, <1>5, <3>4, <3>5 DEF ThreadBase, ThreadTypes
  <2>4. CASE Fails(r)
    BY <1>1, <1>4, <1>5, <1>6, <2>4, ServerRows DEF Fails, ThreadBase, ThreadTypes
  <2>5. QED
    BY <1>8, <2>1, <2>2, <2>3, <2>4 DEF ServerSteps
<1>9. ASSUME NEW r \in Slots, LandSteps(r) PROVE ThreadBase'
  <2>1. /\ req[r].conv \in Convs /\ req[r].page \subseteq Messages(req[r].conv)
        /\ SlotTurns(r, NoRequest) \/ Next1(r, {"list", "mark", "thread"}) \/ NextPoll(r)
        /\ UNCHANGED <<msgs, mark, crossed>>
    BY <1>9, LandRows
  <2>2. req' \in [Slots -> ReqRows] /\ Answers'
    <3>1. CASE SlotTurns(r, NoRequest)
      BY <1>4, <1>6, <2>1, <3>1
    <3>2. CASE Next1(r, {"list", "mark", "thread"})
      <4>1. PICK k \in {"list", "mark", "thread"} :
              SlotTurns(r, [req[r] EXCEPT !.kind = k, !.at = "sent", !.page = {}])
        BY <3>2 DEF Next1
      <4> DEFINE slot == [req[r] EXCEPT !.kind = k, !.at = "sent", !.page = {}]
      <4>2. slot \in ReqRows /\ slot.kind = k /\ slot.conv = req[r].conv /\ slot.page = {}
        BY <1>3 DEF ReqRows
      <4> HIDE DEF slot
      <4>3. QED
        BY <1>1, <1>4, <2>1, <4>1, <4>2, TurnOK DEF slot
    <3>3. CASE NextPoll(r)
      <4>1. PICK n \in Nat :
              SlotTurns(r, [req[r] EXCEPT !.kind = "thread", !.at = "sent", !.page = {}, !.first = n])
        BY <3>3 DEF NextPoll
      <4> DEFINE slot == [req[r] EXCEPT !.kind = "thread", !.at = "sent", !.page = {}, !.first = n]
      <4>2. slot \in ReqRows /\ slot.kind = "thread" /\ slot.conv = req[r].conv /\ slot.page = {}
        BY <1>3 DEF ReqRows
      <4> HIDE DEF slot
      <4>3. QED
        BY <1>1, <1>4, <2>1, <4>1, <4>2, TurnOK DEF slot
    <3>4. QED
      BY <2>1, <3>1, <3>2, <3>3
  <2>3. list' \in [Convs -> {"absent", "read", "unread"}]
    BY <1>1, <1>9 DEF LandSteps, InboxLands, ListingLands, PollGivesUp, PhoneLands, Fetched, ThreadTypes
  <2>4. screen' \in [Screens -> Views]
    <3>1. \/ UNCHANGED screen
          \/ \E s \in Screens, p \in SUBSET Places : screen' = [screen EXCEPT ![s].shown = p]
          \/ \E p \in SUBSET Places : screen' = [screen EXCEPT !["phone"].shown = p, !["phone"].known = TRUE]
      <4>1. req[r].page \in SUBSET Places /\ req[r].screen \in Screens
            /\ screen["inbox"].shown \in SUBSET Places
        BY <1>1 DEF ThreadTypes, ReqRows, Views, Screens
      <4>2. ASSUME NEW p \in SUBSET Places, Shows(r, p)
            PROVE  UNCHANGED screen \/ screen' = [screen EXCEPT ![req[r].screen].shown = p]
        BY <4>2 DEF Shows
      <4>3. CASE InboxLands(r)
        BY <4>1, <4>2, <4>3 DEF InboxLands, Dropped
      <4>4. CASE ListingLands(r)
        BY <4>1, <4>2, <4>4 DEF ListingLands, Dropped
      <4>5. CASE PollGivesUp(r)
        BY <4>5 DEF PollGivesUp
      <4>6. CASE PhoneLands(r)
        BY <4>1, <4>2, <4>6 DEF PhoneLands, Dropped
      <4>7. QED
        BY <1>9, <4>3, <4>4, <4>5, <4>6 DEF LandSteps
    <3>2. ASSUME NEW s \in Screens, NEW p \in SUBSET Places
          PROVE  [screen[s] EXCEPT !.shown = p] \in Views /\ [screen[s] EXCEPT !.shown = p, !.known = TRUE] \in Views
      BY <1>1 DEF ThreadTypes, Views
    <3>3. \/ UNCHANGED screen
          \/ \E s \in Screens, v \in Views : screen' = [screen EXCEPT ![s] = v]
      <4>1. ASSUME NEW s \in Screens, NEW p \in SUBSET Places, screen' = [screen EXCEPT ![s].shown = p]
            PROVE  \E v \in Views : screen' = [screen EXCEPT ![s] = v]
        BY <3>2, <4>1
      <4>2. ASSUME NEW p \in SUBSET Places, screen' = [screen EXCEPT !["phone"].shown = p, !["phone"].known = TRUE]
            PROVE  \E v \in Views : screen' = [screen EXCEPT !["phone"] = v]
        <5>1. screen' = [screen EXCEPT !["phone"] = [screen["phone"] EXCEPT !.shown = p, !.known = TRUE]]
          BY <4>2
        <5>2. QED
          BY <3>2, <5>1 DEF Screens
      <4>3. QED
        BY <3>1, <4>1, <4>2 DEF Screens
    <3>4. QED
      BY <1>1, <3>3 DEF ThreadTypes
  <2>5. QED
    BY <1>1, <1>5, <2>1, <2>2, <2>3, <2>4 DEF ThreadBase, ThreadTypes
<1>10. CASE UserSteps
  <2>1. UNCHANGED <<msgs, mark>>
    BY <1>10 DEF UserSteps, OpenInbox, BackToList, Leave, Send, FetchList, LoadOlder, OpenThread, OpenPage
  <2>2. list' \in [Convs -> {"absent", "read", "unread"}]
    BY <1>1, <1>10
       DEF UserSteps, OpenInbox, BackToList, Leave, Send, FetchList, Fetched, LoadOlder, OpenThread, OpenPage, ThreadTypes
  <2>3. Closed \in Views /\ "inbox" \in Screens
    BY DEF Closed, Views, OrNone, Screens
  <2>4. ASSUME NEW s \in Screens, NEW c \in Convs, NEW k \in {"list", "older", "thread", "reply", "mark"}
        PROVE  /\ Asks(s, c, k) \in ReqRows /\ Asks(s, c, k).kind = k /\ Asks(s, c, k).conv = c
               /\ Asks(s, c, k).page = {}
    BY DEF Asks, NoRequest, ReqRows, OrNone, Screens
  <2>5. \A s \in Screens : screen[s] \in Views
    BY <1>1 DEF ThreadTypes
  <2>6. ASSUME NEW r \in Slots, NEW s \in Screens, NEW c \in Convs,
               NEW k \in {"list", "older", "thread", "reply", "mark"}, SlotTurns(r, Asks(s, c, k))
        PROVE  req' \in [Slots -> ReqRows] /\ Answers'
    BY <1>1, <1>4, <2>1, <2>4, <2>6, TurnOK
  <2>7. CASE UNCHANGED <<req, screen>>
    BY <1>1, <1>5, <2>1, <2>2, <2>7 DEF ThreadBase, ThreadTypes, Answers, Messages
  <2>8. CASE OpenInbox \/ BackToList
    <3>1. \E v \in Views : screen' = [screen EXCEPT !["inbox"] = v]
      <4>1. /\ [screen["inbox"] EXCEPT !.up = TRUE] \in Views
            /\ [screen["inbox"] EXCEPT !.open = NoConv, !.shown = {}] \in Views
        BY <2>3, <2>5 DEF Views, OrNone
      <4>2. BackToList => screen' = [screen EXCEPT !["inbox"] = [screen["inbox"] EXCEPT !.open = NoConv, !.shown = {}]]
        BY DEF BackToList
      <4>3. OpenInbox => screen' = [screen EXCEPT !["inbox"] = [screen["inbox"] EXCEPT !.up = TRUE]]
        BY DEF OpenInbox
      <4>4. QED
        BY <2>8, <4>1, <4>2, <4>3
    <3>2. screen' \in [Screens -> Views] /\ req' = req
      BY <1>1, <2>8, <3>1 DEF OpenInbox, BackToList, ThreadTypes
    <3>3. QED
      BY <1>1, <1>5, <2>1, <2>2, <3>2 DEF ThreadBase, ThreadTypes, Answers, Messages
  <2>9. ASSUME NEW s \in Screens, Leave(s) PROVE ThreadBase'
    <3>1. screen' \in [Screens -> Views]
      BY <1>1, <2>3, <2>9 DEF Leave, ThreadTypes
    <3>2. ASSUME NEW r \in Slots
          PROVE  req'[r] = req[r] \/ (req[r].kind # "none" /\ req'[r] = [req[r] EXCEPT !.left = TRUE])
      BY <2>9 DEF Leave
    <3>3. req' \in [Slots -> ReqRows]
      BY <1>3, <2>9 DEF Leave, ReqRows
    <3>4. ASSUME NEW r \in Slots
          PROVE  /\ req'[r] = req[r] \/ req'[r].kind # "none"
                 /\ req'[r].kind = req[r].kind /\ req'[r].conv = req[r].conv /\ req'[r].page = req[r].page
                 /\ req'[r].at = req[r].at
      BY <1>3, <3>2 DEF ReqRows
    <3>5. Answers'
      BY <1>1, <2>1, <3>4 DEF Answers, Messages
    <3>6. QED
      BY <1>1, <1>5, <2>1, <2>2, <3>1, <3>3, <3>5 DEF ThreadBase, ThreadTypes
  <2>10. ASSUME NEW s \in Screens, NEW r \in Slots, Send(s, r) PROVE ThreadBase'
    <3>1. screen[s].open \in Convs /\ UNCHANGED screen /\ SlotTurns(r, Asks(s, screen[s].open, "reply"))
      BY <2>5, <2>10 DEF Send, Views, OrNone, SlotTurns
    <3>2. QED
      BY <1>1, <1>5, <2>1, <2>2, <2>6, <3>1 DEF ThreadBase, ThreadTypes
  <2>11. ASSUME NEW r \in Slots, LoadOlder(r) PROVE ThreadBase'
    <3>1. PICK c \in Convs : screen["inbox"].open = c
      BY <2>3, <2>5, <2>11 DEF LoadOlder, Views, OrNone
    <3>2. PICK n \in Nat : n = FirstOf(screen["inbox"].shown)
      BY <2>3, <2>5, FirstIs DEF Views
    <3> DEFINE slot == [Asks("inbox", c, "older") EXCEPT !.first = n]
    <3>3. SlotTurns(r, slot) /\ UNCHANGED screen
      BY <2>11, <3>1, <3>2 DEF LoadOlder, SlotTurns
    <3>4. slot \in ReqRows /\ slot.kind = "older" /\ slot.conv = c /\ slot.page = {}
      <4>1. PICK a \in ReqRows : a = Asks("inbox", c, "older") /\ a.kind = "older" /\ a.conv = c /\ a.page = {}
        BY <2>3, <2>4
      <4>2. slot = [a EXCEPT !.first = n]
        BY <4>1
      <4> HIDE DEF slot
      <4>3. QED
        BY <4>1, <4>2 DEF ReqRows
    <3> HIDE DEF slot
    <3>5. req' \in [Slots -> ReqRows] /\ Answers'
      BY <1>1, <1>4, <2>1, <3>3, <3>4, TurnOK
    <3>6. QED
      BY <1>1, <1>5, <2>1, <2>2, <3>3, <3>5 DEF ThreadBase, ThreadTypes
  <2>12. ASSUME NEW c \in Convs, NEW r \in Slots, NEW q \in Slots, OpenThread(c, r, q) PROVE ThreadBase'
    <3>1. screen' \in [Screens -> Views]
      BY <1>1, <2>5, <2>12 DEF OpenThread, ThreadTypes, Views, OrNone, Screens
    <3>2. PICK slot \in {Asks("inbox", c, "mark"), NoRequest} :
            /\ r # q /\ req' = [req EXCEPT ![r] = Asks("inbox", c, "list"), ![q] = slot]
      BY <2>12 DEF OpenThread
    <3>3. req' \in [Slots -> ReqRows] /\ req'[r] = Asks("inbox", c, "list") /\ req'[q] = slot
          /\ \A o \in Slots : o = r \/ o = q \/ req'[o] = req[o]
      <4>1. PICK a \in ReqRows : a = Asks("inbox", c, "list")
        BY <2>3, <2>4
      <4>2. slot \in ReqRows
        BY <1>2, <2>3, <2>4, <3>2
      <4>3. r # q /\ req' = [req EXCEPT ![r] = a, ![q] = slot]
        BY <3>2, <4>1
      <4>4. QED
        BY <1>1, <4>1, <4>2, <4>3 DEF ThreadTypes
    <3>4. Answers'
      BY <1>1, <1>2, <2>1, <2>3, <2>4, <3>2, <3>3 DEF Answers, Messages
    <3>5. QED
      BY <1>1, <1>5, <2>1, <2>2, <3>1, <3>3, <3>4 DEF ThreadBase, ThreadTypes
  <2>13. ASSUME NEW s \in Screens, NEW c \in Convs, NEW r \in Slots, NEW known \in BOOLEAN,
                OpenPage(s, c, known, r)
         PROVE  ThreadBase'
    <3>1. screen' \in [Screens -> Views]
      <4>1. [Closed EXCEPT !.up = TRUE, !.open = c, !.known = known] \in Views
        BY DEF Closed, Views, OrNone
      <4>2. QED
        BY <1>1, <2>13, <4>1 DEF OpenPage, ThreadTypes
    <3>2. SlotTurns(r, NoRequest) \/ \E k \in {"list", "thread"} : SlotTurns(r, Asks(s, c, k))
      BY <2>13 DEF OpenPage, SlotTurns
    <3>3. req' \in [Slots -> ReqRows] /\ Answers'
      BY <1>4, <1>6, <2>1, <2>6, <3>2
    <3>4. QED
      BY <1>1, <1>5, <2>1, <2>2, <3>1, <3>3 DEF ThreadBase, ThreadTypes
  <2>14. FetchList => UNCHANGED <<req, screen>>
    BY DEF FetchList
  <2>15. QED
    BY <1>10, <2>7, <2>8, <2>9, <2>10, <2>11, <2>12, <2>13, <2>14 DEF UserSteps
<1>11. CASE UNCHANGED threadVars
  BY <1>1, <1>5, <1>11 DEF threadVars, ThreadBase, ThreadTypes, Answers, Messages
<1>12. QED
  BY <1>7, <1>8, <1>9, <1>10, <1>11 DEF ThreadsNext

-----------------------------------------------------------------------------
(* What was read was shown                                                 *)
\* Slot r will bring message m.
Brings(r, m) ==
  /\ req[r].conv = m[1]
  /\ \/ m \in req[r].page /\ req[r].kind # "mark"
     \/ req[r].kind \in {"thread", "reply"} /\ req[r].at = "marked"
     \/ req[r].kind = "thread" /\ req[r].at = "sent" /\ req[r].first > 0
     \/ req[r].kind = "list" /\ req[r].at = "sent"
     \/ req[r].kind = "reply" /\ req[r].screen = "inbox" /\ req[r].at = "answered"

LEMMA ComingIs == \A m : Coming(m) <=> \E r \in Slots : Brings(r, m)
  BY DEF Coming, Brings

\* Read, of the other party, and on no screen yet.
Owing(m) == /\ m[1] \in Convs /\ m \in Theirs(m[1]) /\ m[2] <= mark[m[1]]
            /\ m \notin seen /\ m \notin lost

LEMMA OwedAre == ReadWasShown <=> \A m : Owing(m) => \E r \in Slots : Brings(r, m)
<1>1. \A c \in Convs : \A m \in Theirs(c) : m[1] = c
  BY DEF Theirs, Messages
<1>2. ASSUME ReadWasShown, NEW m, Owing(m) PROVE \E r \in Slots : Brings(r, m)
  <2>1. m \in ReadUnseen(m[1], mark[m[1]]) \ lost
    BY <1>2 DEF Owing, ReadUnseen
  <2>2. m[1] \in Convs
    BY <1>2 DEF Owing
  <2>3. Coming(m)
    BY <1>2, <2>1, <2>2 DEF ReadWasShown
  <2>4. QED
    BY <2>3, ComingIs
<1>3. ASSUME \A m : Owing(m) => \E r \in Slots : Brings(r, m),
             NEW c \in Convs, NEW m \in ReadUnseen(c, mark[c]) \ lost
      PROVE  Coming(m)
  <2>1. m[1] = c /\ m \in Theirs(c) /\ m[2] <= mark[c] /\ m \notin seen
    BY <1>1, <1>3 DEF ReadUnseen
  <2>2. Owing(m)
    BY <1>3, <2>1 DEF Owing
  <2>3. QED
    BY <1>3, <2>2, ComingIs
<1>4. QED
  BY <1>2, <1>3 DEF ReadWasShown

LEMMA OwingShown ==
  ASSUME NEW m, Owing(m)
  PROVE  m[1] \in Convs /\ m \in ReadUnseen(m[1], mark[m[1]]) /\ m \notin lost
  BY DEF Owing, ReadUnseen

(* What is owed after a step is brought by the slot r, or by one that did   *)
(* not move.                                                               *)
LEMMA SlotsBring ==
  ASSUME NEW r, \A q \in Slots \ {r} : req'[q] = req[q],
         \A m : Owing(m)' => \/ r \in Slots /\ Brings(r, m)'
                             \/ \E q \in Slots \ {r} : Brings(q, m)
  PROVE  ReadWasShown'
<1>1. ASSUME NEW m, Owing(m)' PROVE \E q \in Slots : Brings(q, m)'
  <2>1. ASSUME NEW q \in Slots \ {r}, Brings(q, m) PROVE Brings(q, m)'
    <3>1. req'[q] = req[q]
      BY <2>1
    <3>2. QED
      BY <2>1, <3>1 DEF Brings
  <2>2. QED
    BY <1>1, <2>1
<1>2. ASSUME NEW c \in Convs, NEW m \in ReadUnseen(c, mark[c])' \ lost' PROVE Coming(m)'
  <2>1. m[1] = c /\ m \in Theirs(c)' /\ m[2] <= mark'[c] /\ m \notin seen'
    BY <1>2 DEF ReadUnseen, Theirs, Messages
  <2>2. m \in Theirs(m[1])'
    BY <2>1
  <2>3. Owing(m)'
    BY <1>2, <2>1, <2>2 DEF Owing
  <2>4. QED
    BY <1>1, <2>3 DEF Coming, Brings
<1>3. QED
  BY <1>2 DEF ReadWasShown

(* Nothing more is owed; the slot r brings, shows or lets go what it had to *)
(* bring, and the other slots go on.                                       *)
LEMMA SlotAnswers ==
  ASSUME ReadWasShown, NEW r, \A q \in Slots \ {r} : req'[q] = req[q],
         \A m : Owing(m)' => Owing(m),
         \A m : Owing(m) /\ Owing(m)' /\ r \in Slots /\ Brings(r, m) => Brings(r, m)'
  PROVE  ReadWasShown'
<1>1. ASSUME NEW m, Owing(m)'
      PROVE  \/ r \in Slots /\ Brings(r, m)'
             \/ \E q \in Slots \ {r} : Brings(q, m)
  <2>1. PICK q \in Slots : Brings(q, m)
    BY <1>1, OwedAre
  <2>2. QED
    BY <1>1, <2>1
<1>2. QED
  BY <1>1, SlotsBring

LEMMA OwingKept ==
  ASSUME UNCHANGED <<msgs, mark>>, seen \subseteq seen', lost \subseteq lost'
  PROVE  \A m : Owing(m)' <=> Owing(m) /\ m \notin seen' /\ m \notin lost'
  BY DEF Owing, Theirs, Messages

LEMMA OwingArrived ==
  ASSUME ThreadTypes, MarksReached, NEW c \in Convs, NEW w \in {"me", "other"},
         msgs' = [msgs EXCEPT ![c] = Append(@, w)], UNCHANGED <<mark, seen, lost>>
  PROVE  \A m : Owing(m)' => Owing(m)
<1> SUFFICES ASSUME NEW m, Owing(m)' PROVE Owing(m)
  OBVIOUS
<1>1. PICK d \in Convs : d = m[1]
  BY DEF Owing
<1>2. m \in Messages(d)' /\ msgs'[d][m[2]] = "other" /\ m[2] <= mark[d] /\ m \notin seen /\ m \notin lost
  BY <1>1 DEF Owing, Theirs
<1>3. m \in Messages(d)
  <2>1. m[2] \in Nat
    BY <1>1, <1>2 DEF Messages
  <2>2. mark[d] \in Nat
    BY DEF ThreadTypes
  <2>3. m \notin Messages(d) => m[2] > mark[d]
    BY <1>2, Appended
  <2>4. QED
    BY <1>2, <2>1, <2>2, <2>3
<1>4. msgs[d][m[2]] = "other"
  BY <1>2, <1>3, Appended
<1>5. QED
  BY <1>1, <1>2, <1>3, <1>4 DEF Owing, Theirs

ThreadsInv == ThreadBase /\ ReadWasShown

LEMMA ServerShown ==
  ASSUME ThreadsInv, NEW r \in Slots, ServerSteps(r)
  PROVE  ReadWasShown'
<1>1. ThreadBase /\ ThreadTypes /\ MarksReached /\ Answers /\ ReadWasShown
  BY DEF ThreadsInv, ThreadBase
<1>2. ASSUME NEW slot, SlotTurns(r, slot) PROVE req'[r] = slot /\ \A q \in Slots \ {r} : req'[q] = req[q]
  BY <1>1, <1>2 DEF ThreadTypes, SlotTurns
<1>3. req[r] \in ReqRows
  BY <1>1 DEF ThreadTypes
<1>4. CASE Insert(r)
  <2>1. req[r].page = {} /\ req[r].kind = "reply" /\ req[r].at = "sent"
    BY <1>1, <1>4, ServerRows DEF Insert, Is
  <2>2. \A m : ~Brings(r, m)
    BY <2>1 DEF Brings
  <2>3. req[r].conv \in Convs
    BY <1>1, <2>1, NotNone
  <2>4. \A m : Owing(m)' => Owing(m)
    BY <1>1, <1>4, <2>3, OwingArrived DEF Insert
  <2>5. \A q \in Slots \ {r} : req'[q] = req[q]
    BY <1>1, <1>2, <1>4, ServerRows
  <2>6. QED
    BY <1>1, <2>2, <2>4, <2>5, SlotAnswers
<1>5. CASE MarkRead(r)
  <2> DEFINE slot == [req[r] EXCEPT !.at = "marked"]
  <2>1. SlotTurns(r, slot) /\ req[r].page = {} /\ req[r].kind # "none"
    BY <1>1, <1>5, ServerRows DEF MarkRead, Is
  <2>2. req'[r] = slot /\ \A q \in Slots \ {r} : req'[q] = req[q]
    BY <1>2, <2>1
  <2>3. slot.at = "marked" /\ slot.conv = req[r].conv /\ slot.kind = req[r].kind /\ slot.page = {}
    BY <1>3, <2>1 DEF ReqRows
  <2>4. PICK c \in Convs : req[r].conv = c
    BY <1>1, <2>1, NotNone
  <2>5. /\ \A d \in Convs \ {c} : mark'[d] = mark[d]
        /\ mark'[c] = Len(msgs[c]) /\ seen' = seen /\ msgs' = msgs /\ lost \subseteq lost'
    BY <1>1, <1>5, <2>4 DEF MarkRead, LetGo, ThreadTypes
  <2>6. ASSUME NEW m, Owing(m)', m[1] # c PROVE \E q \in Slots \ {r} : Brings(q, m)
    <3>1. Owing(m)
      BY <2>5, <2>6 DEF Owing, Theirs, Messages
    <3>2. PICK q \in Slots : Brings(q, m)
      BY <1>1, <3>1, OwedAre
    <3>3. q # r
      BY <2>4, <2>6, <3>2 DEF Brings
    <3>4. QED
      BY <3>2, <3>3
  <2>7. ASSUME NEW m, Owing(m)', m[1] = c, req[r].kind = "mark"
        PROVE  \E q \in Slots \ {r} : Brings(q, m)
    <3>1. m \in ReadUnseen(c, Len(msgs[c])) /\ m \notin lost'
      BY <2>5, <2>7 DEF Owing, Theirs, Messages, ReadUnseen
    <3>2. lost' = lost \cup {n \in ReadUnseen(c, Len(msgs[c])) : ~Coming(n)}
      BY <1>5, <2>4, <2>7 DEF MarkRead, LetGo
    <3>3. Coming(m)
      BY <3>1, <3>2
    <3>4. PICK q \in Slots : Brings(q, m)
      BY <3>3, ComingIs
    <3>5. q # r
      BY <2>7, <3>4 DEF Brings
    <3>6. QED
      BY <3>4, <3>5
  <2>8. ASSUME NEW m, Owing(m)', m[1] = c, req[r].kind # "mark" PROVE Brings(r, m)'
    <3>1. req[r].kind \in {"thread", "reply"}
      BY <1>5, <2>8 DEF MarkRead, Is
    <3>2. req'[r].kind \in {"thread", "reply"} /\ req'[r].at = "marked" /\ req'[r].conv = m[1]
      BY <2>2, <2>3, <2>4, <2>8, <3>1
    <3>3. QED
      BY <3>2 DEF Brings
  <2>9. QED
    BY <2>2, <2>6, <2>7, <2>8, SlotsBring
<1>6. CASE ReadPage(r)
  <2>1. PICK p \in SUBSET Places :
           /\ p = IF req[r].kind = "older" THEN Before(req[r].conv, req[r].first) ELSE Newest(req[r].conv)
           /\ req[r].page = {} /\ req[r].conv \in Convs /\ req[r].at \in {"sent", "marked"}
           /\ SlotTurns(r, [req[r] EXCEPT !.at = "answered", !.page = p])
    BY <1>1, <1>6, ServerRows
  <2> DEFINE slot == [req[r] EXCEPT !.at = "answered", !.page = p]
  <2>2. slot.at = "answered" /\ slot.conv = req[r].conv /\ slot.kind = req[r].kind /\ slot.page = p
    BY <1>3, <2>1 DEF ReqRows
  <2>3. req'[r] = slot /\ \A q \in Slots \ {r} : req'[q] = req[q]
    BY <1>2, <2>1
  <2>4. UNCHANGED <<msgs, mark, seen>> /\ lost \subseteq lost'
    BY <1>6 DEF ReadPage, LetGo
  <2>5. \A m : Owing(m)' <=> Owing(m) /\ m \notin seen' /\ m \notin lost'
    BY <2>4, OwingKept
  <2>6. ASSUME NEW m, Owing(m), Owing(m)', Brings(r, m) PROVE Brings(r, m)'
    <3>1. req[r].kind \notin {"older", "mark"} /\ m[1] = req[r].conv
      BY <2>1, <2>6 DEF Brings
    <3>2. m \in ReadUnseen(req[r].conv, mark[req[r].conv]) /\ m \notin lost'
      BY <2>5, <2>6, <3>1, OwingShown
    <3>3. lost' = lost \cup (ReadUnseen(req[r].conv, mark[req[r].conv]) \ p)
      BY <1>6, <2>1, <3>1 DEF ReadPage, LetGo
    <3>4. m \in p
      BY <3>2, <3>3
    <3>5. QED
      BY <2>2, <2>3, <3>1, <3>4 DEF Brings
  <2>7. QED
    BY <1>1, <2>3, <2>5, <2>6, SlotAnswers
<1>7. CASE Fails(r)
  <2>1. UNCHANGED <<msgs, mark, seen>> /\ lost' = lost \cup Unshown(r)
    BY <1>7 DEF Fails, LetGo
  <2>2. \A m : Owing(m)' <=> Owing(m) /\ m \notin seen' /\ m \notin lost'
    BY <2>1, OwingKept
  <2>3. \A q \in Slots \ {r} : req'[q] = req[q]
    BY <1>1, <1>2, <1>7, ServerRows
  <2>4. ASSUME NEW m, Owing(m), Owing(m)', Brings(r, m) PROVE FALSE
    <3>1. req[r].conv = m[1] /\ m[1] \in Convs /\ m \in ReadUnseen(m[1], mark[m[1]])
      BY <2>4, OwingShown DEF Brings
    <3>2. m \in Unshown(r)
      BY <3>1, ThreadsAssumption DEF Unshown
    <3>3. QED
      BY <2>1, <2>2, <2>4, <3>2
  <2>5. QED
    BY <1>1, <2>2, <2>3, <2>4, SlotAnswers
<1>8. QED
  BY <1>4, <1>5, <1>6, <1>7 DEF ServerSteps

(* A page that lands is shown to the user or let go.                       *)
LEMMA ShowsAll ==
  ASSUME ThreadBase, NEW r \in Slots, req[r].conv \in Convs, NEW p, req[r].page \subseteq p, Shows(r, p)
  PROVE  /\ seen \subseteq seen' /\ lost \subseteq lost'
         /\ \A m \in req[r].page : Owing(m) /\ m[1] = req[r].conv => m \in seen' \/ m \in lost'
<1>1. seen \subseteq seen' /\ lost \subseteq lost'
  BY DEF Shows, LetGo
<1>2. ASSUME NEW m \in req[r].page, Owing(m), m[1] = req[r].conv PROVE m \in seen' \/ m \in lost'
  <2>1. m \in Unshown(r)
    BY <1>2, OwingShown, ThreadsAssumption DEF Unshown
  <2>2. QED
    BY <1>2, <2>1 DEF Shows, LetGo
<1>3. QED
  BY <1>1, <1>2

LEMMA LandShown ==
  ASSUME ThreadsInv, NEW r \in Slots, LandSteps(r)
  PROVE  ReadWasShown'
<1>1. ThreadBase /\ ThreadTypes /\ MarksReached /\ Answers /\ ReadWasShown
  BY DEF ThreadsInv, ThreadBase
<1>2. req[r] \in ReqRows /\ req[r].conv \in Convs /\ req[r].at = "answered" /\ IsFiniteSet(req[r].page)
      /\ UNCHANGED <<msgs, mark>>
  BY <1>1, LandRows DEF ThreadTypes
<1>3. \A q \in Slots \ {r} : req'[q] = req[q]
  BY <1>1, LandRows DEF ThreadTypes, SlotTurns, Next1, NextPoll
<1>4. ASSUME NEW m, Brings(r, m)
      PROVE  /\ m[1] = req[r].conv /\ req[r].kind # "mark"
             /\ m \in req[r].page \/ (req[r].kind = "reply" /\ req[r].screen = "inbox")
  BY <1>2, <1>4 DEF Brings
<1>5. ASSUME NEW k, GoesOn(r, k) PROVE req'[r].kind = k /\ req'[r].at = "sent" /\ req'[r].conv = req[r].conv
                                       /\ req'[r].first = req[r].first
  <2> DEFINE slot == [req[r] EXCEPT !.kind = k, !.at = "sent", !.page = {}]
  <2>1. SlotTurns(r, slot)
    BY <1>1, <1>5, GoesOnTurns
  <2>2. slot.kind = k /\ slot.at = "sent" /\ slot.conv = req[r].conv /\ slot.first = req[r].first
    BY <1>2 DEF ReqRows
  <2> HIDE DEF slot
  <2>3. req'[r] = slot
    BY <1>1, <2>1 DEF ThreadTypes, SlotTurns
  <2>4. QED
    BY <2>2, <2>3
<1>6. ASSUME seen \subseteq seen', lost \subseteq lost',
             \A m : Owing(m) /\ m \notin seen' /\ m \notin lost' /\ Brings(r, m) => Brings(r, m)'
      PROVE  ReadWasShown'
  <2>1. \A m : Owing(m)' <=> Owing(m) /\ m \notin seen' /\ m \notin lost'
    BY <1>2, <1>6, OwingKept
  <2>2. QED
    BY <1>1, <1>3, <1>6, <2>1, SlotAnswers
<1>7. ASSUME NEW p, req[r].page \subseteq p, Shows(r, p), req[r].kind # "reply" \/ req[r].screen # "inbox"
      PROVE  ReadWasShown'
  BY <1>1, <1>2, <1>4, <1>6, <1>7, ShowsAll
<1>8. ASSUME GoesOn(r, "list"), seen \subseteq seen', lost \subseteq lost' PROVE ReadWasShown'
  <2>1. \A m : Brings(r, m) => Brings(r, m)'
    BY <1>4, <1>5, <1>8 DEF Brings
  <2>2. QED
    BY <1>6, <1>8, <2>1
<1>9. CASE InboxLands(r)
  <2>1. ASSUME req[r].kind \in {"mark", "reply"}, Dropped,
               IF req[r].kind = "reply" THEN GoesOn(r, "list") ELSE Frees(r)
        PROVE  ReadWasShown'
    <3>1. UNCHANGED <<seen, lost>>
      BY <2>1 DEF Dropped
    <3>2. CASE req[r].kind = "reply"
      BY <1>8, <2>1, <3>1, <3>2
    <3>3. CASE req[r].kind = "mark"
      BY <1>4, <1>6, <3>1, <3>3
    <3>4. QED
      BY <2>1, <3>2, <3>3
  <2>2. req[r].kind = "list" /\ Shows(r, req[r].page) => ReadWasShown'
    BY <1>7
  <2>3. req[r].kind = "older" /\ Shows(r, req[r].page \cup screen["inbox"].shown) => ReadWasShown'
    BY <1>7
  <2>4. QED
    BY <1>9, <2>1, <2>2, <2>3 DEF InboxLands
<1>10. CASE ListingLands(r)
  <2>1. req[r].screen # "inbox"
    BY <1>10 DEF ListingLands, Landed
  <2>2. CASE Shows(r, req[r].page)
    BY <1>7, <2>1, <2>2
  <2>3. CASE Dropped /\ GoesOn(r, "thread") /\ ~(Cardinality(req[r].page) > req[r].first)
    <3>1. ASSUME NEW m, Brings(r, m) PROVE Brings(r, m)'
      <4>1. m \in req[r].page
        BY <1>4, <2>1, <3>1
      <4>2. Cardinality(req[r].page) \in Nat /\ Cardinality(req[r].page) # 0
        BY <1>2, <4>1, FS_CardinalityType, FS_EmptySet
      <4>3. req[r].first > 0
        BY <1>2, <2>3, <4>2 DEF ReqRows
      <4>4. QED
        BY <1>4, <1>5, <2>3, <3>1, <4>3 DEF Brings
    <3>2. QED
      BY <1>6, <2>3, <3>1 DEF Dropped
  <2>4. QED
    BY <1>10, <2>2, <2>3 DEF ListingLands
<1>11. CASE PollGivesUp(r)
  <2>1. req[r].screen # "inbox" /\ seen' = seen /\ lost' = lost \cup (req[r].page \cap Unshown(r))
    BY <1>11 DEF PollGivesUp, Landed, LetGo
  <2>2. ASSUME NEW m, Owing(m), Brings(r, m) PROVE m \in lost'
    <3>1. m \in req[r].page /\ m[1] = req[r].conv
      BY <1>4, <2>1, <2>2
    <3>2. m \in Unshown(r)
      BY <1>2, <2>2, <3>1, OwingShown, ThreadsAssumption DEF Unshown
    <3>3. QED
      BY <2>1, <3>1, <3>2
  <2>3. QED
    BY <1>6, <2>1, <2>2
<1>12. CASE PhoneLands(r)
  <2>1. req[r].screen # "inbox"
    BY <1>12 DEF PhoneLands, Landed
  <2>2. CASE Shows(r, req[r].page)
    BY <1>7, <2>1, <2>2
  <2>3. CASE req[r].kind = "mark" /\ Dropped
    BY <1>4, <1>6, <2>3 DEF Dropped
  <2>4. CASE seen' = seen \cup req[r].page /\ UNCHANGED lost /\ GoesOn(r, "list")
    BY <1>8, <2>4
  <2>5. QED
    BY <1>12, <2>2, <2>3, <2>4 DEF PhoneLands
<1>13. QED
  BY <1>9, <1>10, <1>11, <1>12 DEF LandSteps

LEMMA UserShown ==
  ASSUME ThreadsInv, UserSteps
  PROVE  ReadWasShown'
<1>1. ThreadBase /\ ThreadTypes /\ ReadWasShown
  BY DEF ThreadsInv, ThreadBase
<1>2. UNCHANGED <<msgs, mark, lost>> /\ seen \subseteq seen'
  BY DEF UserSteps, OpenInbox, BackToList, Leave, Send, FetchList, LoadOlder, OpenThread, OpenPage
<1>3. \A m : Owing(m)' => Owing(m)
  BY <1>2, OwingKept
<1>4. ASSUME NEW r \in Slots
      PROVE  \/ req'[r] = req[r] \/ req[r] = NoRequest
             \/ req'[r] = [req[r] EXCEPT !.left = TRUE]
  <2>1. ASSUME NEW s \in Screens, Leave(s)
        PROVE  req'[r] = req[r] \/ req'[r] = [req[r] EXCEPT !.left = TRUE]
    BY <2>1 DEF Leave
  <2>2. ASSUME NEW s \in Screens, NEW q \in Slots, Send(s, q)
        PROVE  req'[r] = req[r] \/ req[r] = NoRequest
    BY <1>1, <2>2 DEF Send, ThreadTypes
  <2>3. ASSUME NEW q \in Slots, LoadOlder(q) PROVE req'[r] = req[r] \/ req[r] = NoRequest
    BY <1>1, <2>3 DEF LoadOlder, ThreadTypes
  <2>4. ASSUME NEW c \in Convs, NEW q \in Slots, NEW o \in Slots, OpenThread(c, q, o)
        PROVE  req'[r] = req[r] \/ req[r] = NoRequest
    BY <1>1, <2>4 DEF OpenThread, ThreadTypes
  <2>5. ASSUME NEW s \in Screens, NEW c \in Convs, NEW q \in Slots, NEW known \in BOOLEAN,
               OpenPage(s, c, known, q)
        PROVE  req'[r] = req[r] \/ req[r] = NoRequest
    BY <1>1, <2>5 DEF OpenPage, ThreadTypes
  <2>6. OpenInbox \/ BackToList \/ FetchList => req' = req
    BY DEF OpenInbox, BackToList, FetchList
  <2>7. QED
    BY <2>1, <2>2, <2>3, <2>4, <2>5, <2>6 DEF UserSteps
<1>5. ASSUME NEW r \in Slots, NEW m, Brings(r, m), m[1] \in Convs PROVE Brings(r, m)'
  <2>1. CASE req'[r] = req[r]
    BY <1>5, <2>1 DEF Brings
  <2>2. CASE req[r] = NoRequest
    BY <1>5, <2>2, ThreadsAssumption DEF Brings, NoRequest
  <2>3. CASE req'[r] = [req[r] EXCEPT !.left = TRUE]
    <3>1. /\ req'[r].conv = req[r].conv /\ req'[r].page = req[r].page /\ req'[r].kind = req[r].kind
          /\ req'[r].at = req[r].at /\ req'[r].first = req[r].first /\ req'[r].screen = req[r].screen
      BY <1>1, <2>3 DEF ThreadTypes, ReqRows
    <3>2. QED
      BY <1>5, <3>1 DEF Brings
  <2>4. QED
    BY <1>4, <2>1, <2>2, <2>3
<1>6. ASSUME NEW c \in Convs, NEW m \in ReadUnseen(c, mark[c])' \ lost' PROVE Coming(m)'
  <2>1. m[1] = c /\ m \in Theirs(c)' /\ m[2] <= mark'[c] /\ m \notin seen'
    BY <1>6 DEF ReadUnseen, Theirs, Messages
  <2>2. Owing(m)'
    BY <1>6, <2>1 DEF Owing
  <2>3. PICK r \in Slots : Brings(r, m)
    BY <1>1, <1>3, <2>2, OwedAre
  <2>4. Brings(r, m)'
    BY <1>5, <2>1, <2>3
  <2>5. QED
    BY <2>4 DEF Coming, Brings
<1>7. QED
  BY <1>6 DEF ReadWasShown

LEMMA ThreadsInitInv == ThreadsInit => ThreadsInv
<1> SUFFICES ASSUME ThreadsInit PROVE ThreadsInv
  OBVIOUS
<1>1. \A c \in Convs : Messages(c) = {}
  BY DEF ThreadsInit, Messages
<1>2. ReadWasShown
  BY <1>1 DEF ReadWasShown, ReadUnseen, Theirs
<1>3. QED
  BY <1>2, ThreadsInitBase DEF ThreadsInv

LEMMA ThreadsStepInv == ThreadsInv /\ [ThreadsNext]_threadVars => ThreadsInv'
<1> SUFFICES ASSUME ThreadsInv, [ThreadsNext]_threadVars PROVE ReadWasShown'
  BY BaseStep DEF ThreadsInv
<1>1. ThreadTypes /\ MarksReached /\ ReadWasShown
  BY DEF ThreadsInv, ThreadBase
<1>2. ASSUME NEW c \in Convs, Arrives(c) PROVE ReadWasShown'
  <2>1. \A m : Owing(m)' => Owing(m)
    BY <1>1, <1>2, OwingArrived DEF Arrives
  <2>2. PICK r : r \notin Slots
    BY NoSetContainsEverything
  <2>3. req' = req
    BY <1>2 DEF Arrives
  <2>4. QED
    BY <1>1, <2>1, <2>2, <2>3, SlotAnswers
<1>3. CASE UNCHANGED threadVars
  BY <1>1, <1>3 DEF threadVars, ReadWasShown, ReadUnseen, Theirs, Messages, Coming
<1>4. QED
  BY <1>2, <1>3, ServerShown, LandShown, UserShown DEF ThreadsNext

(* A message that counts as read was shown, is coming, or was let go where  *)
(* the code lets messages go (messagesService.js, Inbox.jsx, useMessages.js,*)
(* ThreadScreen.tsx).                                                       *)
THEOREM ReadMeansShown == ThreadsSpec => []ReadWasShown
<1>1. ThreadsInv => ReadWasShown
  BY DEF ThreadsInv
<1>2. QED
  BY <1>1, ThreadsInitInv, ThreadsStepInv, PTL DEF ThreadsSpec

-----------------------------------------------------------------------------
(* What a screen shows is current                                          *)
ShowsOn(r, s) ==
  req[r].screen = s /\ ~req[r].left /\ req[r].kind \in {"list", "older", "thread", "reply"}

\* No message of S is beyond all of T.
Within(S, T) == \A m \in S : \E n \in T : m[2] <= n[2]

(* A screen that is not up waits for nothing.  Unless the user crossed an   *)
(* answer, one answer at a time is out for a screen, for the thread it has *)
(* open, and what it brings is not behind what is shown.                   *)
ScreenOK(s) ==
  /\ ~screen[s].up => screen[s] = Closed /\ \A r \in Slots : ~ShowsOn(r, s)
  /\ s \notin crossed =>
       /\ screen[s].open = NoConv => screen[s].shown = {} /\ \A r \in Slots : ~ShowsOn(r, s)
       /\ screen[s].open # NoConv => screen[s].shown \subseteq Messages(screen[s].open)
       /\ \A q, r \in Slots : ShowsOn(q, s) /\ ShowsOn(r, s) => q = r
       /\ \A r \in Slots : ShowsOn(r, s) =>
            /\ req[r].conv = screen[s].open
            /\ req[r].at = "answered" /\ req[r].kind # "older" => Within(screen[s].shown, req[r].page)

CurrentInv == ThreadBase /\ \A s \in Screens : ScreenOK(s)

LEMMA AwaitsIs == \A s : Awaits(s) <=> \E r \in Slots : ShowsOn(r, s)
  BY DEF Awaits, ShowsOn

LEMMA MessagesGrow ==
  ASSUME ThreadBase, [ThreadsNext]_threadVars
  PROVE  \A c \in Convs : Messages(c) \subseteq Messages(c)'
<1>1. UNCHANGED msgs => \A c \in Convs : Messages(c) \subseteq Messages(c)'
  BY DEF Messages
<1>2. ASSUME NEW c \in Convs, Arrives(c) PROVE \A d \in Convs : Messages(d) \subseteq Messages(d)'
  BY <1>2, Appended DEF Arrives, ThreadBase
<1>3. ASSUME NEW r \in Slots, ServerSteps(r) PROVE \A d \in Convs : Messages(d) \subseteq Messages(d)'
  <2>1. CASE Insert(r)
    <3>1. PICK c \in Convs : req[r].conv = c
      BY <2>1, NotNone DEF Insert, Is
    <3>2. QED
      BY <2>1, <3>1, Appended DEF Insert, ThreadBase
  <2>2. CASE ~Insert(r)
    BY <1>1, <1>3, <2>2 DEF ServerSteps, MarkRead, ReadPage, Fails
  <2>3. QED
    BY <2>1, <2>2
<1>4. ASSUME NEW r \in Slots, LandSteps(r) PROVE UNCHANGED msgs
  BY <1>4, LandRows
<1>5. UserSteps \/ UNCHANGED threadVars => UNCHANGED msgs
  BY DEF UserSteps, OpenInbox, BackToList, Leave, Send, FetchList, LoadOlder, OpenThread, OpenPage, threadVars
<1>6. QED
  BY <1>1, <1>2, <1>3, <1>4, <1>5 DEF ThreadsNext

(* A screen that stays as it is, with no more answers out for it.           *)
LEMMA ScreenStays ==
  ASSUME ThreadBase, NEW s \in Screens, ScreenOK(s), UNCHANGED screen[s],
         s \in crossed => s \in crossed',
         \A c \in Convs : Messages(c) \subseteq Messages(c)',
         \A r \in Slots : ShowsOn(r, s)' =>
            /\ ShowsOn(r, s)
            /\ req'[r].conv = req[r].conv
            /\ s \notin crossed /\ req'[r].at = "answered" /\ req'[r].kind # "older" =>
                 Within(screen[s].shown, req'[r].page)
  PROVE  ScreenOK(s)'
<1>1. screen[s].open \in OrNone
  BY DEF ThreadBase, ThreadTypes, Views
<1>2. PICK c \in OrNone : screen[s].open = c /\ screen'[s].open = c
  BY <1>1
<1>3. s \notin crossed' /\ c # NoConv => screen'[s].shown \subseteq Messages(c)'
  BY <1>2 DEF ScreenOK, OrNone
<1>4. \A S, T : Within(S, T)' <=> Within(S, T)
  BY DEF Within
<1>5. s \notin crossed' /\ screen'[s].open # NoConv => screen'[s].shown \subseteq Messages(screen[s].open)'
  BY <1>2, <1>3 DEF Messages
<1>6. QED
  BY <1>5 DEF ScreenOK, Within

(* The slot r turns, for a screen that stays as it is.                      *)
LEMMA OthersStay ==
  ASSUME ThreadBase, NEW s \in Screens, ScreenOK(s), UNCHANGED <<screen[s], crossed>>,
         \A c \in Convs : Messages(c) \subseteq Messages(c)',
         NEW r, \A q \in Slots \ {r} : req'[q] = req[q],
         r \in Slots /\ ShowsOn(r, s)' =>
            /\ ShowsOn(r, s)
            /\ req'[r].conv = req[r].conv
            /\ s \notin crossed /\ req'[r].at = "answered" /\ req'[r].kind # "older" =>
                 Within(screen[s].shown, req'[r].page)
  PROVE  ScreenOK(s)'
<1>1. ASSUME NEW q \in Slots, q # r, ShowsOn(q, s)'
      PROVE  /\ ShowsOn(q, s)
             /\ req'[q].conv = req[q].conv
             /\ s \notin crossed /\ req'[q].at = "answered" /\ req'[q].kind # "older" =>
                  Within(screen[s].shown, req'[q].page)
  <2>1. req'[q] = req[q]
    BY <1>1
  <2>2. ShowsOn(q, s)
    BY <1>1, <2>1 DEF ShowsOn
  <2>3. QED
    BY <2>1, <2>2 DEF ScreenOK
<1>2. QED
  BY <1>1, ScreenStays

LEMMA ServerCurrent ==
  ASSUME CurrentInv, [ThreadsNext]_threadVars, NEW r \in Slots, ServerSteps(r), NEW s \in Screens
  PROVE  ScreenOK(s)' /\ UNCHANGED screen
<1>1. ThreadBase /\ ThreadTypes /\ ScreenOK(s)
  BY DEF CurrentInv, ThreadBase
<1>2. \A c \in Convs : Messages(c) \subseteq Messages(c)'
  BY <1>1, MessagesGrow
<1>3. UNCHANGED <<screen, crossed>>
  BY DEF ServerSteps, Insert, MarkRead, ReadPage, Fails
<1>4. ASSUME NEW slot, SlotTurns(r, slot) PROVE req'[r] = slot /\ \A q \in Slots \ {r} : req'[q] = req[q]
  BY <1>1, <1>4 DEF ThreadTypes, SlotTurns
<1>5. req[r] \in ReqRows
  BY <1>1 DEF ThreadTypes
<1>6. ASSUME NEW w \in {"inserted", "marked"}, SlotTurns(r, [req[r] EXCEPT !.at = w]) PROVE ScreenOK(s)'
  <2> DEFINE slot == [req[r] EXCEPT !.at = w]
  <2>1. /\ slot.screen = req[r].screen /\ slot.left = req[r].left /\ slot.kind = req[r].kind
        /\ slot.conv = req[r].conv /\ slot.at # "answered"
    BY <1>5 DEF ReqRows
  <2>2. req'[r] = slot /\ \A q \in Slots \ {r} : req'[q] = req[q]
    BY <1>4, <1>6
  <2> HIDE DEF slot
  <2>3. QED
    BY <1>1, <1>2, <1>3, <2>1, <2>2, OthersStay DEF ShowsOn
<1>7. CASE ReadPage(r)
  <2>1. PICK p \in SUBSET Places :
           /\ p = IF req[r].kind = "older" THEN Before(req[r].conv, req[r].first) ELSE Newest(req[r].conv)
           /\ req[r].conv \in Convs
           /\ SlotTurns(r, [req[r] EXCEPT !.at = "answered", !.page = p])
    BY <1>1, <1>7, ServerRows
  <2> DEFINE slot == [req[r] EXCEPT !.at = "answered", !.page = p]
  <2>2. /\ slot.screen = req[r].screen /\ slot.left = req[r].left /\ slot.kind = req[r].kind
        /\ slot.conv = req[r].conv /\ slot.page = p
    BY <1>5 DEF ReqRows
  <2>3. req'[r] = slot /\ \A q \in Slots \ {r} : req'[q] = req[q]
    BY <1>4, <2>1
  <2> HIDE DEF slot
  <2>4. ASSUME ShowsOn(r, s), s \notin crossed, req[r].kind # "older" PROVE Within(screen[s].shown, p)
    <3>1. PICK c \in Convs : req[r].conv = c
      BY <2>1
    <3>2. screen[s].open = c /\ c # NoConv
      BY <1>1, <2>4, <3>1, ThreadsAssumption DEF ScreenOK
    <3>3. screen[s].shown \subseteq Messages(c)
      BY <1>1, <2>4, <3>2 DEF ScreenOK
    <3>4. Len(msgs[c]) \in Nat /\ Messages(c) = {c} \X (1 .. Len(msgs[c]))
      BY <1>1, LenIs
    <3>5. ASSUME NEW m \in screen[s].shown PROVE \E n \in p : m[2] <= n[2]
      <4>1. m[2] \in 1 .. Len(msgs[c])
        BY <3>3, <3>4, <3>5
      <4>2. <<c, Len(msgs[c])>> \in Messages(c)
        BY <3>4, <4>1
      <4>3. <<c, Len(msgs[c])>> \in Newest(c)
        BY <3>4, <4>2, ThreadsAssumption DEF Newest
      <4>4. QED
        BY <2>1, <2>4, <3>1, <4>1, <4>3
    <3>6. QED
      BY <3>5 DEF Within
  <2>5. QED
    BY <1>1, <1>2, <1>3, <2>2, <2>3, <2>4, OthersStay DEF ShowsOn
<1>8. CASE Fails(r)
  <2>1. req'[r] = NoRequest /\ \A q \in Slots \ {r} : req'[q] = req[q]
    BY <1>1, <1>4, <1>8, ServerRows
  <2>2. QED
    BY <1>1, <1>2, <1>3, <2>1, OthersStay DEF ShowsOn, NoRequest
<1>9. QED
  BY <1>1, <1>3, <1>6, <1>7, <1>8, ServerRows DEF ServerSteps

\* Nothing that is shown is taken back, while the thread stays.
Forward(s) ==
  s \notin crossed' /\ screen'[s].open # NoConv /\ screen'[s].open = screen[s].open
    => Within(screen[s].shown, screen'[s].shown)

LEMMA SameForward ==
  ASSUME ThreadBase, NEW s \in Screens, UNCHANGED screen[s]
  PROVE  Forward(s)
<1>1. \A m \in screen[s].shown : m[2] \in Nat
  BY DEF ThreadBase, ThreadTypes, Views, Places
<1>2. QED
  BY <1>1 DEF Forward, Within

(* An answer lands on the screen it was asked for.                         *)
LEMMA LandsOn ==
  ASSUME CurrentInv, [ThreadsNext]_threadVars, NEW r \in Slots, LandSteps(r),
         NEW s \in Screens, s = req[r].screen, ~req[r].left,
         req[r].kind \in {"list", "older", "thread", "reply"},
         NEW p, p = IF req[r].kind = "older" THEN req[r].page \cup screen[s].shown ELSE req[r].page,
         screen'[s] = [screen[s] EXCEPT !.shown = p] \/ screen'[s] = [screen[s] EXCEPT !.shown = p, !.known = TRUE],
         req'[r].screen = s \/ req'[r] = NoRequest,
         req'[r].kind # "none" => req'[r].conv = req[r].conv /\ req'[r].at = "sent"
  PROVE  ScreenOK(s)' /\ Forward(s)
<1>1. ThreadBase /\ ThreadTypes /\ ScreenOK(s) /\ ShowsOn(r, s)
  BY DEF CurrentInv, ThreadBase, ShowsOn
<1>2. /\ req[r].conv \in Convs /\ req[r].at = "answered" /\ UNCHANGED <<msgs, crossed>>
      /\ req[r].page \subseteq Messages(req[r].conv)
      /\ \A q \in Slots \ {r} : req'[q] = req[q]
  <2>1. /\ req[r].conv \in Convs /\ req[r].at = "answered" /\ UNCHANGED <<msgs, crossed>>
        /\ req[r].page \subseteq Messages(req[r].conv)
        /\ SlotTurns(r, NoRequest) \/ Next1(r, {"list", "mark", "thread"}) \/ NextPoll(r)
    BY <1>1, LandRows
  <2>2. ASSUME NEW slot, SlotTurns(r, slot) PROVE \A q \in Slots \ {r} : req'[q] = req[q]
    BY <1>1, <2>2 DEF ThreadTypes, SlotTurns
  <2>3. \A q \in Slots \ {r} : req'[q] = req[q]
    BY <2>1, <2>2 DEF Next1, NextPoll
  <2>4. QED
    BY <2>1, <2>3
<1>3. screen[s] \in Views
  BY <1>1 DEF ThreadTypes
<1>4. screen'[s].up = screen[s].up /\ screen'[s].open = screen[s].open /\ screen'[s].shown = p
  BY <1>3 DEF Views
<1>5. screen[s].up
  BY <1>1 DEF ScreenOK
<1>6. CASE s \in crossed
  BY <1>2, <1>4, <1>5, <1>6 DEF ScreenOK, Forward
<1>7. CASE s \notin crossed
  <2>1. screen[s].open # NoConv /\ req[r].conv = screen[s].open
        /\ screen[s].shown \subseteq Messages(screen[s].open)
    BY <1>1, <1>7 DEF ScreenOK
  <2>2. p \subseteq Messages(screen[s].open)
    BY <1>2, <2>1
  <2>3. screen'[s].shown \subseteq Messages(screen[s].open)'
    BY <1>2, <1>4, <2>2 DEF Messages
  <2>4. \A q \in Slots : ShowsOn(q, s)' => q = r
    <3>1. ASSUME NEW q \in Slots, q # r, ShowsOn(q, s)' PROVE FALSE
      <4>1. req'[q] = req[q]
        BY <1>2, <3>1
      <4>2. ShowsOn(q, s)
        BY <3>1, <4>1 DEF ShowsOn
      <4>3. QED
        BY <1>1, <1>7, <3>1, <4>2 DEF ScreenOK
    <3>2. QED
      BY <3>1
  <2>5. ShowsOn(r, s)' => req'[r].conv = screen'[s].open /\ req'[r].at = "sent"
    BY <1>4, <2>1 DEF ShowsOn, NoRequest
  <2>6. ScreenOK(s)'
    BY <1>4, <1>5, <2>1, <2>3, <2>4, <2>5 DEF ScreenOK
  <2>7. Within(screen[s].shown, p)
    <3>1. CASE req[r].kind = "older"
      <4>1. \A m \in screen[s].shown : m[2] \in Nat
        BY <1>3 DEF Views, Places
      <4>2. QED
        BY <3>1, <4>1 DEF Within
    <3>2. CASE req[r].kind # "older"
      BY <1>1, <1>2, <1>7, <3>2 DEF ScreenOK
    <3>3. QED
      BY <3>1, <3>2
  <2>8. QED
    BY <1>4, <2>6, <2>7 DEF Forward
<1>8. QED
  BY <1>6, <1>7

LEMMA LandCurrent ==
  ASSUME CurrentInv, [ThreadsNext]_threadVars, NEW r \in Slots, LandSteps(r), NEW s \in Screens
  PROVE  ScreenOK(s)' /\ Forward(s)
<1>1. ThreadBase /\ ThreadTypes /\ ScreenOK(s)
  BY DEF CurrentInv, ThreadBase
<1>2. /\ req[r] \in ReqRows /\ req[r].at = "answered" /\ UNCHANGED <<msgs, crossed>>
      /\ SlotTurns(r, NoRequest) \/ Next1(r, {"list", "mark", "thread"}) \/ NextPoll(r)
  BY <1>1, LandRows DEF ThreadTypes
<1>3. \A c \in Convs : Messages(c) \subseteq Messages(c)'
  BY <1>1, MessagesGrow
<1>4. \A q \in Slots \ {r} : req'[q] = req[q]
  BY <1>1, <1>2 DEF SlotTurns, Next1, NextPoll, ThreadTypes
<1>5. \/ req'[r] = NoRequest
      \/ /\ req'[r].screen = req[r].screen /\ req'[r].left = req[r].left
         /\ req'[r].conv = req[r].conv /\ req'[r].at = "sent"
  <2>1. ASSUME NEW k, SlotTurns(r, [req[r] EXCEPT !.kind = k, !.at = "sent", !.page = {}])
        PROVE  /\ req'[r].screen = req[r].screen /\ req'[r].left = req[r].left
               /\ req'[r].conv = req[r].conv /\ req'[r].at = "sent"
    <3> DEFINE slot == [req[r] EXCEPT !.kind = k, !.at = "sent", !.page = {}]
    <3>1. slot.screen = req[r].screen /\ slot.left = req[r].left /\ slot.conv = req[r].conv /\ slot.at = "sent"
      BY <1>2 DEF ReqRows
    <3> HIDE DEF slot
    <3>2. req'[r] = slot
      BY <1>1, <2>1 DEF SlotTurns, ThreadTypes, slot
    <3>3. QED
      BY <3>1, <3>2
  <2>2. ASSUME NEW n \in Nat,
               SlotTurns(r, [req[r] EXCEPT !.kind = "thread", !.at = "sent", !.page = {}, !.first = n])
        PROVE  /\ req'[r].screen = req[r].screen /\ req'[r].left = req[r].left
               /\ req'[r].conv = req[r].conv /\ req'[r].at = "sent"
    <3> DEFINE slot == [req[r] EXCEPT !.kind = "thread", !.at = "sent", !.page = {}, !.first = n]
    <3>1. slot.screen = req[r].screen /\ slot.left = req[r].left /\ slot.conv = req[r].conv /\ slot.at = "sent"
      BY <1>2 DEF ReqRows
    <3> HIDE DEF slot
    <3>2. req'[r] = slot
      BY <1>1, <2>2 DEF SlotTurns, ThreadTypes, slot
    <3>3. QED
      BY <3>1, <3>2
  <2>3. SlotTurns(r, NoRequest) => req'[r] = NoRequest
    BY <1>1 DEF SlotTurns, ThreadTypes
  <2>4. QED
    BY <1>2, <2>1, <2>2, <2>3 DEF Next1, NextPoll
\* A screen that does not move.
<1>6. ASSUME UNCHANGED screen[s], s = req[r].screen => req[r].left \/ req[r].kind # "mark" \/ req'[r] = NoRequest
      PROVE  ScreenOK(s)' /\ Forward(s)
  <2>1. req[r].kind # "none"
    BY <1>1, LandRows
  <2>2. ShowsOn(r, s)' => ShowsOn(r, s) /\ req'[r].conv = req[r].conv /\ req'[r].at # "answered"
    <3>1. CASE req'[r] = NoRequest
      BY <3>1 DEF ShowsOn, NoRequest
    <3>2. CASE req'[r] # NoRequest
      <4>1. /\ req'[r].screen = req[r].screen /\ req'[r].left = req[r].left
            /\ req'[r].conv = req[r].conv /\ req'[r].at = "sent"
        BY <1>5, <3>2
      <4>2. req[r].kind \in {"list", "older", "thread", "reply", "mark"}
        BY <1>2, <2>1 DEF ReqRows
      <4>3. ASSUME ShowsOn(r, s)' PROVE ShowsOn(r, s)
        <5>1. s = req[r].screen /\ ~req[r].left
          BY <4>1, <4>3 DEF ShowsOn
        <5>2. req[r].kind # "mark"
          BY <1>6, <3>2, <5>1
        <5>3. QED
          BY <4>2, <5>1, <5>2 DEF ShowsOn
      <4>4. QED
        BY <4>1, <4>3
    <3>3. QED
      BY <3>1, <3>2
  <2>3. UNCHANGED <<screen[s], crossed>>
    BY <1>2, <1>6
  <2>4. r \in Slots /\ ShowsOn(r, s)' =>
          /\ ShowsOn(r, s)
          /\ req'[r].conv = req[r].conv
          /\ s \notin crossed /\ req'[r].at = "answered" /\ req'[r].kind # "older" =>
               Within(screen[s].shown, req'[r].page)
    BY <2>2
  <2>5. ScreenOK(s)'
    BY <1>1, <1>3, <1>4, <2>3, <2>4, OthersStay
  <2>6. QED
    BY <1>1, <1>6, <2>5, SameForward
\* Its own screen is the only one that moves, and only with Shows.
<1>7. ASSUME NEW p, Shows(r, p),
             p = IF req[r].kind = "older" THEN req[r].page \cup screen[req[r].screen].shown ELSE req[r].page,
             req[r].kind \in {"list", "older", "thread", "reply"}
      PROVE  ScreenOK(s)' /\ Forward(s)
  <2>1. CASE s # req[r].screen
    <3>1. UNCHANGED screen[s]
      BY <1>1, <1>7, <2>1 DEF Shows, ThreadTypes
    <3>2. QED
      BY <1>6, <2>1, <3>1
  <2>2. CASE s = req[r].screen /\ req[r].left
    BY <1>6, <1>7, <2>2 DEF Shows
  <2>3. CASE s = req[r].screen /\ ~req[r].left
    <3>1. screen'[s] = [screen[s] EXCEPT !.shown = p]
      BY <1>1, <1>7, <2>3 DEF Shows, ThreadTypes
    <3>2. p = IF req[r].kind = "older" THEN req[r].page \cup screen[s].shown ELSE req[r].page
      BY <1>7, <2>3
    <3>3. (req'[r].screen = s \/ req'[r] = NoRequest)
          /\ (req'[r].kind # "none" => req'[r].conv = req[r].conv /\ req'[r].at = "sent")
      BY <1>5, <2>3 DEF NoRequest
    <3>4. QED
      BY <1>7, <2>3, <3>1, <3>2, <3>3, LandsOn
  <2>4. QED
    BY <1>2, <2>1, <2>2, <2>3 DEF ReqRows
<1>8. ASSUME Dropped, req[r].kind # "mark" \/ Frees(r) PROVE ScreenOK(s)' /\ Forward(s)
  <2>1. Frees(r) => req'[r] = NoRequest
    BY <1>1 DEF Frees, ThreadTypes
  <2>2. QED
    BY <1>6, <1>8, <2>1 DEF Dropped
<1>9. CASE InboxLands(r)
  <2>1. req[r].screen = "inbox"
    BY <1>9 DEF InboxLands, Landed
  <2>2. CASE req[r].kind \in {"mark", "reply"} /\ Dropped
             /\ IF req[r].kind = "reply" THEN GoesOn(r, "list") ELSE Frees(r)
    BY <1>8, <2>2
  <2>3. CASE req[r].kind = "list" /\ Shows(r, req[r].page)
    BY <1>7, <2>3
  <2>4. CASE req[r].kind = "older" /\ Shows(r, req[r].page \cup screen["inbox"].shown)
    BY <1>7, <2>1, <2>4
  <2>5. QED
    BY <1>9, <2>2, <2>3, <2>4 DEF InboxLands
<1>10. CASE ListingLands(r)
  <2>1. CASE req[r].kind \in {"reply", "thread"} /\ Shows(r, req[r].page)
    BY <1>7, <2>1
  <2>2. CASE req[r].kind = "thread" /\ Dropped
    BY <1>8, <2>2
  <2>3. QED
    BY <1>10, <2>1, <2>2 DEF ListingLands
<1>11. CASE PollGivesUp(r)
  BY <1>6, <1>11 DEF PollGivesUp
<1>12. CASE PhoneLands(r)
  <2>1. CASE req[r].kind \in {"list", "thread", "reply"} /\ Shows(r, req[r].page)
    BY <1>7, <2>1
  <2>2. CASE req[r].kind = "mark" /\ Dropped /\ Frees(r)
    BY <1>8, <2>2
  <2>3. CASE /\ req[r].kind \in {"thread", "reply"} /\ ~req[r].left /\ req[r].screen = "phone"
             /\ screen' = [screen EXCEPT !["phone"].shown = req[r].page, !["phone"].known = TRUE]
    <3>1. CASE s # "phone"
      <4>1. UNCHANGED screen[s]
        BY <1>1, <2>3, <3>1 DEF ThreadTypes
      <4>2. QED
        BY <1>6, <2>3, <3>1, <4>1
    <3>2. CASE s = "phone"
      <4>1. screen'[s] = [screen[s] EXCEPT !.shown = req[r].page, !.known = TRUE]
        BY <1>1, <2>3, <3>2 DEF ThreadTypes
      <4>2. (req'[r].screen = s \/ req'[r] = NoRequest)
            /\ (req'[r].kind # "none" => req'[r].conv = req[r].conv /\ req'[r].at = "sent")
        BY <1>5, <2>3, <3>2 DEF NoRequest
      <4>3. QED
        BY <2>3, <3>2, <4>1, <4>2, LandsOn
    <3>3. QED
      BY <3>1, <3>2
  <2>4. QED
    BY <1>12, <2>1, <2>2, <2>3 DEF PhoneLands, Landed
<1>13. QED
  BY <1>9, <1>10, <1>11, <1>12 DEF LandSteps

(* A screen that is up and asks once more, nothing else being out for it.  *)
LEMMA AsksOnce ==
  ASSUME NEW s \in Screens, NEW c \in OrNone, NEW r \in Slots,
         screen'[s].up, screen'[s].open = c,
         s \notin crossed' =>
           /\ \A q \in Slots : ~ShowsOn(q, s)
           /\ c # NoConv => screen'[s].shown \subseteq Messages(c)'
           /\ c = NoConv => screen'[s].shown = {} /\ ~ShowsOn(r, s)',
         \A q \in Slots \ {r} : ShowsOn(q, s)' => ShowsOn(q, s),
         ShowsOn(r, s)' => req'[r].conv = c /\ req'[r].at = "sent"
  PROVE  ScreenOK(s)'
<1>1. s \notin crossed' => \A q \in Slots : ShowsOn(q, s)' => q = r
  OBVIOUS
<1>2. c # NoConv /\ s \notin crossed' => screen'[s].shown \subseteq Messages(screen[s].open)'
  BY DEF Messages
<1>3. s \notin crossed' /\ c = NoConv => \A q \in Slots : ~ShowsOn(q, s)'
  BY <1>1
<1>4. QED
  BY <1>1, <1>2, <1>3 DEF ScreenOK

(* A screen the user does not touch.                                       *)
LEMMA Untouched ==
  ASSUME CurrentInv, NEW s \in Screens, UNCHANGED <<screen[s], msgs>>,
         s \in crossed => s \in crossed',
         \A q \in Slots : ShowsOn(q, s)' =>
            ShowsOn(q, s) /\ req'[q].conv = req[q].conv /\ req'[q].at = req[q].at
              /\ req'[q].kind = req[q].kind /\ req'[q].page = req[q].page
  PROVE  ScreenOK(s)' /\ Forward(s)
<1>1. ThreadBase /\ ScreenOK(s)
  BY DEF CurrentInv
<1>2. \A c \in Convs : Messages(c) \subseteq Messages(c)'
  BY DEF Messages
<1>3. ASSUME NEW q \in Slots, ShowsOn(q, s)'
      PROVE  /\ ShowsOn(q, s)
             /\ req'[q].conv = req[q].conv
             /\ s \notin crossed /\ req'[q].at = "answered" /\ req'[q].kind # "older" =>
                  Within(screen[s].shown, req'[q].page)
  <2>1. ShowsOn(q, s) /\ req'[q].conv = req[q].conv /\ req'[q].at = req[q].at
          /\ req'[q].kind = req[q].kind /\ req'[q].page = req[q].page
    BY <1>3
  <2>2. QED
    BY <1>1, <2>1 DEF ScreenOK
<1>4. ScreenOK(s)'
  BY <1>1, <1>2, <1>3, ScreenStays
<1>5. QED
  BY <1>1, <1>4, SameForward

LEMMA UserCurrent ==
  ASSUME CurrentInv, UserSteps, NEW s \in Screens
  PROVE  ScreenOK(s)' /\ Forward(s)
<1>1. ThreadBase /\ ThreadTypes /\ ScreenOK(s)
  BY DEF CurrentInv, ThreadBase
<1>2. UNCHANGED msgs
  BY DEF UserSteps, OpenInbox, BackToList, Leave, Send, FetchList, LoadOlder, OpenThread, OpenPage
<1>3. screen[s] \in Views /\ "inbox" \in Screens /\ \A q \in Slots : req[q] \in ReqRows
  BY <1>1 DEF ThreadTypes, Screens
<1>4. \A q \in Slots : req'[q] = NoRequest => ~ShowsOn(q, s)'
  BY DEF ShowsOn, NoRequest
<1>5. ASSUME NEW t \in Screens, NEW c, NEW k, NEW q \in Slots, req'[q] = Asks(t, c, k)
      PROVE  /\ ShowsOn(q, s)' => s = t /\ k # "mark"
             /\ req'[q].conv = c /\ req'[q].at = "sent"
  BY <1>5 DEF ShowsOn, Asks, NoRequest
<1>6. ASSUME NEW q \in Slots, req'[q] = req[q] PROVE ShowsOn(q, s)' <=> ShowsOn(q, s)
  BY <1>6 DEF ShowsOn
<1>7. ASSUME screen[s].open # NoConv PROVE screen[s].up
  BY <1>1, <1>7 DEF ScreenOK, Closed
<1>8. ASSUME NEW t \in Screens, Crosses(t)
      PROVE  /\ s \in crossed => s \in crossed'
             /\ t \notin crossed' => t \notin crossed /\ \A q \in Slots : ~ShowsOn(q, t)
  BY <1>8, AwaitsIs DEF Crosses
<1>9. CASE OpenInbox
  <2>1. CASE s = "inbox"
    <3>1. screen[s] = Closed /\ screen' = [screen EXCEPT ![s].up = TRUE] /\ UNCHANGED req
          /\ \A q \in Slots : ~ShowsOn(q, s)
      BY <1>1, <1>9, <2>1 DEF OpenInbox, ScreenOK
    <3>2. screen'[s].up /\ screen'[s].open = NoConv /\ screen'[s].shown = {}
      BY <1>1, <1>3, <3>1 DEF ThreadTypes, Closed, Views
    <3>3. \A q \in Slots : ~ShowsOn(q, s)'
      BY <1>6, <3>1
    <3>4. QED
      BY <3>2, <3>3 DEF ScreenOK, Forward
  <2>2. CASE s # "inbox"
    <3>1. UNCHANGED <<screen[s], crossed, req>>
      BY <1>1, <1>9, <2>2 DEF OpenInbox, ThreadTypes
    <3>2. QED
      BY <1>2, <1>6, <3>1, Untouched
  <2>3. QED
    BY <2>1, <2>2
<1>10. CASE BackToList
  <2>0. Crosses("inbox") /\ UNCHANGED req
    BY <1>10 DEF BackToList
  <2>1. CASE s = "inbox"
    <3>1. screen' = [screen EXCEPT ![s].open = NoConv, ![s].shown = {}] /\ screen[s].up
      BY <1>7, <1>10, <2>1 DEF BackToList
    <3>2. screen'[s].up /\ screen'[s].open = NoConv /\ screen'[s].shown = {}
      BY <1>1, <1>3, <3>1 DEF ThreadTypes, Views
    <3>3. s \notin crossed' => \A q \in Slots : ~ShowsOn(q, s)'
      BY <1>6, <1>8, <2>0, <2>1
    <3>4. QED
      BY <3>2, <3>3 DEF ScreenOK, Forward
  <2>2. CASE s # "inbox"
    <3>1. UNCHANGED screen[s]
      BY <1>1, <1>10, <2>2 DEF BackToList, ThreadTypes
    <3>2. s \in crossed => s \in crossed'
      BY <1>3, <1>8, <2>0
    <3>3. QED
      BY <1>2, <1>6, <2>0, <3>1, <3>2, Untouched
  <2>3. QED
    BY <2>1, <2>2
<1>11. ASSUME NEW t \in Screens, Leave(t) PROVE ScreenOK(s)' /\ Forward(s)
  <2>1. ASSUME NEW q \in Slots
        PROVE  req'[q] = IF req[q].screen = t /\ req[q].kind # "none" THEN [req[q] EXCEPT !.left = TRUE] ELSE req[q]
    BY <1>11 DEF Leave
  <2>2. CASE s = t
    <3>1. screen'[s] = Closed
      BY <1>1, <1>11, <2>2 DEF Leave, ThreadTypes
    <3>2. ASSUME NEW q \in Slots PROVE ~ShowsOn(q, s)'
      <4>1. CASE req[q].screen = t /\ req[q].kind # "none"
        <5>1. req'[q].left = TRUE
          BY <1>3, <2>1, <4>1 DEF ReqRows
        <5>2. QED
          BY <5>1 DEF ShowsOn
      <4>2. CASE ~(req[q].screen = t /\ req[q].kind # "none")
        BY <2>1, <2>2, <4>2 DEF ShowsOn
      <4>3. QED
        BY <4>1, <4>2
    <3>3. QED
      BY <3>1, <3>2 DEF ScreenOK, Forward, Closed
  <2>3. CASE s # t
    <3>1. UNCHANGED screen[s] /\ (s \in crossed => s \in crossed')
      BY <1>1, <1>11, <2>3 DEF Leave, ThreadTypes
    <3>2. ASSUME NEW q \in Slots, ShowsOn(q, s)'
          PROVE  ShowsOn(q, s) /\ req'[q] = req[q]
      <4>1. CASE req[q].screen = t /\ req[q].kind # "none"
        <5>1. req'[q].left = TRUE
          BY <1>3, <2>1, <4>1 DEF ReqRows
        <5>2. QED
          BY <3>2, <5>1 DEF ShowsOn
      <4>2. CASE ~(req[q].screen = t /\ req[q].kind # "none")
        BY <1>6, <2>1, <3>2, <4>2
      <4>3. QED
        BY <4>1, <4>2
    <3>3. QED
      BY <1>2, <3>1, <3>2, Untouched
  <2>4. QED
    BY <2>2, <2>3
\* One more request for a screen that stays.
<1>12. ASSUME NEW t \in Screens, NEW r \in Slots, NEW slot, Crosses(t), UNCHANGED screen, screen[t].up,
              screen[t].open # NoConv, slot.conv = screen[t].open, slot.at = "sent", slot.screen = t, SlotTurns(r, slot)
       PROVE  ScreenOK(s)' /\ Forward(s)
  <2>1. req'[r] = slot /\ \A q \in Slots \ {r} : req'[q] = req[q]
    BY <1>1, <1>12 DEF ThreadTypes, SlotTurns
  <2>2. CASE s # t
    <3>1. ~ShowsOn(r, s)'
      BY <1>12, <2>1, <2>2 DEF ShowsOn
    <3>2. s \in crossed => s \in crossed'
      BY <1>8, <1>12
    <3>3. \A q \in Slots : ShowsOn(q, s)' => ShowsOn(q, s) /\ req'[q] = req[q]
      BY <1>6, <2>1, <3>1
    <3>4. QED
      BY <1>2, <1>12, <3>2, <3>3, Untouched
  <2>3. CASE s = t
    <3>1. PICK c \in OrNone : screen[s].open = c
      BY <1>3 DEF Views
    <3>2. screen'[s].up /\ screen'[s].open = c /\ c # NoConv
      BY <1>12, <2>3, <3>1
    <3>3. s \notin crossed' => s \notin crossed /\ \A q \in Slots : ~ShowsOn(q, s)
      BY <1>8, <1>12, <2>3
    <3>4. s \notin crossed' => screen'[s].shown \subseteq Messages(c)'
      BY <1>1, <1>2, <1>12, <3>1, <3>2, <3>3 DEF ScreenOK, Messages
    <3>5. req'[r].conv = c /\ req'[r].at = "sent"
      BY <1>12, <2>1, <2>3, <3>1
    <3>6. \A q \in Slots \ {r} : ShowsOn(q, s)' => ShowsOn(q, s)
      BY <1>6, <2>1
    <3>7. ScreenOK(s)'
      BY <3>2, <3>3, <3>4, <3>5, <3>6, AsksOnce
    <3>8. QED
      BY <1>1, <1>12, <3>7, SameForward
  <2>4. QED
    BY <2>2, <2>3
<1>13. ASSUME NEW t \in Screens, NEW r \in Slots, Send(t, r) PROVE ScreenOK(s)' /\ Forward(s)
  <2> DEFINE slot == Asks(t, screen[t].open, "reply")
  <2>1. slot.conv = screen[t].open /\ slot.at = "sent" /\ slot.screen = t
    BY DEF Asks, NoRequest
  <2>2. SlotTurns(r, slot)
    BY <1>13 DEF Send, SlotTurns
  <2> HIDE DEF slot
  <2>3. QED
    BY <1>12, <1>13, <2>1, <2>2 DEF Send
<1>14. ASSUME NEW r \in Slots, LoadOlder(r) PROVE ScreenOK(s)' /\ Forward(s)
  <2> DEFINE slot == [Asks("inbox", screen["inbox"].open, "older") EXCEPT !.first = FirstOf(screen["inbox"].shown)]
  <2>1. slot.conv = screen["inbox"].open /\ slot.at = "sent" /\ slot.screen = "inbox"
    BY DEF Asks, NoRequest
  <2>2. SlotTurns(r, slot)
    BY <1>14 DEF LoadOlder, SlotTurns
  <2> HIDE DEF slot
  <2>3. screen["inbox"].up
    <3>1. ScreenOK("inbox")
      BY <1>3 DEF CurrentInv
    <3>2. QED
      BY <1>14, <3>1 DEF LoadOlder, ScreenOK, Closed
  <2>4. QED
    BY <1>3, <1>12, <1>14, <2>1, <2>2, <2>3 DEF LoadOlder
<1>15. ASSUME NEW c \in Convs, NEW r \in Slots, NEW q \in Slots, OpenThread(c, r, q)
       PROVE  ScreenOK(s)' /\ Forward(s)
  <2>1. /\ req'[r] = Asks("inbox", c, "list")
        /\ req'[q] = Asks("inbox", c, "mark") \/ req'[q] = NoRequest
        /\ \A p \in Slots \ {r, q} : req'[p] = req[p]
    BY <1>1, <1>15 DEF OpenThread, ThreadTypes
  <2>2. ~ShowsOn(q, s)'
    BY <1>3, <1>4, <1>5, <2>1
  <2>3. \A p \in Slots \ {r} : ShowsOn(p, s)' => ShowsOn(p, s) /\ req'[p] = req[p]
    BY <1>6, <2>1, <2>2
  <2>4. Crosses("inbox")
    BY <1>15 DEF OpenThread
  <2>5. CASE s # "inbox"
    <3>1. UNCHANGED screen[s]
      BY <1>1, <1>15, <2>5 DEF OpenThread, ThreadTypes
    <3>2. s \in crossed => s \in crossed'
      BY <1>3, <1>8, <2>4
    <3>3. ~ShowsOn(r, s)'
      BY <1>3, <1>5, <2>1, <2>5
    <3>4. QED
      BY <1>2, <2>3, <3>1, <3>2, <3>3, Untouched
  <2>6. CASE s = "inbox"
    <3>1. screen[s].up /\ screen[s].open = NoConv /\ screen' = [screen EXCEPT ![s].open = c]
      BY <1>15, <2>6 DEF OpenThread
    <3>2. screen'[s].up /\ screen'[s].open = c /\ screen'[s].shown = screen[s].shown
      BY <1>1, <1>3, <3>1 DEF ThreadTypes, Views
    <3>3. c # NoConv /\ c \in OrNone
      BY ThreadsAssumption DEF OrNone
    <3>4. s \notin crossed' => s \notin crossed /\ \A p \in Slots : ~ShowsOn(p, s)
      BY <1>8, <2>4, <2>6
    <3>5. s \notin crossed' => screen'[s].shown \subseteq Messages(c)'
      BY <1>1, <3>1, <3>2, <3>4 DEF ScreenOK
    <3>6. req'[r].conv = c /\ req'[r].at = "sent"
      BY <1>3, <1>5, <2>1
    <3>7. ScreenOK(s)'
      BY <2>3, <3>2, <3>3, <3>4, <3>5, <3>6, AsksOnce
    <3>8. QED
      BY <3>1, <3>2, <3>3, <3>7 DEF Forward
  <2>7. QED
    BY <2>5, <2>6
<1>16. ASSUME NEW t \in Screens, NEW c \in Convs, NEW known \in BOOLEAN, NEW r \in Slots, OpenPage(t, c, known, r)
       PROVE  ScreenOK(s)' /\ Forward(s)
  <2>1. /\ req'[r] = Asks(t, c, "list") \/ req'[r] = Asks(t, c, "thread") \/ req'[r] = NoRequest
        /\ \A q \in Slots \ {r} : req'[q] = req[q]
    BY <1>1, <1>16 DEF OpenPage, ThreadTypes
  <2>2. \A q \in Slots \ {r} : ShowsOn(q, s)' => ShowsOn(q, s) /\ req'[q] = req[q]
    BY <1>6, <2>1
  <2>3. ShowsOn(r, s)' => s = t /\ req'[r].conv = c /\ req'[r].at = "sent"
    BY <1>4, <1>5, <2>1
  <2>4. UNCHANGED crossed
    BY <1>16 DEF OpenPage
  <2>5. CASE s # t
    <3>1. UNCHANGED screen[s]
      BY <1>1, <1>16, <2>5 DEF OpenPage, ThreadTypes
    <3>2. QED
      BY <1>2, <2>2, <2>3, <2>4, <2>5, <3>1, Untouched
  <2>6. CASE s = t
    <3>1. /\ screen[s] = Closed /\ \A q \in Slots : ~ShowsOn(q, s)
          /\ screen'[s] = [Closed EXCEPT !.up = TRUE, !.open = c, !.known = known]
      BY <1>1, <1>16, <2>6 DEF OpenPage, ScreenOK, ThreadTypes
    <3>2. screen'[s].up /\ screen'[s].open = c /\ screen'[s].shown = {} /\ screen[s].open = NoConv
      BY <3>1 DEF Closed
    <3>3. c # NoConv /\ c \in OrNone
      BY ThreadsAssumption DEF OrNone
    <3>4. ScreenOK(s)'
      BY <2>2, <2>3, <3>1, <3>2, <3>3, AsksOnce
    <3>5. QED
      BY <3>2, <3>3, <3>4 DEF Forward
  <2>7. QED
    BY <2>5, <2>6
<1>17. CASE FetchList
  <2>1. UNCHANGED <<screen, req, crossed>>
    BY <1>17 DEF FetchList
  <2>2. QED
    BY <1>2, <1>6, <2>1, Untouched
<1>18. QED
  BY <1>9, <1>10, <1>11, <1>13, <1>14, <1>15, <1>16, <1>17 DEF UserSteps

LEMMA CurrentStep ==
  ASSUME CurrentInv, [ThreadsNext]_threadVars
  PROVE  CurrentInv' /\ \A s \in Screens : Forward(s)
<1>1. ThreadBase /\ ThreadBase'
  BY BaseStep DEF CurrentInv
<1>2. ASSUME NEW s \in Screens PROVE ScreenOK(s)' /\ Forward(s)
  <2>1. ScreenOK(s)
    BY DEF CurrentInv
  <2>2. CASE UNCHANGED <<screen, req, crossed>>
    <3>1. \A c \in Convs : Messages(c) \subseteq Messages(c)'
      BY <1>1, MessagesGrow
    <3>2. ASSUME NEW r \in Slots, ShowsOn(r, s)'
          PROVE  /\ ShowsOn(r, s)
                 /\ req'[r].conv = req[r].conv
                 /\ s \notin crossed /\ req'[r].at = "answered" /\ req'[r].kind # "older" =>
                      Within(screen[s].shown, req'[r].page)
      BY <2>1, <2>2, <3>2 DEF ScreenOK, ShowsOn
    <3>3. ScreenOK(s)'
      BY <1>1, <2>1, <2>2, <3>1, <3>2, ScreenStays
    <3>4. QED
      BY <1>1, <2>2, <3>3, SameForward
  <2>3. ASSUME NEW c \in Convs, Arrives(c) PROVE UNCHANGED <<screen, req, crossed>>
    BY <2>3 DEF Arrives
  <2>4. UNCHANGED threadVars => UNCHANGED <<screen, req, crossed>>
    BY DEF threadVars
  <2>5. ASSUME NEW r \in Slots, ServerSteps(r) PROVE ScreenOK(s)' /\ Forward(s)
    BY <1>1, <2>5, ServerCurrent, SameForward
  <2>6. ASSUME NEW r \in Slots, LandSteps(r) PROVE ScreenOK(s)' /\ Forward(s)
    BY <2>6, LandCurrent
  <2>7. CASE UserSteps
    BY <2>7, UserCurrent
  <2>8. QED
    BY <2>2, <2>3, <2>4, <2>5, <2>6, <2>7 DEF ThreadsNext
<1>3. QED
  BY <1>1, <1>2 DEF CurrentInv

LEMMA CurrentAtFirst == ThreadsInit => CurrentInv
<1> SUFFICES ASSUME ThreadsInit PROVE CurrentInv
  OBVIOUS
<1>1. ThreadBase
  BY ThreadsInitBase
<1>2. ASSUME NEW s \in Screens PROVE ScreenOK(s)
  <2>1. screen[s] = Closed /\ \A r \in Slots : ~ShowsOn(r, s)
    BY DEF ThreadsInit, ShowsOn, NoRequest
  <2>2. QED
    BY <2>1 DEF ScreenOK, Closed
<1>3. QED
  BY <1>1, <1>2 DEF CurrentInv

LEMMA LengthsAre ==
  ThreadTypes => \A d \in Convs : Len(msgs[d]) \in Nat /\ Messages(d) = {d} \X (1 .. Len(msgs[d]))
  BY LenIs

(* The last message of a screen does not go back while the thread stays.    *)
LEMMA CurrentMeans ==
  ASSUME CurrentInv', NEW s \in Screens, Forward(s), screen[s] \in Views,
         s \notin crossed', screen'[s].open # NoConv
  PROVE  /\ \A m \in screen'[s].shown : m[1] = screen'[s].open
         /\ screen'[s].open = screen[s].open => LastOf(screen[s].shown) <= LastOf(screen'[s].shown)
<1>1. ThreadTypes' /\ ScreenOK(s)'
  BY DEF CurrentInv, ThreadBase
<1>2. screen'[s] \in Views
  BY <1>1 DEF ThreadTypes
<1>3. PICK c \in Convs : screen'[s].open = c
  BY <1>2 DEF Views, OrNone
<1>4. (\A d \in Convs : Len(msgs[d]) \in Nat /\ Messages(d) = {d} \X (1 .. Len(msgs[d])))'
  BY <1>1, LengthsAre, PTL
<1>5. PICK n \in Nat : Messages(c)' = {c} \X (1 .. n)
  <2>1. Len(msgs'[c]) \in Nat /\ Messages(c)' = {c} \X (1 .. Len(msgs'[c]))
    BY <1>4
  <2>2. QED
    BY <2>1
<1>6. PICK T \in SUBSET Places : T = screen'[s].shown
  BY <1>2 DEF Views
<1>7. T \subseteq {c} \X (1 .. n)
  <2>1. s \notin crossed' => screen'[s].shown \subseteq Messages(screen[s].open)'
    BY <1>1 DEF ScreenOK
  <2>2. Messages(screen[s].open)' = Messages(c)'
    BY <1>3 DEF Messages
  <2>3. QED
    BY <1>5, <1>6, <2>1, <2>2
<1>8. PICK S \in SUBSET Places : S = screen[s].shown
  BY DEF Views
<1>9. ASSUME screen'[s].open = screen[s].open PROVE LastOf(S) <= LastOf(T)
  <2>1. Within(S, T)
    BY <1>6, <1>8, <1>9 DEF Forward
  <2>2. \A m \in T : m[2] <= n /\ m[2] \in Nat
    BY <1>7
  <2>3. \A m \in S : m[2] \in Nat
    BY DEF Places
  <2>4. \A m \in S : m[2] <= n
    BY <2>1, <2>2, <2>3 DEF Within
  <2>5. /\ LastOf(S) \in Nat
        /\ S = {} => LastOf(S) = 0
        /\ S # {} => \E m \in S : LastOf(S) = m[2]
    BY <2>4, LastIs
  <2>6. LastOf(T) \in Nat /\ \A m \in T : m[2] <= LastOf(T)
    BY <2>2, LastIs
  <2>7. CASE S = {}
    BY <2>5, <2>6, <2>7
  <2>8. CASE S # {}
    <3>1. PICK m \in S : LastOf(S) = m[2]
      BY <2>5, <2>8
    <3>2. PICK k \in T : m[2] <= k[2]
      BY <2>1 DEF Within
    <3>3. QED
      BY <2>2, <2>3, <2>6, <3>1, <3>2
  <2>9. QED
    BY <2>7, <2>8
<1>10. QED
  BY <1>3, <1>6, <1>7, <1>8, <1>9

(* A screen shows the thread it has open and does not go back in it, unless *)
(* the user crossed an answer that was out (Inbox.jsx, useMessages.js,      *)
(* ThreadScreen.tsx).                                                       *)
THEOREM ScreensGoForward == ThreadsSpec => ScreenCurrent
<1> DEFINE Current(s) ==
      s \notin crossed' /\ screen'[s].open # NoConv =>
        /\ \A m \in screen'[s].shown : m[1] = screen'[s].open
        /\ screen'[s].open = screen[s].open => LastOf(screen[s].shown) <= LastOf(screen'[s].shown)
<1>1. CurrentInv /\ [ThreadsNext]_threadVars => CurrentInv'
  BY CurrentStep
<1>2. ASSUME CurrentInv, [ThreadsNext]_threadVars PROVE [\A s \in Screens : Current(s)]_threadVars
  <2>1. \A s \in Screens : screen[s] \in Views
    BY <1>2 DEF CurrentInv, ThreadBase, ThreadTypes
  <2>2. QED
    BY <1>2, <2>1, CurrentStep, CurrentMeans
<1>3. CurrentInv /\ [ThreadsNext]_threadVars => [\A s \in Screens : Current(s)]_threadVars
  BY <1>2
<1>4. QED
  BY <1>1, <1>3, CurrentAtFirst, PTL DEF ThreadsSpec, ScreenCurrent
-----------------------------------------------------------------------------
(***************************************************************************)
(* Browsing: a grid that ends has reached everything that was there.       *)
(***************************************************************************)

(* Places in a strict total order R of a finite set S                      *)
Below(S, R, l)  == {k \in S : <<k, l>> \in R}
RankIn(S, R, l) == Cardinality(Below(S, R, l))

TotalOrder(S, R) ==
  /\ \A a, b, c \in S : <<a, b>> \in R /\ <<b, c>> \in R => <<a, c>> \in R
  /\ \A a \in S : <<a, a>> \notin R
  /\ \A a, b \in S : a = b \/ <<a, b>> \in R \/ <<b, a>> \in R

\* A place is a number below the size of the set, and places are in order.
LEMMA PlacesInOrder ==
  ASSUME NEW S, NEW R, IsFiniteSet(S), TotalOrder(S, R)
  PROVE  /\ Cardinality(S) \in Nat
         /\ \A l \in S : RankIn(S, R, l) \in Nat /\ RankIn(S, R, l) < Cardinality(S)
         /\ \A k, l \in S : <<k, l>> \in R <=> RankIn(S, R, k) < RankIn(S, R, l)
<1>1. ASSUME NEW l \in S
      PROVE  /\ RankIn(S, R, l) \in Nat /\ IsFiniteSet(Below(S, R, l))
             /\ Cardinality(Below(S, R, l) \cup {l}) = RankIn(S, R, l) + 1
             /\ Below(S, R, l) \cup {l} \subseteq S
  <2>1. Below(S, R, l) \subseteq S /\ l \notin Below(S, R, l)
    BY DEF Below, TotalOrder
  <2>2. IsFiniteSet(Below(S, R, l))
    BY <2>1, FS_Subset
  <2>3. QED
    BY <2>1, <2>2, FS_CardinalityType, FS_AddElement DEF RankIn
<1>2. Cardinality(S) \in Nat
  BY FS_CardinalityType
<1>3. ASSUME NEW l \in S PROVE RankIn(S, R, l) < Cardinality(S)
  <2>1. Cardinality(Below(S, R, l) \cup {l}) <= Cardinality(S)
    BY <1>1, FS_Subset
  <2>2. QED
    BY <1>1, <1>2, <2>1
<1>4. ASSUME NEW k \in S, NEW l \in S, <<k, l>> \in R PROVE RankIn(S, R, k) < RankIn(S, R, l)
  <2>1. Below(S, R, k) \cup {k} \subseteq Below(S, R, l)
    BY <1>4 DEF Below, TotalOrder
  <2>2. IsFiniteSet(Below(S, R, l))
    BY <1>1
  <2>3. Cardinality(Below(S, R, k) \cup {k}) <= Cardinality(Below(S, R, l))
    BY <2>1, <2>2, FS_Subset
  <2>4. RankIn(S, R, k) \in Nat /\ Cardinality(Below(S, R, k) \cup {k}) = RankIn(S, R, k) + 1
    BY <1>1
  <2>5. RankIn(S, R, l) \in Nat /\ RankIn(S, R, k) + 1 <= RankIn(S, R, l)
    BY <1>1, <2>3, <2>4 DEF RankIn
  <2>6. QED
    BY <2>4, <2>5
<1>5. ASSUME NEW k \in S, NEW l \in S, RankIn(S, R, k) < RankIn(S, R, l) PROVE <<k, l>> \in R
  <2>0. RankIn(S, R, k) \in Nat /\ RankIn(S, R, l) \in Nat
    BY <1>1
  <2>1. k # l
    BY <1>5, <2>0
  <2>2. ~(<<l, k>> \in R)
    <3>1. ~(RankIn(S, R, l) < RankIn(S, R, k))
      BY <1>5, <2>0
    <3>2. QED
      BY <1>4, <3>1
  <2>3. QED
    BY <2>1, <2>2 DEF TotalOrder
<1>6. QED
  BY <1>1, <1>2, <1>3, <1>4, <1>5

\* There is no gap: a place below that of an element, or below the size of the
\* set, is some element's.
LEMMA NoGap ==
  ASSUME NEW S, NEW R, IsFiniteSet(S), TotalOrder(S, R), NEW o \in Nat
  PROVE  /\ (\E l \in S : RankIn(S, R, l) >= o) => \E l \in S : RankIn(S, R, l) = o
         /\ Cardinality(S) > o => \E l \in S : RankIn(S, R, l) = o
<1> DEFINE at(l) == RankIn(S, R, l)
<1>1. /\ Cardinality(S) \in Nat
      /\ \A l \in S : at(l) \in Nat
      /\ \A k, l \in S : <<k, l>> \in R <=> at(k) < at(l)
  BY PlacesInOrder
<1>2. \A k, l \in S : at(k) = at(l) => k = l
  BY <1>1 DEF TotalOrder
\* Elements placed below o are at most o.
<1>3. ASSUME NEW T \in SUBSET S, \A l \in T : at(l) < o
      PROVE  Cardinality(T) <= o
  <2>1. [l \in T |-> at(l)] \in Injection(T, 0 .. o - 1)
    BY <1>1, <1>2, <1>3 DEF Injection, IsInjective
  <2>2. IsFiniteSet(0 .. o - 1) /\ Cardinality(0 .. o - 1) = o
    <3>1. 0 \in Int /\ o - 1 \in Int
      OBVIOUS
    <3>2. IsFiniteSet(0 .. o - 1) /\ Cardinality(0 .. o - 1) = IF 0 > o - 1 THEN 0 ELSE o - 1 - 0 + 1
      BY <3>1, FS_Interval
    <3>3. QED
      BY <3>2
  <2>3. QED
    BY <2>1, <2>2, FS_Injection
<1>4. ASSUME NEW l \in S, at(l) >= o PROVE \E m \in S : at(m) = o
  <2> DEFINE T == {at(k) : k \in {k \in S : at(k) >= o}}
  <2>1. T \in SUBSET Nat /\ T # {}
    BY <1>1, <1>4
  <2>2. PICK n \in T : \A k \in T : n <= k
    BY <2>1, LeastOf
  <2>3. PICK m \in S : at(m) = n /\ at(m) >= o
    BY <2>2
  <2>4. ASSUME NEW k \in Below(S, R, m) PROVE at(k) < o
    <3>1. k \in S /\ at(k) < at(m)
      BY <1>1, <2>3, <2>4 DEF Below
    <3>2. at(k) \in Nat /\ at(m) \in Nat
      BY <1>1, <3>1
    <3>3. at(k) >= o => at(k) \in T
      BY <3>1
    <3>4. QED
      BY <2>2, <2>3, <3>1, <3>2, <3>3
  <2>5. Below(S, R, m) \in SUBSET S
    BY DEF Below
  <2>6. Cardinality(Below(S, R, m)) <= o
    BY <1>3, <2>4, <2>5
  <2>7. at(m) <= o
    BY <2>6 DEF RankIn
  <2>8. QED
    BY <1>1, <2>3, <2>7
<1>5. ASSUME Cardinality(S) > o PROVE \E l \in S : at(l) >= o
  <2>1. ~(Cardinality(S) <= o)
    BY <1>1, <1>5
  <2>2. ~(\A l \in S : at(l) < o)
    BY <1>3, <2>1
  <2>3. QED
    BY <1>1, <2>2
<1>6. QED
  BY <1>4, <1>5

-----------------------------------------------------------------------------
(* The catalogue's records and its order                                   *)
Queries == [out : BOOLEAN, filter : Filters, offset : Nat]
Grids   == [filter : Filters, shown : SUBSET Listings, hasMore : BOOLEAN]
Feeds   == [filter : Filters, shown : SUBSET Listings]

CatalogueTypes ==
  /\ onSale \subseteq Listings /\ IsFiniteSet(onSale) /\ published \subseteq Listings
  /\ grid \in Grids /\ IsFiniteSet(grid.shown) /\ first \in Queries /\ more \in Queries
  /\ feed \in Feeds /\ loads \subseteq Queries
  /\ base \subseteq Listings /\ arrived \in Nat
  /\ shifted \in BOOLEAN /\ mixed \in BOOLEAN /\ feedMixed \in BOOLEAN

Ordered(f) == {x \in Selected(f) \X Selected(f) : Precedes(x[1], x[2], f, "up")}

\* Where listings are at different places, each query orders them the same way.
LEMMA SelectedOrdered ==
  ASSUME CatalogueTypes, NEW f \in Filters, Placed(f), NEW ties
  PROVE  /\ IsFiniteSet(Selected(f)) /\ TotalOrder(Selected(f), Ordered(f))
         /\ \A l \in Selected(f) : Rank(l, f, ties) = RankIn(Selected(f), Ordered(f), l)
         /\ \A k, l \in Selected(f) : <<k, l>> \in Ordered(f) <=> Precedes(k, l, f, "up")
<1>1. IsFiniteSet(Selected(f))
  BY FS_Subset DEF CatalogueTypes, Selected
<1>2. PICK S : S = Selected(f)
  OBVIOUS
<1>3. \A l \in S : l \in Nat /\ l \in Listings /\ l \in Matching[f] /\ Distance[l] \in Nat
  BY <1>2, CatalogueAssumption DEF Selected, CatalogueTypes
<1>4. f \in Near => \A k, l \in S : Distance[k] = Distance[l] => k = l
  BY <1>3 DEF Placed
<1>5. ASSUME NEW k \in S, NEW l \in S, NEW t
      PROVE  Precedes(k, l, f, t) <=> IF f \in Near THEN Distance[k] < Distance[l] ELSE k > l
  <2>1. k \in Nat /\ l \in Nat /\ Distance[k] \in Nat /\ Distance[l] \in Nat
    BY <1>3
  <2>2. f \in Near /\ Distance[k] = Distance[l] => ~(k < l) /\ ~(k > l)
    BY <1>4, <2>1
  <2>3. QED
    BY <2>1, <2>2 DEF Precedes
<1>6. \A k, l \in S : <<k, l>> \in Ordered(f) <=> IF f \in Near THEN Distance[k] < Distance[l] ELSE k > l
  BY <1>2, <1>5 DEF Ordered
<1>7. TotalOrder(S, Ordered(f))
  <2>1. CASE f \in Near
    BY <1>3, <1>4, <1>6, <2>1 DEF TotalOrder
  <2>2. CASE f \notin Near
    BY <1>3, <1>6, <2>2 DEF TotalOrder
  <2>3. QED
    BY <2>1, <2>2
<1>8. ASSUME NEW l \in S PROVE Rank(l, f, ties) = RankIn(S, Ordered(f), l)
  <2>1. {k \in Selected(f) : Precedes(k, l, f, ties)} = Below(S, Ordered(f), l)
    BY <1>2, <1>5, <1>6, <1>8 DEF Below
  <2>2. QED
    BY <2>1 DEF Rank, RankIn
<1>9. QED
  BY <1>1, <1>2, <1>5, <1>6, <1>7, <1>8

LEMMA PageIs ==
  ASSUME CatalogueTypes, NEW q \in Queries, NEW ties
  PROVE  /\ Page(q, ties) \subseteq Selected(q.filter) /\ Page(q, ties) \in SUBSET Listings
         /\ IsFiniteSet(Page(q, ties)) /\ Page(q, ties) \subseteq Matching[q.filter]
<1>1. /\ Page(q, ties) \subseteq Selected(q.filter) /\ Page(q, ties) \subseteq onSale
      /\ Page(q, ties) \subseteq Matching[q.filter]
  BY DEF Page, Selected
<1>2. IsFiniteSet(onSale) /\ onSale \subseteq Listings
  BY DEF CatalogueTypes
<1>3. IsFiniteSet(Page(q, ties))
  BY <1>1, <1>2, FS_Subset
<1>4. QED
  BY <1>1, <1>2, <1>3

\* All of S comes before the rest of b.
Leads(S, b, f) == \A k \in S, l \in b \ S : Precedes(k, l, f, "up")

(* A page asked for at the number of listings shown: what is shown of the  *)
(* selection stays in front of the rest of b, an end of the offer means    *)
(* that all of b is shown, and a page without news means that as many      *)
(* listings as a page holds are not of b.                                  *)
LEMMA PageReaches ==
  ASSUME CatalogueTypes, NEW f \in Filters, Placed(f), NEW ties, NEW shown \in SUBSET Selected(f),
         NEW b \in SUBSET Selected(f), NEW o \in Nat, o = Cardinality(shown),
         Leads(shown, b, f),
         NEW page, page = Page(AskFor(f, o), ties)
  PROVE  /\ Leads(shown \cup page, b, f)
         /\ ~OffersMore(AskFor(f, o), page) => b \subseteq shown \cup page
         /\ OffersMore(AskFor(f, o), page) /\ page \subseteq shown =>
              Cardinality(Selected(f) \ b) >= ListingPage
<1>1. PICK S : S = Selected(f)
  OBVIOUS
<1>2. PICK R : R = Ordered(f)
  OBVIOUS
<1>3. /\ IsFiniteSet(S) /\ TotalOrder(S, R)
      /\ \A l \in S : Rank(l, f, ties) = RankIn(S, R, l)
      /\ \A k, l \in S : <<k, l>> \in R <=> Precedes(k, l, f, "up")
  BY <1>1, <1>2, SelectedOrdered
<1>4. ListingPage \in Nat /\ ListingPage > 0
  BY CatalogueAssumption
<1>5. /\ Cardinality(S) \in Nat
      /\ \A l \in S : RankIn(S, R, l) \in Nat /\ RankIn(S, R, l) < Cardinality(S)
      /\ \A k, l \in S : <<k, l>> \in R <=> RankIn(S, R, k) < RankIn(S, R, l)
  BY <1>3, PlacesInOrder
<1>6. page = {l \in S : RankIn(S, R, l) >= o /\ RankIn(S, R, l) < o + ListingPage}
  BY <1>1, <1>3 DEF Page, AskFor
<1>7. OffersMore(AskFor(f, o), page) <=> page # {} /\ o + ListingPage < Cardinality(S)
  BY <1>1 DEF OffersMore, AskFor
<1>8. IsFiniteSet(shown)
  BY <1>1, <1>3, FS_Subset
<1>9. ASSUME NEW l \in b \ shown PROVE RankIn(S, R, l) >= o
  <2>1. shown \subseteq Below(S, R, l) /\ Below(S, R, l) \subseteq S
    BY <1>1, <1>3, <1>9 DEF Below, Leads
  <2>2. IsFiniteSet(Below(S, R, l))
    BY <1>3, <2>1, FS_Subset
  <2>3. Cardinality(shown) <= Cardinality(Below(S, R, l))
    BY <2>1, <2>2, FS_Subset
  <2>4. RankIn(S, R, l) \in Nat
    BY <1>1, <1>5, <1>9
  <2>5. QED
    BY <2>3, <2>4 DEF RankIn
<1>10. ASSUME NEW l \in b \ (shown \cup page) PROVE RankIn(S, R, l) >= o + ListingPage
  <2>1. l \in S /\ RankIn(S, R, l) \in Nat /\ RankIn(S, R, l) >= o
    BY <1>1, <1>5, <1>9, <1>10
  <2>2. ~(RankIn(S, R, l) < o + ListingPage)
    BY <1>6, <1>10, <2>1
  <2>3. QED
    BY <1>4, <2>1, <2>2
<1>11. ASSUME NEW k \in shown \cup page, NEW l \in b \ (shown \cup page) PROVE Precedes(k, l, f, "up")
  <2>1. CASE k \in shown
    BY <1>11, <2>1 DEF Leads
  <2>2. CASE k \in page
    <3>1. k \in S /\ l \in S /\ RankIn(S, R, k) < o + ListingPage
      BY <1>1, <1>6, <1>11, <2>2
    <3>2. RankIn(S, R, k) \in Nat /\ RankIn(S, R, l) \in Nat /\ RankIn(S, R, l) >= o + ListingPage
      BY <1>5, <1>10, <1>11, <3>1
    <3>3. RankIn(S, R, k) < RankIn(S, R, l)
      BY <1>4, <3>1, <3>2
    <3>4. QED
      BY <1>3, <1>5, <3>1, <3>3
  <2>3. QED
    BY <1>11, <2>1, <2>2
<1>12. ASSUME NEW l \in b \ (shown \cup page) PROVE OffersMore(AskFor(f, o), page)
  <2>1. l \in S /\ RankIn(S, R, l) \in Nat /\ RankIn(S, R, l) >= o + ListingPage
        /\ RankIn(S, R, l) < Cardinality(S)
    BY <1>1, <1>5, <1>10, <1>12
  <2>2. \E m \in S : RankIn(S, R, m) >= o
    BY <1>4, <2>1
  <2>3. PICK m \in S : RankIn(S, R, m) = o
    BY <1>3, <2>2, NoGap
  <2>4. m \in page
    BY <1>4, <1>6, <2>3
  <2>5. QED
    BY <1>4, <1>5, <1>7, <2>1, <2>4
<1>13. ASSUME OffersMore(AskFor(f, o), page), page \subseteq shown
       PROVE  Cardinality(S \ b) >= ListingPage
  <2>1. PICK n \in Nat : n = o + ListingPage
    BY <1>4
  <2>2. PICK m \in S : RankIn(S, R, m) = n
    <3>1. Cardinality(S) > n
      BY <1>4, <1>5, <1>7, <1>13, <2>1
    <3>2. QED
      BY <1>3, <3>1, NoGap
  <2>3. PICK P : P = Below(S, R, m)
    OBVIOUS
  <2>4. P \subseteq S /\ IsFiniteSet(P) /\ Cardinality(P) = n
    <3>1. P \subseteq S /\ Cardinality(P) = n
      BY <2>2, <2>3 DEF Below, RankIn
    <3>2. QED
      BY <1>3, <3>1, FS_Subset
  <2>5. IsFiniteSet(P \ shown) /\ Cardinality(P \ shown) = Cardinality(P) - Cardinality(P \cap shown)
    BY <2>4, FS_Difference
  <2>6. Cardinality(P \cap shown) <= o /\ Cardinality(P \cap shown) \in Nat
    <3>1. P \cap shown \in SUBSET shown
      OBVIOUS
    <3>2. QED
      BY <1>8, <3>1, FS_Subset, FS_CardinalityType
  <2>7. Cardinality(P \ shown) >= ListingPage
    BY <1>4, <2>1, <2>4, <2>5, <2>6
  <2>8. ASSUME NEW l \in P \ shown PROVE l \in S \ b
    <3>1. l \in S /\ RankIn(S, R, l) < n
      BY <1>5, <2>2, <2>3, <2>8 DEF Below
    <3>2. l \notin page
      BY <1>13, <2>8
    <3>3. ~(RankIn(S, R, l) >= o)
      BY <1>6, <2>1, <3>1, <3>2
    <3>4. QED
      BY <1>9, <2>8, <3>1, <3>3
  <2>9. IsFiniteSet(S \ b)
    BY <1>3, FS_Subset
  <2>10. Cardinality(P \ shown) <= Cardinality(S \ b)
    <3>1. P \ shown \in SUBSET (S \ b)
      BY <2>8
    <3>2. QED
      BY <2>9, <3>1, FS_Subset
  <2>11. QED
    BY <1>4, <2>5, <2>7, <2>9, <2>10, FS_CardinalityType
<1>14. QED
  BY <1>1, <1>11, <1>12, <1>13 DEF Leads

-----------------------------------------------------------------------------
(* What the grid keeps                                                     *)
Unmixed == ~mixed /\ ~first.out
Steady  == Unmixed /\ ~shifted

(* The first page is asked for with the filter of the grid, and the next    *)
(* one behind what is shown, after it.                                     *)
Requested ==
  /\ first.out => first = AskFor(grid.filter, 0)
  /\ ~mixed => ~(first.out /\ more.out)
  /\ ~mixed /\ more.out => more = AskFor(grid.filter, Cardinality(grid.shown))

(* What the first page was read from is still there, and what came since   *)
(* is counted.                                                             *)
Counted ==
  Steady => /\ base \subseteq Selected(grid.filter) /\ grid.shown \subseteq Selected(grid.filter)
            /\ Cardinality(Selected(grid.filter) \ base) <= arrived

(* What is shown comes before what was there and is not shown.             *)
Reached ==
  Steady /\ Placed(grid.filter) =>
    /\ Leads(grid.shown, base, grid.filter)
    /\ ~grid.hasMore => base \subseteq grid.shown

ShownMatches == Unmixed => grid.shown \subseteq Matching[grid.filter]

FeedRight ==
  ~feedMixed => /\ loads \subseteq {AskFor(feed.filter, 0)}
                /\ loads = {} => feed.shown \subseteq Matching[feed.filter]

CatalogueInv == CatalogueTypes /\ Requested /\ Counted /\ Reached /\ ShownMatches /\ FeedRight

LEMMA QueriesAre ==
  ASSUME NEW f \in Filters, NEW n \in Nat
  PROVE  /\ AskFor(f, n) \in Queries /\ AskFor(f, n).out /\ AskFor(f, n).filter = f /\ AskFor(f, n).offset = n
         /\ Nothing \in Queries /\ ~Nothing.out
<1>1. (CHOOSE g \in Filters : TRUE) \in Filters
  OBVIOUS
<1>2. QED
  BY <1>1 DEF AskFor, Nothing, Queries

LEMMA CatalogueInitInv == CatalogueInit => CatalogueInv
<1> SUFFICES ASSUME CatalogueInit PROVE CatalogueInv
  OBVIOUS
<1>1. PICK f \in Filters :
         /\ grid = [filter |-> f, shown |-> {}, hasMore |-> FALSE] /\ first = AskFor(f, 0)
         /\ feed = [filter |-> f, shown |-> {}] /\ loads = {AskFor(f, 0)}
  BY DEF CatalogueInit
<1>2. /\ first \in Queries /\ first.out /\ more \in Queries /\ ~more.out /\ loads \subseteq Queries
  BY <1>1, QueriesAre DEF CatalogueInit
<1>3. grid.filter = f /\ grid.shown = {} /\ feed.filter = f /\ grid \in Grids /\ feed \in Feeds
  BY <1>1 DEF Grids, Feeds
<1>4. IsFiniteSet(grid.shown)
  BY <1>3, FS_EmptySet
<1>5. CatalogueTypes
  BY <1>2, <1>3, <1>4, CatalogueAssumption DEF CatalogueInit, CatalogueTypes
<1>6. Requested
  BY <1>1, <1>2, <1>3 DEF Requested
<1>7. ~Unmixed /\ ~Steady
  BY <1>2 DEF Unmixed, Steady
<1>8. FeedRight
  BY <1>1, <1>3 DEF FeedRight
<1>9. QED
  BY <1>5, <1>6, <1>7, <1>8 DEF CatalogueInv, Counted, Reached, ShownMatches

(* The grid and its requests are as they were.                             *)
LEMMA GridStays ==
  ASSUME CatalogueInv, UNCHANGED <<onSale, published, grid, first, more, base, arrived, shifted, mixed>>
  PROVE  Requested' /\ Counted' /\ Reached' /\ ShownMatches'
<1>1. Requested'
  BY DEF CatalogueInv, Requested
<1>2. Counted'
  BY DEF CatalogueInv, Counted, Steady, Unmixed, Selected
<1>3. Reached'
  BY DEF CatalogueInv, Reached, Steady, Unmixed
<1>4. ShownMatches'
  BY DEF CatalogueInv, ShownMatches, Unmixed
<1>5. QED
  BY <1>1, <1>2, <1>3, <1>4

LEMMA FeedStays ==
  ASSUME CatalogueInv, UNCHANGED <<feed, loads, feedMixed>>
  PROVE  FeedRight'
  BY DEF CatalogueInv, FeedRight

LEMMA ShopInv ==
  ASSUME CatalogueInv, NEW l \in Listings, ComesOnSale(l) \/ GoesOffSale(l)
  PROVE  CatalogueInv'
<1>1. /\ CatalogueTypes /\ Requested /\ Counted /\ Reached /\ ShownMatches
      /\ UNCHANGED <<grid, first, more, feed, loads, base, mixed, feedMixed>>
  BY DEF CatalogueInv, ComesOnSale, GoesOffSale
<1>2. Requested' /\ ShownMatches' /\ FeedRight'
  BY <1>1, FeedStays DEF Requested, ShownMatches, Unmixed
<1>3. CASE ComesOnSale(l)
  <2>1. onSale' = onSale \cup {l} /\ arrived' = arrived + 1 /\ UNCHANGED shifted /\ published' = published \cup {l}
    BY <1>3 DEF ComesOnSale
  <2>2. CatalogueTypes'
    <3>1. IsFiniteSet(onSale')
      BY <1>1, <2>1, FS_AddElement DEF CatalogueTypes
    <3>2. QED
      BY <1>1, <2>1, <3>1 DEF CatalogueTypes
  <2>3. Counted'
    <3>1. PICK f : f = grid.filter
      OBVIOUS
    <3>2. SUFFICES ASSUME Steady
                   PROVE  /\ base \subseteq Selected(f)' /\ grid.shown \subseteq Selected(f)'
                          /\ Cardinality(Selected(f)' \ base) <= arrived + 1
      BY <1>1, <2>1, <3>1 DEF Counted, Steady, Unmixed, Selected
    <3>3. /\ base \subseteq Selected(f) /\ grid.shown \subseteq Selected(f)
          /\ Cardinality(Selected(f) \ base) <= arrived
      BY <1>1, <3>1, <3>2 DEF Counted
    <3>4. Selected(f) \subseteq Selected(f)' /\ Selected(f)' \ base \subseteq (Selected(f) \ base) \cup {l}
      BY <2>1 DEF Selected
    <3>5. IsFiniteSet(Selected(f) \ base)
      BY <1>1, FS_Subset DEF CatalogueTypes, Selected
    <3>6. PICK D : D = Selected(f) \ base
      OBVIOUS
    <3>7. /\ IsFiniteSet(D \cup {l}) /\ Cardinality(D) \in Nat
          /\ Cardinality(D \cup {l}) = Cardinality(D) \/ Cardinality(D \cup {l}) = Cardinality(D) + 1
      BY <3>5, <3>6, FS_AddElement, FS_CardinalityType
    <3>8. PICK E : E = Selected(f)' \ base
      OBVIOUS
    <3>9. IsFiniteSet(E) /\ Cardinality(E) <= Cardinality(D \cup {l})
      BY <3>4, <3>6, <3>7, <3>8, FS_Subset
    <3>10. Cardinality(E) \in Nat
      BY <3>9, FS_CardinalityType
    <3>11. Cardinality(E) <= arrived + 1
      BY <1>1, <3>3, <3>6, <3>7, <3>9, <3>10 DEF CatalogueTypes
    <3>12. QED
      BY <3>3, <3>4, <3>8, <3>11
  <2>4. Reached'
    BY <1>1, <2>1 DEF Reached, Steady, Unmixed
  <2>5. QED
    BY <1>2, <2>2, <2>3, <2>4 DEF CatalogueInv
<1>4. CASE GoesOffSale(l)
  <2>1. onSale' = onSale \ {l} /\ shifted' = TRUE /\ UNCHANGED <<published, arrived>>
    BY <1>4 DEF GoesOffSale
  <2>2. CatalogueTypes'
    <3>1. IsFiniteSet(onSale')
      BY <1>1, <2>1, FS_Subset DEF CatalogueTypes
    <3>2. QED
      BY <1>1, <2>1, <3>1 DEF CatalogueTypes
  <2>3. ~Steady'
    BY <2>1 DEF Steady
  <2>4. QED
    BY <1>2, <2>2, <2>3 DEF CatalogueInv, Counted, Reached
<1>5. QED
  BY <1>3, <1>4

LEMMA FeedInv ==
  ASSUME CatalogueInv, FeedSteps
  PROVE  CatalogueInv'
<1>1. CatalogueTypes /\ FeedRight
      /\ UNCHANGED <<onSale, published, grid, first, more, base, arrived, shifted, mixed>>
  BY DEF CatalogueInv, FeedSteps, FeedAsks, FeedLands, FeedFails
<1>2. Requested' /\ Counted' /\ Reached' /\ ShownMatches'
  BY <1>1, GridStays
<1>3. feed \in Feeds /\ loads \subseteq Queries
  BY <1>1 DEF CatalogueTypes
<1>4. ASSUME feed' \in Feeds, loads' \subseteq Queries, feedMixed' \in BOOLEAN PROVE CatalogueTypes'
  BY <1>1, <1>4 DEF CatalogueTypes
<1>5. ASSUME NEW f \in Filters, FeedAsks(f) PROVE CatalogueTypes' /\ FeedRight'
  <2>1. feed' \in Feeds /\ feed'.filter = f
    BY <1>3, <1>5 DEF FeedAsks, Feeds
  <2>2. loads' = loads \cup {AskFor(f, 0)} /\ AskFor(f, 0) \in Queries /\ feedMixed' = (loads # {})
    BY <1>5, QueriesAre DEF FeedAsks
  <2>3. CatalogueTypes'
    BY <1>3, <1>4, <2>1, <2>2
  <2>4. QED
    BY <2>1, <2>2, <2>3 DEF FeedRight
<1>6. ASSUME NEW q \in loads, FeedLands(q) PROVE CatalogueTypes' /\ FeedRight'
  <2>1. PICK ties \in {"up", "down"} : feed' = [feed EXCEPT !.shown = Page(q, ties)]
    BY <1>6 DEF FeedLands
  <2>2. Page(q, ties) \in SUBSET Listings /\ Page(q, ties) \subseteq Matching[q.filter]
    BY <1>1, <1>3, PageIs
  <2>3. feed' \in Feeds /\ feed'.filter = feed.filter /\ feed'.shown = Page(q, ties)
    BY <1>3, <2>1, <2>2 DEF Feeds
  <2>4. loads' = loads \ {q} /\ UNCHANGED feedMixed
    BY <1>6 DEF FeedLands
  <2>5. CatalogueTypes'
    BY <1>1, <1>3, <1>4, <2>3, <2>4 DEF CatalogueTypes
  <2>6. ASSUME ~feedMixed PROVE q.filter = feed.filter
    <3>1. q = AskFor(feed.filter, 0)
      BY <1>1, <2>6 DEF FeedRight
    <3>2. QED
      BY <3>1 DEF AskFor
  <2>7. ASSUME ~feedMixed PROVE loads' \subseteq {AskFor(feed.filter, 0)} /\ feed'.shown \subseteq Matching[feed.filter]
    BY <1>1, <2>2, <2>3, <2>4, <2>6, <2>7 DEF FeedRight
  <2>8. QED
    BY <2>3, <2>4, <2>5, <2>7 DEF FeedRight
<1>7. ASSUME NEW q \in loads, FeedFails(q) PROVE CatalogueTypes' /\ FeedRight'
  BY <1>1, <1>3, <1>4, <1>7 DEF FeedFails, FeedRight
<1>8. QED
  BY <1>2, <1>5, <1>6, <1>7 DEF FeedSteps, CatalogueInv

LEMMA GridTypes ==
  ASSUME CatalogueInv, GridSteps, grid' \in Grids, IsFiniteSet(grid'.shown),
         first' \in Queries, more' \in Queries, base' \subseteq Listings, arrived' \in Nat,
         shifted' \in BOOLEAN, mixed' \in BOOLEAN
  PROVE  CatalogueTypes' /\ FeedRight' /\ UNCHANGED onSale
<1>1. UNCHANGED <<onSale, published, feed, loads, feedMixed>>
  BY DEF GridSteps, FirstLands, FirstFails, LoadMore, MoreLands, MoreFails, Refresh
<1>2. CatalogueTypes'
  BY <1>1 DEF CatalogueInv, CatalogueTypes
<1>3. QED
  BY <1>1, <1>2, FeedStays

LEMMA FirstLandsInv ==
  ASSUME CatalogueInv, FirstLands
  PROVE  CatalogueInv'
<1>1. CatalogueTypes /\ Requested /\ grid \in Grids /\ first \in Queries /\ more \in Queries
  BY DEF CatalogueInv, CatalogueTypes
<1>2. PICK f \in Filters : f = grid.filter /\ first = AskFor(f, 0) /\ first.filter = f
  BY <1>1, QueriesAre DEF FirstLands, Requested, Grids
<1>3. PICK ties \in {"up", "down"} :
         grid' = [grid EXCEPT !.shown = Page(first, ties), !.hasMore = OffersMore(first, Page(first, ties))]
  BY DEF FirstLands
<1>4. PICK page : page = Page(first, ties)
  OBVIOUS
<1>5. page \subseteq Selected(f) /\ page \in SUBSET Listings /\ IsFiniteSet(page) /\ page \subseteq Matching[f]
  BY <1>1, <1>2, <1>4, PageIs
<1>6. /\ grid' \in Grids /\ grid'.filter = f /\ grid'.shown = page
      /\ grid'.hasMore <=> OffersMore(first, page)
  <2>1. OffersMore(first, page) \in BOOLEAN
    BY DEF OffersMore
  <2>2. grid' = [grid EXCEPT !.shown = page, !.hasMore = OffersMore(first, page)]
    BY <1>3, <1>4
  <2>3. QED
    BY <1>1, <1>2, <1>5, <2>1, <2>2 DEF Grids
<1>7. first' = Nothing /\ Nothing \in Queries /\ ~first'.out
  BY <1>2, QueriesAre DEF FirstLands
<1>8. base' = Selected(f) /\ arrived' = 0 /\ shifted' = FALSE /\ UNCHANGED <<more, mixed>> /\ first.out
  BY <1>2 DEF FirstLands
<1>9. Selected(f) \in SUBSET Listings /\ IsFiniteSet(Selected(f))
  BY <1>1, FS_Subset DEF Selected, CatalogueTypes
<1>10. CatalogueTypes' /\ FeedRight' /\ UNCHANGED onSale
  <2>1. mixed' \in BOOLEAN
    BY <1>1, <1>8 DEF CatalogueTypes
  <2>2. QED
    BY <1>1, <1>5, <1>6, <1>7, <1>8, <1>9, <2>1, GridTypes DEF GridSteps
<1>11. Selected(f)' = Selected(f)
  BY <1>10 DEF Selected
<1>12. Requested'
  BY <1>1, <1>7, <1>8 DEF Requested
<1>13. ShownMatches'
  BY <1>5, <1>6 DEF ShownMatches
<1>14. Counted'
  <2>1. Selected(grid.filter)' = Selected(f)
    BY <1>6, <1>11 DEF Selected
  <2>2. Cardinality(Selected(f) \ Selected(f)) <= 0
    BY FS_EmptySet
  <2>3. QED
    BY <1>5, <1>6, <1>8, <2>1, <2>2 DEF Counted
<1>15. Reached'
  <2>1. SUFFICES ASSUME Placed(f)
                 PROVE  /\ Leads(page, Selected(f), f)
                        /\ ~OffersMore(first, page) => Selected(f) \subseteq page
    BY <1>6, <1>8 DEF Reached
  <2>2. PICK none : none = {}
    OBVIOUS
  <2>3. none \in SUBSET Selected(f) /\ Cardinality(none) = 0 /\ Leads(none, Selected(f), f)
    BY <2>2, FS_EmptySet DEF Leads
  <2>4. PICK b : b = Selected(f)
    OBVIOUS
  <2>5. /\ Leads(none \cup page, b, f)
        /\ ~OffersMore(AskFor(f, 0), page) => b \subseteq none \cup page
    <3>1. none \in SUBSET Selected(f) /\ b \in SUBSET Selected(f) /\ Leads(none, b, f)
      BY <2>3, <2>4
    <3>2. 0 \in Nat /\ 0 = Cardinality(none) /\ page = Page(AskFor(f, 0), ties)
      BY <1>2, <1>4, <2>3
    <3>3. QED
      BY <1>1, <2>1, <3>1, <3>2, PageReaches
  <2>6. none \cup page = page
    BY <2>2
  <2>7. QED
    BY <1>2, <2>4, <2>5, <2>6
<1>16. QED
  BY <1>10, <1>12, <1>13, <1>14, <1>15 DEF CatalogueInv

(* What the landing of the next page does to a grid without overlaps.       *)
LEMMA MoreLandsDoes ==
  ASSUME CatalogueInv, MoreLands
  PROVE  \E f \in Filters, ties \in {"up", "down"} :
           LET page == Page(more, ties) IN
           /\ f = grid.filter
           /\ grid' \in Grids /\ grid'.filter = f /\ grid'.shown = grid.shown \cup page
           /\ grid'.hasMore <=> OffersMore(more, page)
           /\ IsFiniteSet(grid'.shown) /\ Cardinality(grid.shown) \in Nat
           /\ ~mixed => /\ ~first.out /\ more = AskFor(f, Cardinality(grid.shown))
                        /\ page \subseteq Selected(f)
<1>1. /\ CatalogueTypes /\ Requested /\ grid \in Grids /\ more \in Queries /\ more.out
      /\ IsFiniteSet(grid.shown) /\ grid.shown \in SUBSET Listings
  BY DEF CatalogueInv, CatalogueTypes, MoreLands, Grids
<1>2. PICK f \in Filters : f = grid.filter
  BY <1>1 DEF Grids
<1>3. PICK ties \in {"up", "down"} :
         grid' = [grid EXCEPT !.shown = @ \cup Page(more, ties), !.hasMore = OffersMore(more, Page(more, ties))]
  BY DEF MoreLands
<1>4. PICK page : page = Page(more, ties)
  OBVIOUS
<1>5. page \subseteq Selected(more.filter) /\ page \in SUBSET Listings /\ IsFiniteSet(page)
  BY <1>1, <1>4, PageIs
<1>6. /\ grid' \in Grids /\ grid'.filter = f /\ grid'.shown = grid.shown \cup page
      /\ grid'.hasMore <=> OffersMore(more, page)
  <2>1. OffersMore(more, page) \in BOOLEAN
    BY DEF OffersMore
  <2>2. grid' = [grid EXCEPT !.shown = @ \cup page, !.hasMore = OffersMore(more, page)]
    BY <1>3, <1>4
  <2>3. grid.shown \cup page \in SUBSET Listings
    BY <1>1, <1>5
  <2>4. QED
    BY <1>1, <1>2, <2>1, <2>2, <2>3 DEF Grids
<1>7. IsFiniteSet(grid'.shown) /\ Cardinality(grid.shown) \in Nat
  BY <1>1, <1>5, <1>6, FS_Union, FS_CardinalityType
<1>8. ASSUME ~mixed
      PROVE  ~first.out /\ more = AskFor(f, Cardinality(grid.shown)) /\ page \subseteq Selected(f)
  <2>1. ~first.out /\ more = AskFor(f, Cardinality(grid.shown))
    BY <1>1, <1>2, <1>8 DEF Requested
  <2>2. more.filter = f
    BY <1>7, <2>1, QueriesAre
  <2>3. QED
    BY <1>5, <2>1, <2>2
<1>9. QED
  BY <1>2, <1>4, <1>6, <1>7, <1>8

LEMMA MoreLandsInv ==
  ASSUME CatalogueInv, MoreLands
  PROVE  CatalogueInv'
<1>1. /\ CatalogueTypes /\ Requested /\ Counted /\ Reached /\ ShownMatches
      /\ first \in Queries
  BY DEF CatalogueInv, CatalogueTypes
<1>2. PICK f \in Filters, ties \in {"up", "down"} :
         LET page == Page(more, ties) IN
         /\ f = grid.filter
         /\ grid' \in Grids /\ grid'.filter = f /\ grid'.shown = grid.shown \cup page
         /\ grid'.hasMore <=> OffersMore(more, page)
         /\ IsFiniteSet(grid'.shown) /\ Cardinality(grid.shown) \in Nat
         /\ ~mixed => /\ ~first.out /\ more = AskFor(f, Cardinality(grid.shown))
                      /\ page \subseteq Selected(f)
  BY MoreLandsDoes
<1>3. PICK page : page = Page(more, ties)
  OBVIOUS
<1>4. /\ more' = Nothing /\ more' \in Queries /\ ~more'.out
      /\ UNCHANGED <<first, base, arrived, shifted, mixed>>
  BY <1>2, QueriesAre DEF MoreLands
<1>5. CatalogueTypes' /\ FeedRight' /\ UNCHANGED onSale
  <2>1. base' \subseteq Listings /\ arrived' \in Nat /\ shifted' \in BOOLEAN /\ mixed' \in BOOLEAN
    BY <1>1, <1>4 DEF CatalogueTypes
  <2>2. GridSteps
    BY DEF GridSteps
  <2>3. QED
    BY <1>1, <1>2, <1>4, <2>1, <2>2, GridTypes
<1>6. Requested'
  BY <1>1, <1>2, <1>4 DEF Requested
<1>7. Selected(grid.filter)' = Selected(f) /\ Selected(f) \subseteq Matching[f]
  BY <1>2, <1>5 DEF Selected
<1>8. ShownMatches'
  BY <1>1, <1>2, <1>3, <1>4, <1>7 DEF ShownMatches, Unmixed
<1>9. Counted'
  BY <1>1, <1>2, <1>3, <1>4, <1>7 DEF Counted, Steady, Unmixed
<1>10. Reached'
  <2>1. SUFFICES ASSUME Steady, Placed(f)
                 PROVE  /\ Leads(grid.shown \cup page, base, f)
                        /\ ~OffersMore(more, page) => base \subseteq grid.shown \cup page
    BY <1>2, <1>3, <1>4 DEF Reached, Steady, Unmixed
  <2>2. grid.shown \in SUBSET Selected(f) /\ base \in SUBSET Selected(f)
        /\ Leads(grid.shown, base, f)
    BY <1>1, <1>2, <2>1 DEF Counted, Reached
  <2>3. more = AskFor(f, Cardinality(grid.shown))
    BY <1>2, <2>1 DEF Steady, Unmixed
  <2>4. PICK o \in Nat : o = Cardinality(grid.shown)
    BY <1>2
  <2>5. PICK shown, b : shown = grid.shown /\ b = base
    OBVIOUS
  <2>6. more = AskFor(f, o) /\ page = Page(AskFor(f, o), ties) /\ o = Cardinality(shown)
    BY <1>3, <2>3, <2>4, <2>5
  <2>7. /\ shown \in SUBSET Selected(f) /\ b \in SUBSET Selected(f)
        /\ Leads(shown, b, f)
    BY <2>2, <2>5
  <2>8. /\ Leads(shown \cup page, b, f)
        /\ ~OffersMore(AskFor(f, o), page) => b \subseteq shown \cup page
    BY <1>1, <2>1, <2>6, <2>7, PageReaches
  <2>9. QED
    BY <2>5, <2>6, <2>8
<1>11. QED
  BY <1>5, <1>6, <1>8, <1>9, <1>10 DEF CatalogueInv

LEMMA GridAsksInv ==
  ASSUME CatalogueInv, FirstFails \/ LoadMore \/ MoreFails \/ \E f \in Filters : Refresh(f)
  PROVE  CatalogueInv'
<1>1. /\ CatalogueTypes /\ Requested /\ Counted /\ Reached /\ ShownMatches /\ GridSteps
      /\ grid \in Grids /\ IsFiniteSet(grid.shown) /\ first \in Queries /\ more \in Queries
      /\ base \subseteq Listings /\ arrived \in Nat /\ shifted \in BOOLEAN /\ mixed \in BOOLEAN
      /\ UNCHANGED <<onSale, base, arrived, shifted>>
  BY DEF CatalogueInv, CatalogueTypes, GridSteps, FirstFails, LoadMore, MoreFails, Refresh
<1>2. PICK g \in Filters : grid.filter = g
  BY <1>1 DEF Grids
<1>3. Nothing \in Queries /\ ~Nothing.out
  BY <1>2, QueriesAre
<1>4. UNCHANGED grid => Selected(grid.filter)' = Selected(grid.filter)
  BY <1>1 DEF Selected
<1>5. CASE FirstFails
  <2>1. first' = Nothing /\ mixed' = TRUE /\ UNCHANGED <<grid, more>>
    BY <1>5 DEF FirstFails
  <2>2. CatalogueTypes' /\ FeedRight'
    BY <1>1, <1>3, <2>1, GridTypes
  <2>3. Requested'
    BY <1>3, <2>1 DEF Requested
  <2>4. QED
    BY <2>1, <2>2, <2>3 DEF CatalogueInv, Counted, Reached, ShownMatches, Steady, Unmixed
<1>6. CASE LoadMore
  <2>1. Cardinality(grid.shown) \in Nat
    BY <1>1, FS_CardinalityType
  <2>2. /\ more' = AskFor(grid.filter, Cardinality(grid.shown)) /\ mixed' = (mixed \/ first.out)
        /\ UNCHANGED <<grid, first>>
    BY <1>6 DEF LoadMore
  <2>3. more' \in Queries /\ mixed' \in BOOLEAN
    BY <1>1, <1>2, <2>1, <2>2, QueriesAre
  <2>4. CatalogueTypes' /\ FeedRight'
    BY <1>1, <2>2, <2>3, GridTypes
  <2>5. Requested'
    BY <1>1, <2>2 DEF Requested
  <2>6. (Unmixed' => Unmixed) /\ (Steady' => Steady)
    BY <1>1, <2>2 DEF Unmixed, Steady
  <2>7. QED
    BY <1>1, <1>4, <2>2, <2>4, <2>5, <2>6 DEF CatalogueInv, Counted, Reached, ShownMatches
<1>7. CASE MoreFails
  <2>1. more' = Nothing /\ UNCHANGED <<grid, first, mixed>>
    BY <1>7 DEF MoreFails
  <2>2. CatalogueTypes' /\ FeedRight'
    BY <1>1, <1>3, <2>1, GridTypes
  <2>3. Requested'
    BY <1>1, <1>3, <2>1 DEF Requested
  <2>4. (Unmixed' => Unmixed) /\ (Steady' => Steady)
    BY <1>1, <2>1 DEF Unmixed, Steady
  <2>5. QED
    BY <1>1, <1>4, <2>1, <2>2, <2>3, <2>4 DEF CatalogueInv, Counted, Reached, ShownMatches
<1>8. ASSUME NEW f \in Filters, Refresh(f) PROVE CatalogueInv'
  <2>1. grid' \in Grids /\ grid'.filter = f /\ grid'.shown = grid.shown
    BY <1>1, <1>8 DEF Refresh, Grids
  <2>2. first' = AskFor(f, 0) /\ mixed' = more.out /\ UNCHANGED more
    BY <1>8 DEF Refresh
  <2>3. first' \in Queries /\ first'.out /\ mixed' \in BOOLEAN
    BY <1>1, <2>2, QueriesAre DEF Queries
  <2>4. CatalogueTypes' /\ FeedRight'
    BY <1>1, <2>1, <2>2, <2>3, GridTypes
  <2>5. Requested'
    BY <2>1, <2>2 DEF Requested
  <2>6. ~Unmixed' /\ ~Steady'
    BY <2>3 DEF Unmixed, Steady
  <2>7. QED
    BY <2>4, <2>5, <2>6 DEF CatalogueInv, Counted, Reached, ShownMatches
<1>9. QED
  BY <1>5, <1>6, <1>7, <1>8

LEMMA CatalogueStepInv == CatalogueInv /\ [CatalogueNext]_catalogueVars => CatalogueInv'
<1> SUFFICES ASSUME CatalogueInv, [CatalogueNext]_catalogueVars PROVE CatalogueInv'
  OBVIOUS
<1>1. CASE UNCHANGED catalogueVars
  <2>1. UNCHANGED <<onSale, published, grid, first, more, feed, loads, base, arrived, shifted, mixed, feedMixed>>
    BY <1>1 DEF catalogueVars
  <2>2. CatalogueTypes'
    BY <2>1 DEF CatalogueInv, CatalogueTypes
  <2>3. QED
    BY <2>1, <2>2, GridStays, FeedStays DEF CatalogueInv
<1>2. CASE CatalogueNext
  BY <1>2, ShopInv, FeedInv, FirstLandsInv, MoreLandsInv, GridAsksInv
     DEF CatalogueNext, ShopSteps, GridSteps
<1>3. QED
  BY <1>1, <1>2

(* A grid or a feed at rest shows what its filter selects, and a grid that  *)
(* offers no more has reached what was there (useListings.js,              *)
(* listingsService.list, FeedScreen.tsx).                                  *)
THEOREM GridsAreWhole == CatalogueSpec => []GridWhole
<1>1. CatalogueInv => GridWhole
  BY DEF CatalogueInv, GridWhole, Reached, ShownMatches, FeedRight, Steady, Unmixed
<1>2. QED
  BY <1>1, CatalogueInitInv, CatalogueStepInv, PTL DEF CatalogueSpec

(* The next page brings news or ends the offer (loadMore in useListings.js). *)
THEOREM PagesBringNews == CatalogueSpec => PagingMoves
<1> DEFINE Moves == MoreLands /\ ~mixed /\ ~shifted /\ Placed(grid.filter) /\ arrived < ListingPage =>
                      grid'.shown # grid.shown \/ ~grid'.hasMore
<1>1. ASSUME CatalogueInv, MoreLands, ~mixed, ~shifted, Placed(grid.filter), arrived < ListingPage,
             grid'.shown = grid.shown, grid'.hasMore
      PROVE  FALSE
  <2>1. CatalogueTypes /\ Counted /\ Reached /\ arrived \in Nat /\ IsFiniteSet(onSale)
    BY <1>1 DEF CatalogueInv, CatalogueTypes
  <2>2. PICK f \in Filters, ties \in {"up", "down"} :
           LET page == Page(more, ties) IN
           /\ f = grid.filter
           /\ grid' \in Grids /\ grid'.filter = f /\ grid'.shown = grid.shown \cup page
           /\ grid'.hasMore <=> OffersMore(more, page)
           /\ IsFiniteSet(grid'.shown) /\ Cardinality(grid.shown) \in Nat
           /\ ~mixed => /\ ~first.out /\ more = AskFor(f, Cardinality(grid.shown))
                        /\ page \subseteq Selected(f)
    BY <1>1, MoreLandsDoes
  <2>3. PICK page : page = Page(more, ties)
    OBVIOUS
  <2>4. PICK o \in Nat : o = Cardinality(grid.shown)
    BY <2>2
  <2>5. PICK shown, b : shown = grid.shown /\ b = base
    OBVIOUS
  <2>6. /\ more = AskFor(f, o) /\ page = Page(AskFor(f, o), ties) /\ o = Cardinality(shown)
        /\ OffersMore(AskFor(f, o), page) /\ page \subseteq shown
    BY <1>1, <2>2, <2>3, <2>4, <2>5
  <2>7. Steady
    BY <1>1, <2>2 DEF Steady, Unmixed
  <2>8. /\ shown \in SUBSET Selected(f) /\ b \in SUBSET Selected(f)
        /\ Cardinality(Selected(f) \ b) <= arrived
        /\ Leads(shown, b, f)
    BY <1>1, <2>1, <2>2, <2>5, <2>7 DEF Counted, Reached
  <2>9. Cardinality(Selected(f) \ b) >= ListingPage
    BY <1>1, <2>1, <2>2, <2>6, <2>8, PageReaches
  <2>10. Cardinality(Selected(f) \ b) \in Nat
    BY <2>1, FS_Subset, FS_CardinalityType DEF Selected
  <2>11. QED
    BY <1>1, <2>1, <2>8, <2>9, <2>10, CatalogueAssumption
<1>2. CatalogueInv => [Moves]_catalogueVars
  BY <1>1
<1>3. QED
  BY <1>2, CatalogueInitInv, CatalogueStepInv, PTL DEF CatalogueSpec, PagingMoves
=============================================================================
