-------------------------------- MODULE Desk --------------------------------
(***************************************************************************)
(* What the clients tell the parties of an order: the checkout sheet of    *)
(* the web (Checkout.jsx) with its wait for settlement, the purchase on    *)
(* the phone (FeedScreen.tsx), and the list of orders with its buttons on  *)
(* either (useOrders.js, OrderList.jsx, OrdersScreen.tsx).                 *)
(*                                                                         *)
(* The server is OrderPromise, which Orders implements: whatever webhook,  *)
(* sweep, moderator, administrator and the other party do to an order is   *)
(* one of its steps.                                                       *)
(***************************************************************************)
EXTENDS Naturals, FiniteSets, OrderStatus

CONSTANTS
    Orders, NoOrder,
    Calls,          \* requests a list has under way at once
    MaxMoves        \* bound: moves of an order

ASSUME DeskAssumption == NoOrder \notin Orders /\ MaxMoves \in Nat

VARIABLES
    status, money,  \* the server's, see OrderPromise
    moves,          \* history: how often the order has moved
    sheet,          \* the checkout sheet: how far it is, and its order
    app,            \* the purchase on the phone, likewise
    left,           \* what a closed sheet left under way: a checkout, payments
    orderList,      \* the list: where and whose it is, what it shows, busyId
    call,           \* its requests
    own,            \* history: the moves up to one's own last answered move
    overlaid           \* history: requests of the list overlapped, or a reading failed

shopVars == <<status, money, moves>>
buyVars  == <<sheet, app, left>>
listVars == <<orderList, call, own, overlaid>>
deskVars == <<shopVars, buyVars, listVars>>

Shop == INSTANCE OrderPromise

Resting == [at |-> "resting", of |-> NoOrder, to |-> "none", saw |-> [o \in Orders |-> <<"none", 0>>]]
NoLeft  == [asks |-> FALSE, pays |-> {}]
At(there, o) == [at |-> there, of |-> o]
Row(o) == <<status[o], moves[o]>>

DeskInit ==
    /\ Shop!Init /\ moves = [o \in Orders |-> 0]
    /\ sheet = At("closed", NoOrder) /\ app = At("idle", NoOrder) /\ left = NoLeft
    /\ orderList \in [kind : {"web", "phone"}, role : {"buyer", "seller"},
                 shown : {Resting.saw}, busy : {NoOrder}]
    /\ call = [q \in Calls |-> Resting]
    /\ own = [o \in Orders |-> 0] /\ overlaid = FALSE

\* The server takes a step on o, and counts it if it moves the order.
Server(o, step) ==
    /\ step
    /\ moves' = IF status'[o] = status[o] THEN moves ELSE [moves EXCEPT ![o] = @ + 1]
    /\ moves'[o] <= MaxMoves

Elsewhere(o) ==
    /\ Server(o, Shop!Return(o) \/ \E to \in Statuses : Shop!Advance(o, to))
    /\ UNCHANGED <<buyVars, listVars>>

-----------------------------------------------------------------------------
(* The sheet                                                               *)

Turns(from, to) == sheet.at = from /\ sheet' = [sheet EXCEPT !.at = to]

OpenSheet ==
    /\ sheet.at = "closed" /\ sheet' = At("choosing", NoOrder)
    /\ UNCHANGED <<shopVars, app, left, listVars>>

StartCheckout ==
    /\ Turns("choosing", "starting")
    /\ UNCHANGED <<shopVars, app, left, listVars>>

\* The order is placed, and its answer arrives or is lost.
CheckoutPlaces(o) ==
    /\ sheet.at = "starting" /\ Server(o, Shop!Place(o))
    /\ sheet' \in {At("ready", o), At("choosing", NoOrder)}
    /\ UNCHANGED <<app, left, listVars>>

CheckoutRefused ==
    /\ Turns("starting", "choosing")
    /\ UNCHANGED <<shopVars, app, left, listVars>>

HandlePay ==
    /\ Turns("ready", "paying")
    /\ UNCHANGED <<shopVars, app, left, listVars>>

PaymentTaken ==
    /\ Turns("paying", "waiting") /\ Server(sheet.of, Shop!Capture(sheet.of))
    /\ UNCHANGED <<app, left, listVars>>

\* Declined; or still processing at Stripe, which tells the buyer nothing.
PaymentOpen ==
    /\ Turns("paying", "ready")
    /\ left' \in {left, [left EXCEPT !.pays = @ \cup {sheet.of}]}
    /\ UNCHANGED <<shopVars, app, listVars>>

\* orderStatus: settled is any status but pending.  A failed poll and one that
\* finds the order pending change nothing.
Poll ==
    /\ Turns("waiting", "settled") /\ status[sheet.of] # "pending"
    /\ UNCHANGED <<shopVars, app, left, listVars>>

PollEnds ==
    /\ Turns("waiting", "slow")
    /\ UNCHANGED <<shopVars, app, left, listVars>>

\* What is under way goes on, and nobody reads its answer.
CloseSheet ==
    /\ sheet.at # "closed" /\ sheet' = At("closed", NoOrder)
    /\ left' = [asks |-> left.asks \/ sheet.at = "starting",
                pays |-> IF sheet.at = "paying" THEN left.pays \cup {sheet.of} ELSE left.pays]
    /\ UNCHANGED <<shopVars, app, listVars>>

LeftPlaces(o) ==
    /\ left.asks /\ left' = [left EXCEPT !.asks = FALSE]
    /\ Server(o, Shop!Place(o)) \/ UNCHANGED shopVars
    /\ UNCHANGED <<sheet, app, listVars>>

LeftTaken(o) ==
    /\ o \in left.pays /\ left' = [left EXCEPT !.pays = @ \ {o}]
    /\ Server(o, Shop!Capture(o)) \/ UNCHANGED shopVars
    /\ UNCHANGED <<sheet, app, listVars>>

-----------------------------------------------------------------------------
(* The purchase on the phone: inFlight keeps it to one at a time           *)

AppPay ==
    /\ app.at = "idle" /\ app' = At("asking", NoOrder)
    /\ UNCHANGED <<shopVars, sheet, left, listVars>>

AppPlaces(o) ==
    /\ app.at = "asking" /\ Server(o, Shop!Place(o))
    /\ app' \in {At("presented", o), At("idle", NoOrder)}
    /\ UNCHANGED <<sheet, left, listVars>>

\* "Payment sent" says nothing of the order.
AppTaken ==
    /\ app.at = "presented" /\ Server(app.of, Shop!Capture(app.of))
    /\ app' = At("idle", NoOrder)
    /\ UNCHANGED <<sheet, left, listVars>>

AppGivesUp ==
    /\ app.at # "idle" /\ app' = At("idle", NoOrder)
    /\ UNCHANGED <<shopVars, sheet, left, listVars>>

-----------------------------------------------------------------------------
(* The list                                                                *)

Shown(o) == orderList.shown[o][1]
Others(q) == {r \in Calls \ {q} : call[r] # Resting}
Becomes(q, c) == call' = [call EXCEPT ![q] = c]

\* Mounting the list, focusing the screen, pulling it.
Load(q) ==
    /\ call[q] = Resting /\ Becomes(q, [Resting EXCEPT !.at = "reading"])
    /\ overlaid' = (Others(q) # {})
    /\ UNCHANGED <<shopVars, buyVars, orderList, own>>

Reads(q) ==
    /\ call[q].at = "reading"
    /\ Becomes(q, [call[q] EXCEPT !.at = "landing", !.saw = [o \in Orders |-> Row(o)]])
    /\ UNCHANGED <<shopVars, buyVars, orderList, own, overlaid>>

\* busyId is one: the end of any action frees the button of every order.
Unbusies(q) == IF call[q].of = NoOrder THEN orderList.busy ELSE NoOrder

Lands(q) ==
    /\ call[q].at = "landing" /\ Becomes(q, Resting)
    /\ orderList' = [orderList EXCEPT !.shown = call[q].saw, !.busy = Unbusies(q)]
    /\ UNCHANGED <<shopVars, buyVars, own, overlaid>>

LoadFails(q) ==
    /\ call[q].at \in {"reading", "landing"} /\ Becomes(q, Resting)
    /\ orderList' = [orderList EXCEPT !.busy = Unbusies(q)]
    /\ overlaid' = TRUE
    /\ UNCHANGED <<shopVars, buyVars, own>>

Offers(o) ==
    IF orderList.kind = "web"
      THEN [fulfilled |-> orderList.role = "seller" /\ Shown(o) = "paid",
            completed |-> orderList.role = "buyer" /\ Shown(o) \in {"paid", "fulfilled"},
            disputed  |-> Shown(o) \in MoneyCaptured]
      ELSE [fulfilled |-> orderList.role = "seller" /\ Shown(o) = "paid" /\ orderList.busy # o,
            completed |-> orderList.role = "buyer" /\ Shown(o) = "fulfilled" /\ orderList.busy # o,
            disputed  |-> FALSE]

Press(q, o, to) ==
    /\ call[q] = Resting /\ Offers(o)[to]
    /\ Becomes(q, [Resting EXCEPT !.at = "moving", !.of = o, !.to = to])
    /\ orderList' = [orderList EXCEPT !.busy = IF orderList.kind = "phone" THEN o ELSE @]
    /\ overlaid' = (overlaid \/ Others(q) # {})
    /\ UNCHANGED <<shopVars, buyVars, own>>

(* Mutant: the move is answered and the list is not read again. *)
MovedKeepsList(q) ==
    /\ call[q].at = "moving"
    /\ LET o == call[q].of IN
         /\ Server(o, Shop!Advance(o, call[q].to))
         /\ own' = [own EXCEPT ![o] = moves'[o]] /\ overlaid' = (Others(q) # {})
    /\ Becomes(q, Resting) /\ orderList' = [orderList EXCEPT !.busy = Unbusies(q)]
    /\ UNCHANGED buyVars

\* The server moves the order and its answer arrives: the list is read again.
Moved(q) ==
    /\ call[q].at = "moving"
    /\ LET o == call[q].of IN
         /\ Server(o, Shop!Advance(o, call[q].to))
         /\ own' = [own EXCEPT ![o] = moves'[o]] /\ overlaid' = (Others(q) # {})
    /\ Becomes(q, [call[q] EXCEPT !.at = "reading"])
    /\ UNCHANGED <<buyVars, orderList>>

\* The server refuses or the answer is lost: the list stays as it is.
NotMoved(q) ==
    /\ call[q].at = "moving" /\ Becomes(q, Resting)
    /\ orderList' = [orderList EXCEPT !.busy = Unbusies(q)]
    /\ LET o == call[q].of IN UNCHANGED shopVars \/ Server(o, Shop!Advance(o, call[q].to))
    /\ UNCHANGED <<buyVars, own, overlaid>>

-----------------------------------------------------------------------------
SheetSteps ==
    \/ OpenSheet \/ StartCheckout \/ CheckoutRefused \/ HandlePay \/ PaymentTaken
    \/ PaymentOpen \/ Poll \/ PollEnds \/ CloseSheet
    \/ \E o \in Orders : CheckoutPlaces(o) \/ LeftPlaces(o) \/ LeftTaken(o)
AppSteps == AppPay \/ AppTaken \/ AppGivesUp \/ \E o \in Orders : AppPlaces(o)
ListSteps(q) ==
    \/ Load(q) \/ Reads(q) \/ Lands(q) \/ LoadFails(q) \/ Moved(q) \/ NotMoved(q)
    \/ \E o \in Orders, to \in {"fulfilled", "completed", "disputed"} : Press(q, o, to)

DeskNext ==
    \/ \E o \in Orders : Elsewhere(o)
    \/ SheetSteps \/ AppSteps \/ \E q \in Calls : ListSteps(q)

DeskSpec == DeskInit /\ [][DeskNext]_deskVars

-----------------------------------------------------------------------------
(* A sheet that says a payment was received has one behind it, and one that *)
(* calls the order confirmed was told so by the server; a list at rest      *)
(* shows the order no older than one's own last answered move, unless       *)
(* requests overlapped or a reading failed.                                 *)
DeskTellsTruth ==
    /\ sheet.at \in {"waiting", "settled", "slow"} => money[sheet.of] # "none"
    /\ sheet.at = "settled" => status[sheet.of] # "pending"
    /\ ~overlaid /\ (\A q \in Calls : call[q] = Resting) =>
         \A o \in Orders : orderList.shown[o][2] >= own[o]

(* Stated by orderStatus: settled is "true once the webhook has been        *)
(* processed and the order genuinely transitioned", which the sheet shows   *)
(* as "order confirmed".  An order that expired is settled to it as well.   *)
ConfirmedIsPaid ==
    [][sheet.at = "waiting" /\ sheet'.at = "settled" => status[sheet.of] \in SaleStands]_deskVars
=============================================================================
