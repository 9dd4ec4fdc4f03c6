------------------------------- MODULE Orders -------------------------------
(***************************************************************************)
(* Checkout, payment and order lifecycle (services/transactionsService.js, *)
(* services/orderStateMachine.js, the seller's status buttons of           *)
(* services/listingsService.js).                                           *)
(*                                                                         *)
(* A checkout attempt, its Stripe PaymentIntent and the order row it may   *)
(* become share one identity: the PaymentIntent id is unique in the orders *)
(* table.  PostgreSQL runs at READ COMMITTED, so one action is one         *)
(* statement or one database transaction; the webhook's transaction is     *)
(* split at the point where it holds the order's row lock and nothing      *)
(* else, because the expiry sweep does not wait for that lock.             *)
(***************************************************************************)
EXTENDS OrderStatus, Naturals, FiniteSets

CONSTANTS
  Listings,
  Checkouts,        \* checkout attempts, each by some buyer
  ListingOf,        \* the listing an attempt is for
  PayoutReady,      \* listings whose seller passes isPayoutReady
  Handlers,         \* webhook requests that can be in progress at once
  Admins,           \* dispute resolutions that can be in progress at once
  ManualTargets,    \* statuses the sellers' buttons ask for
  MaxCrashes,       \* bound on process crashes in one behaviour
  NoEvent

ListingStatuses == {"active", "reserved", "sold"}

ASSUME ConstantsAssumption ==
  /\ ListingOf \in [Checkouts -> Listings]
  /\ PayoutReady \subseteq Listings
  /\ ManualTargets \subseteq ListingStatuses
  /\ MaxCrashes \in Nat
  /\ Checkouts # {}

VARIABLES
  \* rows of the listings table
  listing,          \* status
  overdue,          \* listings reserved longer ago than RESERVATION_TTL_MINUTES
  moderated,        \* listings with moderated_at set; written by Takedown
  \* one checkout attempt
  step,             \* where checkout() is
  order,            \* status of its row in transactions
  intent,           \* its PaymentIntent at Stripe
  refund,           \* the idempotency key its money was returned under
  \* Stripe's event deliveries
  sent,             \* events Stripe has emitted; any may be delivered again
  unacked,          \* events not yet answered with 200
  hookStep, hookEvent,
  \* other requests in progress
  adminStep, adminOrder,
  sellerStep, sellerTarget,
  crashes,
  \* observers, read by properties only
  raced,            \* listings taken from a buyer who still held them
  dropped           \* orders whose late-payment refund failed unnoticed

listingVars == <<listing, overdue>>
stripeVars  == <<intent, refund>>
eventVars   == <<sent, unacked>>
hookVars    == <<hookStep, hookEvent>>
adminVars   == <<adminStep, adminOrder>>
sellerVars  == <<sellerStep, sellerTarget>>
auxVars     == <<moderated, crashes, raced, dropped>>

vars == <<listing, overdue, moderated, step, order, intent, refund, sent,
          unacked, hookStep, hookEvent, adminStep, adminOrder, sellerStep,
          sellerTarget, crashes, raced, dropped>>

EventTypes == {"succeeded", "payment_failed", "canceled"}
Events     == [type : EventTypes, of : Checkouts]
Succeeded(c) == [type |-> "succeeded", of |-> c]

Window        == {"claimed", "created", "unsaved", "releasing"}
CheckoutSteps == Window \cup {"idle", "read", "done", "failed", "crashed"}
HookSteps     == {"idle", "settling", "cancelling", "refunding", "recording"}
AdminSteps    == {"idle", "refunding", "recording", "upholding"}
RefundKeys    == {"late", "dispute", "takedown"}

-----------------------------------------------------------------------------
(* Reading the tables.                                                     *)

Pending(l) == {c \in Checkouts : ListingOf[c] = l /\ order[c] = "pending"}

(* The order's row is locked by a webhook that found it pending. *)
Locked(c) ==
  \E h \in Handlers :
    /\ hookStep[h] \in {"settling", "cancelling"}
    /\ hookEvent[h].of = c

InCheckout(l) == \E c \in Checkouts : ListingOf[c] = l /\ step[c] \in Window

(* An attempt that was told, or will be told, the item is its buyer's. *)
Holds(c) ==
  \/ step[c] \in Window
  \/ order[c] \in {"pending"} \cup SaleStands

Held(l) == \E c \in Checkouts : ListingOf[c] = l /\ Holds(c)

-----------------------------------------------------------------------------
(* Writing them.                                                           *)

SetListing(l, to) ==
  /\ listing' = [listing EXCEPT ![l] = to]
  /\ overdue' = overdue \ {l}

(* Mutant: the WHERE clause lost its status. *)
IfReservedUnguarded(l, to) == SetListing(l, to)

(* UPDATE listings ... WHERE id = l AND status = 'reserved' *)
IfReserved(l, to) ==
  IF listing[l] = "reserved" THEN SetListing(l, to) ELSE UNCHANGED listingVars

(* transitionOrder: no-op when already there, an error when not allowed.   *)
(* Its callers' row lock and expectedFrom are in their guards.             *)
Moves(c, to) == to \in ValidTransitions[order[c]]

TransitionOrder(c, to) ==
  order' = IF Moves(c, to) THEN [order EXCEPT ![c] = to] ELSE order

(* A refund at Stripe: replaying a key returns the first result, another   *)
(* key on a payment already returned is refused.                           *)
CanRefund(c, key) == intent[c] = "succeeded" /\ refund[c] \in {"none", key}

Emit(type, c) ==
  /\ sent' = sent \cup {[type |-> type, of |-> c]}
  /\ unacked' = unacked \cup {[type |-> type, of |-> c]}

Goto(c, s) == step' = [step EXCEPT ![c] = s]

-----------------------------------------------------------------------------
(* checkout(), one action per statement or call to Stripe.                 *)

Init ==
  /\ listing = [l \in Listings |-> "active"]
  /\ overdue = {} /\ moderated = {} /\ raced = {} /\ dropped = {}
  /\ step = [c \in Checkouts |-> "idle"]
  /\ order = [c \in Checkouts |-> "none"]
  /\ intent = [c \in Checkouts |-> "none"]
  /\ refund = [c \in Checkouts |-> "none"]
  /\ sent = {} /\ unacked = {}
  /\ hookStep = [h \in Handlers |-> "idle"]
  /\ hookEvent = [h \in Handlers |-> NoEvent]
  /\ adminStep = [a \in Admins |-> "idle"]
  /\ adminOrder \in [Admins -> Checkouts]
  /\ sellerStep = [l \in Listings |-> "idle"]
  /\ sellerTarget = [l \in Listings |-> "active"]
  /\ crashes = 0

(* The listing and its seller are read; nothing is held yet. *)
ReadListing(c) ==
  /\ step[c] = "idle"
  /\ ListingOf[c] \in PayoutReady \ moderated
  /\ Goto(c, "read")
  /\ UNCHANGED <<listingVars, order, stripeVars, eventVars, hookVars,
                 adminVars, sellerVars, auxVars>>

(* Mutant: the claim trusts the listing it read. *)
ClaimUnguarded(c) ==
  /\ step[c] = "read"
  /\ SetListing(ListingOf[c], "reserved") /\ Goto(c, "claimed")
  /\ UNCHANGED <<order, stripeVars, eventVars, hookVars, adminVars,
                 sellerVars, auxVars>>

(* UPDATE ... SET status = 'reserved' WHERE status = 'active' *)
Claim(c) ==
  /\ step[c] = "read"
  /\ IF listing[ListingOf[c]] = "active"
       THEN SetListing(ListingOf[c], "reserved") /\ Goto(c, "claimed")
       ELSE Goto(c, "failed") /\ UNCHANGED listingVars
  /\ UNCHANGED <<order, stripeVars, eventVars, hookVars, adminVars,
                 sellerVars, auxVars>>

CreateIntent(c) ==
  /\ step[c] = "claimed"
  /\ Goto(c, "created")
  /\ intent' = [intent EXCEPT ![c] = "open"]
  /\ UNCHANGED <<listingVars, order, refund, eventVars, hookVars, adminVars,
                 sellerVars, auxVars>>

(* The call fails, or its answer is lost and an intent nobody knows stays. *)
CreateIntentFails(c) ==
  /\ step[c] = "claimed"
  /\ Goto(c, "releasing")
  /\ \E i \in {"none", "open"} : intent' = [intent EXCEPT ![c] = i]
  /\ UNCHANGED <<listingVars, order, refund, eventVars, hookVars, adminVars,
                 sellerVars, auxVars>>

(* INSERT ... 'pending' with its order_created event, unless the partial   *)
(* unique index finds another pending order on the listing.                *)
InsertOrder(c) ==
  /\ step[c] = "created"
  /\ Pending(ListingOf[c]) = {}
  /\ Goto(c, "done")
  /\ order' = [order EXCEPT ![c] = "pending"]
  /\ UNCHANGED <<listingVars, stripeVars, eventVars, hookVars, adminVars,
                 sellerVars, auxVars>>

(* That violation, or any database error: the transaction rolls back. *)
InsertFails(c) ==
  /\ step[c] = "created"
  /\ Goto(c, "unsaved")
  /\ UNCHANGED <<listingVars, order, stripeVars, eventVars, hookVars,
                 adminVars, sellerVars, auxVars>>

(* paymentIntents.cancel, whose own failure is only logged. *)
CancelOrphan(c) ==
  /\ step[c] = "unsaved"
  /\ Goto(c, "releasing")
  /\ \/ /\ intent' = [intent EXCEPT ![c] = "canceled"]
        /\ Emit("canceled", c)
     \/ UNCHANGED <<intent, eventVars>>
  /\ UNCHANGED <<listingVars, order, refund, hookVars, adminVars, sellerVars,
                 auxVars>>

(* releaseReservation: frees the listing whoever reserved it. *)
ReleaseReservation(c) ==
  /\ step[c] = "releasing"
  /\ Goto(c, "failed")
  /\ IfReserved(ListingOf[c], "active")
  /\ UNCHANGED <<order, stripeVars, eventVars, hookVars, adminVars,
                 sellerVars, auxVars>>

CrashCheckout(c) ==
  /\ step[c] \in Window
  /\ crashes < MaxCrashes
  /\ crashes' = crashes + 1
  /\ Goto(c, "crashed")
  /\ UNCHANGED <<listingVars, order, stripeVars, eventVars, hookVars,
                 adminVars, sellerVars, moderated, raced, dropped>>

CheckoutStep(c) ==
  \/ Claim(c) \/ CreateIntent(c) \/ CreateIntentFails(c)
  \/ InsertOrder(c) \/ InsertFails(c)
  \/ CancelOrphan(c) \/ ReleaseReservation(c)

-----------------------------------------------------------------------------
(* Stripe and the buyer's browser, which got a client_secret only if       *)
(* checkout() returned.  A declined card leaves the intent payable.        *)

StripeUnchanged == <<listingVars, step, order, refund, hookVars, adminVars,
                     sellerVars, auxVars>>

Pay(c) ==
  /\ step[c] = "done" /\ intent[c] = "open"
  /\ intent' = [intent EXCEPT ![c] = "succeeded"]
  /\ Emit("succeeded", c)
  /\ UNCHANGED StripeUnchanged

PaymentDeclined(c) ==
  /\ step[c] = "done" /\ intent[c] = "open"
  /\ Emit("payment_failed", c)
  /\ UNCHANGED <<intent, StripeUnchanged>>

IntentCanceled(c) ==
  /\ step[c] = "done" /\ intent[c] = "open"
  /\ intent' = [intent EXCEPT ![c] = "canceled"]
  /\ Emit("canceled", c)
  /\ UNCHANGED StripeUnchanged

-----------------------------------------------------------------------------
(* handleWebhook().  Deliveries are at least once and in any order; an     *)
(* event is acknowledged when its handler returns without throwing.        *)

HookUnchanged == <<step, intent, adminVars, sellerVars, moderated, raced>>

Acknowledge(h) ==
  /\ hookStep' = [hookStep EXCEPT ![h] = "idle"]
  /\ hookEvent' = [hookEvent EXCEPT ![h] = NoEvent]
  /\ unacked' = unacked \ {hookEvent[h]}
  /\ UNCHANGED sent

(* SELECT ... FOR UPDATE, and the branch its answer leads to. *)
Receive(h, e) ==
  /\ hookStep[h] = "idle"
  /\ e \in sent
  /\ ~Locked(e.of)
  /\ hookEvent' = [hookEvent EXCEPT ![h] = e]
  /\ \/ /\ order[e.of] = "pending"
        /\ hookStep' = [hookStep EXCEPT ![h] =
             IF e.type = "succeeded" THEN "settling" ELSE "cancelling"]
     \/ /\ order[e.of] \in GivenUp
        /\ e.type = "succeeded"
        /\ hookStep' = [hookStep EXCEPT ![h] = "refunding"]
  /\ UNCHANGED <<listingVars, order, refund, eventVars, crashes, dropped,
                 HookUnchanged>>

(* Mutant: whatever is not pending counts as handled. *)
ReceiveNotPending(e) ==
  /\ e \in unacked
  /\ ~Locked(e.of)
  /\ order[e.of] # "pending"
  /\ unacked' = unacked \ {e}
  /\ UNCHANGED <<listingVars, order, refund, sent, hookVars, crashes, dropped,
                 HookUnchanged>>

(* Unknown payment, already handled, or nothing left to cancel. *)
ReceiveNothingToDo(e) ==
  /\ e \in unacked
  /\ ~Locked(e.of)
  /\ order[e.of] # "pending"
  /\ ~(e.type = "succeeded" /\ order[e.of] \in GivenUp)
  /\ unacked' = unacked \ {e}
  /\ UNCHANGED <<listingVars, order, refund, sent, hookVars, crashes, dropped,
                 HookUnchanged>>

(* pending -> paid and reserved -> sold commit together. *)
Settle(h) ==
  /\ hookStep[h] = "settling"
  /\ LET c == hookEvent[h].of IN
       /\ TransitionOrder(c, "paid")
       /\ IfReserved(ListingOf[c], "sold")
  /\ Acknowledge(h)
  /\ UNCHANGED <<refund, crashes, dropped, HookUnchanged>>

(* pending -> cancelled and reserved -> active commit together. *)
CancelUnpaid(h) ==
  /\ hookStep[h] = "cancelling"
  /\ LET c == hookEvent[h].of IN
       /\ TransitionOrder(c, "cancelled")
       /\ IfReserved(ListingOf[c], "active")
  /\ Acknowledge(h)
  /\ UNCHANGED <<refund, crashes, dropped, HookUnchanged>>

(* The payment came after the order was given up: refund, then record it.  *)
RefundLate(h) ==
  /\ hookStep[h] = "refunding"
  /\ LET c == hookEvent[h].of IN
       /\ CanRefund(c, "late")
       /\ refund' = [refund EXCEPT ![c] = "late"]
  /\ hookStep' = [hookStep EXCEPT ![h] = "recording"]
  /\ UNCHANGED <<listingVars, order, eventVars, hookEvent, crashes, dropped,
                 HookUnchanged>>

(* The catch logs and falls through to a 200, money returned or not. *)
RefundLateFails(h) ==
  /\ hookStep[h] = "refunding"
  /\ LET c == hookEvent[h].of IN
       \/ /\ UNCHANGED refund
          /\ dropped' = IF refund[c] = "none" THEN dropped \cup {c} ELSE dropped
       \/ /\ CanRefund(c, "late")
          /\ refund' = [refund EXCEPT ![c] = "late"]
          /\ UNCHANGED dropped
  /\ Acknowledge(h)
  /\ UNCHANGED <<listingVars, order, crashes, HookUnchanged>>

RecordLateRefund(h) ==
  /\ hookStep[h] = "recording"
  /\ LET c == hookEvent[h].of IN
       /\ ~Locked(c)
       /\ \/ TransitionOrder(c, "refunded")
          \/ UNCHANGED order      \* a database error, caught and logged
  /\ Acknowledge(h)
  /\ UNCHANGED <<listingVars, refund, crashes, dropped, HookUnchanged>>

(* Mutant: 200 is sent before the work, so a crash loses the event. *)
CrashAcknowledged(h) ==
  /\ hookStep[h] # "idle"
  /\ crashes < MaxCrashes
  /\ crashes' = crashes + 1
  /\ Acknowledge(h)
  /\ UNCHANGED <<listingVars, order, refund, dropped, HookUnchanged>>

(* The process dies: its transaction rolls back and no 200 is sent. *)
CrashHook(h) ==
  /\ hookStep[h] # "idle"
  /\ crashes < MaxCrashes
  /\ crashes' = crashes + 1
  /\ hookStep' = [hookStep EXCEPT ![h] = "idle"]
  /\ hookEvent' = [hookEvent EXCEPT ![h] = NoEvent]
  /\ UNCHANGED <<listingVars, order, refund, eventVars, dropped,
                 HookUnchanged>>

HookStep(h) ==
  \/ Settle(h) \/ CancelUnpaid(h) \/ RefundLate(h)
  \/ RefundLateFails(h) \/ RecordLateRefund(h)

-----------------------------------------------------------------------------
(* releaseExpiredReservations().  A checkout window is seconds long and    *)
(* the TTL half an hour, so no reservation expires inside its window.      *)

SweepUnchanged == <<moderated, step, stripeVars, eventVars, hookVars,
                    adminVars, sellerVars, crashes, dropped>>

(* Mutant: a sweep that looks for stale orders instead of listings. *)
OrderExpires(l) ==
  /\ listing[l] = "reserved"
  /\ l \notin overdue
  /\ Pending(l) # {}
  /\ overdue' = overdue \cup {l}
  /\ UNCHANGED <<listing, order, raced, SweepUnchanged>>

ReservationExpires(l) ==
  /\ listing[l] = "reserved"
  /\ l \notin overdue
  /\ ~InCheckout(l)
  /\ overdue' = overdue \cup {l}
  /\ UNCHANGED <<listing, order, raced, SweepUnchanged>>

(* Mutant: the reservation's age is not checked again. *)
SweepFresh(l) ==
  /\ listing[l] = "reserved"
  /\ order' = [c \in Checkouts |->
                 IF c \in Pending(l) /\ ~Locked(c) THEN "expired" ELSE order[c]]
  /\ SetListing(l, "active")
  /\ UNCHANGED <<raced, SweepUnchanged>>

(* SELECT ... FOR UPDATE SKIP LOCKED on the pending order.  One that is    *)
(* locked is not seen, and the listing is freed all the same: locked by a  *)
(* webhook, or by a party's own request (markFulfilled, confirmReceipt,    *)
(* raiseDispute) for as long as transitionOrder takes to refuse it.        *)
Sweep(l) ==
  /\ listing[l] = "reserved"
  /\ l \in overdue
  /\ \E seen \in SUBSET {c \in Pending(l) : ~Locked(c)} :
       /\ order' = [c \in Checkouts |->
                      IF c \in seen THEN "expired" ELSE order[c]]
       /\ raced' = IF Pending(l) = seen THEN raced ELSE raced \cup {l}
  /\ SetListing(l, "active")
  /\ UNCHANGED SweepUnchanged

-----------------------------------------------------------------------------
(* markFulfilled, confirmReceipt, raiseDispute: the status is read, then   *)
(* transitionOrder insists it still is (expectedFrom), so read and move    *)
(* are one step; a request that lost the race answers 409.                 *)

OrderUnchanged == <<listingVars, step, stripeVars, eventVars, hookVars,
                    sellerVars, auxVars>>

PartyMoves(c, to) ==
  /\ Moves(c, to)
  /\ ~Locked(c)
  /\ TransitionOrder(c, to)
  /\ UNCHANGED <<adminVars, OrderUnchanged>>

MarkFulfilled(c)  == PartyMoves(c, "fulfilled")
(* 'disputed' may also become 'completed': expectedFrom is whatever status *)
(* the buyer's own request has just read.                                  *)
ConfirmReceipt(c) == PartyMoves(c, "completed")
RaiseDispute(c)   == PartyMoves(c, "disputed")

(* resolveDispute(): the status is read without a lock, Stripe comes       *)
(* first, and the move is not tied to the status that was read.            *)
ReadDispute(a, c, outcome) ==
  /\ adminStep[a] = "idle"
  /\ order[c] = "disputed"
  /\ adminStep' = [adminStep EXCEPT ![a] = outcome]
  /\ adminOrder' = [adminOrder EXCEPT ![a] = c]
  /\ UNCHANGED <<order, OrderUnchanged>>

AdminAnswers(a) ==
  /\ adminStep' = [adminStep EXCEPT ![a] = "idle"]
  /\ UNCHANGED adminOrder

RefundDispute(a) ==
  /\ adminStep[a] = "refunding"
  /\ CanRefund(adminOrder[a], "dispute")
  /\ refund' = [refund EXCEPT ![adminOrder[a]] = "dispute"]
  /\ adminStep' = [adminStep EXCEPT ![a] = "recording"]
  /\ UNCHANGED <<listingVars, step, order, intent, eventVars, hookVars,
                 adminOrder, sellerVars, auxVars>>

(* Stripe's error, or the process's end, leaves the order as it is; the    *)
(* money may have gone back all the same.                                  *)
RefundDisputeFails(a) ==
  /\ adminStep[a] = "refunding"
  /\ \/ UNCHANGED refund
     \/ /\ CanRefund(adminOrder[a], "dispute")
        /\ refund' = [refund EXCEPT ![adminOrder[a]] = "dispute"]
  /\ AdminAnswers(a)
  /\ UNCHANGED <<listingVars, step, order, intent, eventVars, hookVars,
                 sellerVars, auxVars>>

(* The move, or its 409, or a database error. *)
RecordResolution(a) ==
  /\ adminStep[a] \in {"recording", "upholding"}
  /\ ~Locked(adminOrder[a])
  /\ \/ TransitionOrder(adminOrder[a],
           IF adminStep[a] = "recording" THEN "refunded" ELSE "completed")
     \/ UNCHANGED order
  /\ AdminAnswers(a)
  /\ UNCHANGED OrderUnchanged

AdminStep(a) == RefundDispute(a) \/ RefundDisputeFails(a) \/ RecordResolution(a)

-----------------------------------------------------------------------------
(* setStatus() behind the seller's Reserve, Mark sold and Relist: three    *)
(* statements with no transaction around them.                             *)

SellerTransitions ==
  [active |-> {"reserved", "sold"}, reserved |-> {"active", "sold"},
   sold   |-> {"active"}]

SellerUnchanged == <<step, order, stripeVars, eventVars, hookVars, adminVars,
                     moderated, crashes, dropped>>

(* The moderation check uses this read too; a moderated listing's request  *)
(* ends in an error whatever comes next.                                   *)
SellerReads(l, target) ==
  /\ sellerStep[l] = "idle"
  /\ target \in SellerTransitions[listing[l]]
  /\ l \notin moderated
  /\ sellerStep' = [sellerStep EXCEPT ![l] = "checking"]
  /\ sellerTarget' = [sellerTarget EXCEPT ![l] = target]
  /\ UNCHANGED <<listingVars, raced, SellerUnchanged>>

(* assertNoPendingTransaction *)
SellerChecks(l) ==
  /\ sellerStep[l] = "checking"
  /\ sellerStep' = [sellerStep EXCEPT ![l] =
                      IF Pending(l) = {} THEN "writing" ELSE "idle"]
  /\ UNCHANGED <<sellerTarget, listingVars, raced, SellerUnchanged>>

(* UPDATE listings SET status = target WHERE id = l *)
SellerWrites(l) ==
  /\ sellerStep[l] = "writing"
  /\ SetListing(l, sellerTarget[l])
  /\ raced' = IF Held(l) THEN raced \cup {l} ELSE raced
  /\ sellerStep' = [sellerStep EXCEPT ![l] = "idle"]
  /\ UNCHANGED <<sellerTarget, SellerUnchanged>>

-----------------------------------------------------------------------------

Next ==
  \/ \E c \in Checkouts :
       \/ ReadListing(c) \/ CheckoutStep(c) \/ CrashCheckout(c)
       \/ Pay(c) \/ PaymentDeclined(c) \/ IntentCanceled(c)
       \/ MarkFulfilled(c) \/ ConfirmReceipt(c) \/ RaiseDispute(c)
  \/ \E h \in Handlers :
       \/ \E e \in sent : Receive(h, e)
       \/ HookStep(h) \/ CrashHook(h)
  \/ \E e \in unacked : ReceiveNothingToDo(e)
  \/ \E a \in Admins :
       \/ \E c \in Checkouts, outcome \in {"refunding", "upholding"} :
            ReadDispute(a, c, outcome)
       \/ AdminStep(a)
  \/ \E l \in Listings :
       \/ ReservationExpires(l) \/ Sweep(l)
       \/ \E t \in ManualTargets : SellerReads(l, t)
       \/ SellerChecks(l) \/ SellerWrites(l)

Spec == Init /\ [][Next]_vars

(* Requests that were accepted run to their end or crash; Stripe keeps     *)
(* delivering what was not acknowledged; time passes and server.js sweeps  *)
(* every five minutes.  Buyers, sellers and admins owe nothing.            *)
Fairness ==
  /\ \A c \in Checkouts : WF_vars(CheckoutStep(c))
  /\ \A h \in Handlers : WF_vars(HookStep(h))
  /\ \A e \in Events :
       /\ SF_vars(e \in unacked /\ \E h \in Handlers : Receive(h, e))
       /\ WF_vars(ReceiveNothingToDo(e))
  /\ \A l \in Listings : WF_vars(ReservationExpires(l)) /\ WF_vars(Sweep(l))

FairSpec == Spec /\ Fairness

-----------------------------------------------------------------------------
TypeOK ==
  /\ listing \in [Listings -> ListingStatuses]
  /\ overdue \subseteq Listings
  /\ moderated \subseteq Listings
  /\ step \in [Checkouts -> CheckoutSteps]
  /\ order \in [Checkouts -> Statuses \cup {"none"}]
  /\ intent \in [Checkouts -> {"none", "open", "succeeded", "canceled"}]
  /\ refund \in [Checkouts -> RefundKeys \cup {"none"}]
  /\ sent \subseteq Events
  /\ unacked \subseteq sent
  /\ hookStep \in [Handlers -> HookSteps]
  /\ hookEvent \in [Handlers -> Events \cup {NoEvent}]
  /\ \A h \in Handlers : hookStep[h] # "idle" => hookEvent[h] \in Events
  /\ adminStep \in [Admins -> AdminSteps]
  /\ adminOrder \in [Admins -> Checkouts]
  /\ sellerStep \in [Listings -> {"idle", "checking", "writing"}]
  /\ sellerTarget \in [Listings -> ListingStatuses]
  /\ crashes \in Nat
  /\ raced \subseteq Listings
  /\ dropped \subseteq Checkouts

-----------------------------------------------------------------------------
(* Safety.                                                                 *)

(* One item has one buyer: no two attempts on a listing are both inside    *)
(* checkout, awaiting payment or paid for.  The claim's WHERE clause, the  *)
(* row locks and the TTL give this; the only ways out are a sweep that     *)
(* skipped a locked order and a seller's write that lost its check (raced).*)
SoleHolder ==
  \A c, d \in Checkouts :
    /\ c # d
    /\ ListingOf[c] = ListingOf[d]
    /\ ListingOf[c] \notin raced
    => ~(Holds(c) /\ Holds(d))

(* The listing says so: reserved while its buyer may still pay, sold once  *)
(* they did.  Claim, settlement, release and sweep each write one side.    *)
HolderKeepsListing ==
  \A c \in Checkouts :
    Holds(c) /\ ListingOf[c] \notin raced =>
      listing[ListingOf[c]] =
        (IF order[c] \in SaleStands THEN "sold" ELSE "reserved")

(* Captured money is never forgotten: it stands behind a sale, went back,  *)
(* or its event is still to be answered by handleWebhook.  The one         *)
(* exception is the refund failure that handler swallows (dropped).        *)
CapturedMoneyAccounted ==
  \A c \in Checkouts :
    intent[c] = "succeeded" /\ refund[c] = "none" =>
      \/ order[c] \in SaleStands
      \/ Succeeded(c) \in unacked
      \/ c \in dropped

(* A sold item returns to sale only by its seller's own Relist: releases,  *)
(* cancellations and sweeps that come late all leave it alone.             *)
SoldLeavesBySeller ==
  [][\A l \in Listings :
       listing[l] = "sold" /\ listing'[l] # "sold" => sellerStep[l] = "writing"
    ]_vars

(* The order and its money keep the promise of OrderPromise: every status  *)
(* is legal, paid means captured, refunded means returned, and nothing is  *)
(* returned for an order still awaiting payment.                           *)
Money(c) ==
  IF refund[c] # "none" THEN "returned"
  ELSE IF intent[c] = "succeeded" THEN "captured" ELSE "none"

Promise == INSTANCE OrderPromise
             WITH Orders <- Checkouts, status <- order,
                  money <- [c \in Checkouts |-> Money(c)]

PromiseKept == Promise!Spec

-----------------------------------------------------------------------------
(* Why the above holds: the inductive invariant.                           *)

(* A row exists once checkout() returned, and is paid for only then. *)
RowsMatchCheckouts ==
  \A c \in Checkouts :
    /\ order[c] # "none" <=> step[c] = "done"
    /\ step[c] \in {"idle", "read", "claimed"} => intent[c] = "none"
    /\ intent[c] = "succeeded" => order[c] # "none"

MoneyBehindStatus ==
  \A c \in Checkouts :
    /\ order[c] \in SaleStands => intent[c] = "succeeded"
    /\ order[c] = "refunded" => refund[c] # "none"
    /\ refund[c] # "none" =>
         intent[c] = "succeeded" /\ order[c] \notin {"none", "pending"}

EventsTruthful ==
  \A e \in sent : e.type = "succeeded" => intent[e.of] = "succeeded"

(* What a webhook has seen still holds when it acts on it. *)
HandlersInformed ==
  \A h \in Handlers :
    LET e == hookEvent[h] IN
    /\ hookStep[h] # "idle" => e \in sent
    /\ hookStep[h] = "cancelling" => e.type # "succeeded" /\ order[e.of] = "pending"
    /\ hookStep[h] = "settling" => e.type = "succeeded" /\ order[e.of] = "pending"
    /\ hookStep[h] \in {"refunding", "recording"} =>
         e.type = "succeeded" /\ order[e.of] \in GivenUp \cup {"refunded"}
    /\ hookStep[h] = "recording" => refund[e.of] # "none"

RowLocksExclusive ==
  \A g, h \in Handlers :
    /\ hookStep[g] \in {"settling", "cancelling"}
    /\ hookStep[h] \in {"settling", "cancelling"}
    /\ hookEvent[g].of = hookEvent[h].of
    => g = h

(* A disputed order can be completed or refunded behind an admin's back,   *)
(* but not unpaid.                                                         *)
AdminsInformed ==
  \A a \in Admins :
    /\ adminStep[a] # "idle" => order[adminOrder[a]] \in SaleStands \cup {"refunded"}
    /\ adminStep[a] = "recording" => refund[adminOrder[a]] # "none"

OverdueAfterCheckout ==
  \A l \in overdue : listing[l] = "reserved" /\ ~InCheckout(l)

(* The partial unique index on pending orders. *)
OnePending ==
  \A c, d \in Checkouts :
    ListingOf[c] = ListingOf[d] /\ order[c] = "pending" /\ order[d] = "pending"
      => c = d

MoneyInv ==
  /\ RowsMatchCheckouts /\ MoneyBehindStatus /\ EventsTruthful
  /\ HandlersInformed /\ RowLocksExclusive /\ AdminsInformed

HoldingInv ==
  OverdueAfterCheckout /\ SoleHolder /\ HolderKeepsListing

IInv ==
  /\ TypeOK /\ MoneyInv /\ CapturedMoneyAccounted
  /\ OnePending /\ HoldingInv

-----------------------------------------------------------------------------
(* Liveness, under Fairness.                                               *)

(* A payment that succeeded is taken account of, whatever was redelivered, *)
(* locked or crashed in between: the order does not stay pending.          *)
PaymentSettles ==
  \A c \in Checkouts : intent[c] = "succeeded" ~> order[c] # "pending"

(* A payment for an order given up goes back, unless its refund failed     *)
(* where the webhook swallows the failure.                                 *)
LatePaymentReturned ==
  \A c \in Checkouts :
    intent[c] = "succeeded" /\ order[c] \in GivenUp
      ~> refund[c] # "none" \/ c \in dropped

(* No reservation lasts: a buyer who leaves, a crashed checkout and a      *)
(* seller's manual reservation are all ended by payment or by the sweep.   *)
ReservationEnds ==
  \A l \in Listings : listing[l] = "reserved" ~> listing[l] # "reserved"

-----------------------------------------------------------------------------
(* What comments and tests of the repository say, and the code does not.   *)

(* tests/concurrency.test.js: paid with the listing active again is "the   *)
(* corruption being guarded against" in a webhook racing the sweep.        *)
PaidIsOffTheMarket ==
  \A c \in Checkouts : order[c] = "paid" => listing[ListingOf[c]] # "active"
=============================================================================
