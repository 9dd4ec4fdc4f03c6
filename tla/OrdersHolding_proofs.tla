------------------------- MODULE OrdersHolding_proofs -------------------------
(***************************************************************************)
(* Orders implements OrderPromise, and one item has one buyer, for any     *)
(* number of listings, attempts, webhook requests and admins.              *)
(***************************************************************************)
EXTENDS Orders_proofs

(* What a step does to orders: places one that is the only pending one on  *)
(* its listing, or moves others off, never back to, pending.               *)
LEMMA PendingOnlyByInsert ==
  ASSUME Money_IInv, Next
  PROVE  \/ \E c \in Checkouts : InsertOrder(c)
         \/ \A c \in Checkouts : order'[c] = "pending" => order[c] = "pending"
<1> USE DEF Money_IInv, TypeOK, listingVars, stripeVars, eventVars, hookVars,
            adminVars, auxVars
<1>1. ASSUME NEW c \in Checkouts, NEW to, to # "pending",
             TransitionOrder(c, to) \/ UNCHANGED order
      PROVE  \A d \in Checkouts : order'[d] = "pending" => order[d] = "pending"
  BY <1>1 DEF TransitionOrder
<1>2. ASSUME NEW c \in Checkouts,
             \/ ReadListing(c) \/ CheckoutStep(c) \/ CrashCheckout(c)
             \/ Pay(c) \/ PaymentDeclined(c) \/ IntentCanceled(c)
      PROVE  InsertOrder(c) \/ UNCHANGED order
  BY <1>2 DEF ReadListing, CheckoutStep, Claim, CreateIntent,
       CreateIntentFails, InsertFails, CancelOrphan, ReleaseReservation,
       CrashCheckout, Pay, PaymentDeclined, IntentCanceled, StripeUnchanged
<1>3. ASSUME NEW c \in Checkouts,
             MarkFulfilled(c) \/ ConfirmReceipt(c) \/ RaiseDispute(c)
      PROVE  \E to \in Statuses : to # "pending" /\ TransitionOrder(c, to)
  BY <1>3 DEF MarkFulfilled, ConfirmReceipt, RaiseDispute, PartyMoves, Statuses
<1>4. ASSUME NEW h \in Handlers,
             \/ \E e \in sent : Receive(h, e)
             \/ CrashHook(h) \/ RefundLate(h) \/ RefundLateFails(h)
      PROVE  UNCHANGED order
  BY <1>4 DEF Receive, CrashHook, RefundLate, RefundLateFails
<1>5. ASSUME NEW h \in Handlers, Settle(h) \/ CancelUnpaid(h) \/ RecordLateRefund(h)
      PROVE  \E c \in Checkouts, to \in Statuses :
               to # "pending" /\ (TransitionOrder(c, to) \/ UNCHANGED order)
  <2>1. hookEvent[h].of \in Checkouts
    BY <1>5 DEF Settle, CancelUnpaid, RecordLateRefund, Events
  <2>2. QED
    BY <1>5, <2>1 DEF Settle, CancelUnpaid, RecordLateRefund, Statuses
<1>6. ASSUME NEW a \in Admins, RecordResolution(a)
      PROVE  \E c \in Checkouts, to \in Statuses :
               to # "pending" /\ (TransitionOrder(c, to) \/ UNCHANGED order)
  BY <1>6 DEF RecordResolution, Statuses
<1>7. ASSUME NEW a \in Admins,
             \/ \E c \in Checkouts, outcome \in {"refunding", "upholding"} :
                  ReadDispute(a, c, outcome)
             \/ RefundDispute(a) \/ RefundDisputeFails(a)
      PROVE  UNCHANGED order
  BY <1>7 DEF ReadDispute, RefundDispute, RefundDisputeFails
<1>8. ASSUME NEW l \in Listings, Sweep(l)
      PROVE  \A d \in Checkouts : order'[d] = "pending" => order[d] = "pending"
  BY <1>8 DEF Sweep
<1>9. ASSUME \/ \E e \in unacked : ReceiveNothingToDo(e)
             \/ \E l \in Listings :
                  \/ ReservationExpires(l)
                  \/ \E t \in ManualTargets : SellerReads(l, t)
                  \/ SellerChecks(l) \/ SellerWrites(l)
      PROVE  UNCHANGED order
  BY <1>9 DEF ReceiveNothingToDo, ReservationExpires, SweepUnchanged,
       SellerReads, SellerChecks, SellerWrites, SellerUnchanged
<1> HIDE DEF Money_IInv, TypeOK
<1>10. QED
  BY <1>1, <1>2, <1>3, <1>4, <1>5, <1>6, <1>7, <1>8, <1>9
     DEF Next, HookStep, AdminStep

(* Initially no order is pending. *)
LEMMA PendingInit == Init => OnePending
  BY DEF Init, OnePending

(* The index holds: the insert finds no pending order on the listing. *)
LEMMA PendingStep == Money_IInv /\ OnePending /\ [Next]_vars => OnePending'
<1> SUFFICES ASSUME Money_IInv, OnePending, [Next]_vars PROVE OnePending'
  OBVIOUS
<1>1. ASSUME NEW c \in Checkouts, InsertOrder(c) PROVE OnePending'
  BY <1>1 DEF InsertOrder, Pending, OnePending, Money_IInv, TypeOK
<1>2. ASSUME \A c \in Checkouts : order'[c] = "pending" => order[c] = "pending"
      PROVE  OnePending'
  BY <1>2 DEF OnePending
<1>3. CASE UNCHANGED vars
  BY <1>2, <1>3 DEF vars
<1>4. QED
  BY <1>1, <1>2, <1>3, PendingOnlyByInsert

-----------------------------------------------------------------------------
(* Both specifications take their statuses from OrderStatus. *)
LEMMA SameStatuses ==
  /\ Promise!Statuses = Statuses
  /\ Promise!ValidTransitions = ValidTransitions
  /\ Promise!SaleStands = SaleStands
  BY DEF Statuses, ValidTransitions, SaleStands, MoneyCaptured,
         Promise!Statuses, Promise!ValidTransitions, Promise!SaleStands,
         Promise!MoneyCaptured

(* The abstract money follows one attempt's intent and refund. *)
LEMMA MoneyStands ==
  ASSUME UNCHANGED refund,
         \A c \in Checkouts : intent'[c] = "succeeded" <=> intent[c] = "succeeded"
  PROVE  [c \in Checkouts |-> Money(c)]' = [c \in Checkouts |-> Money(c)]
  BY DEF Money

(* A legal move of one order, with the money the promise asks for. *)
LEMMA MovesAdvance ==
  ASSUME Money_IInv, NEW c \in Checkouts, NEW to,
         to \in SaleStands => intent[c] = "succeeded",
         to = "refunded" => refund[c] # "none",
         TransitionOrder(c, to), UNCHANGED <<intent, refund>>
  PROVE  [Promise!Next]_(Promise!vars)
<1>1. [c_1 \in Checkouts |-> Money(c_1)]' = [c_1 \in Checkouts |-> Money(c_1)]
  BY MoneyStands
<1>2. CASE ~Moves(c, to)
  BY <1>1, <1>2 DEF TransitionOrder, Promise!vars
<1>3. CASE Moves(c, to)
  <2>1. to \in Statuses
    BY <1>3, MovesFrom DEF Moves, Money_IInv, TypeOK
  <2>2. Promise!Advance(c, to)
    BY <1>1, <1>3, SameStatuses DEF Promise!Advance, TransitionOrder, Moves, Money
  <2>3. QED
    BY <2>1, <2>2, SameStatuses DEF Promise!Next
<1>4. QED
  BY <1>2, <1>3

(* A refund returns captured money, or repeats itself. *)
LEMMA RefundReturns ==
  ASSUME Money_IInv, NEW c \in Checkouts, NEW key \in RefundKeys,
         order[c] \notin {"none", "pending"}, intent[c] = "succeeded",
         refund' = [refund EXCEPT ![c] = key], UNCHANGED <<order, intent>>
  PROVE  [Promise!Next]_(Promise!vars)
<1> USE DEF Money_IInv, TypeOK
<1> DEFINE money == [d \in Checkouts |-> Money(d)]
<1>1. money' = [money EXCEPT ![c] = "returned"]
  BY DEF Money, RefundKeys
<1>2. CASE refund[c] = "none"
  BY <1>1, <1>2 DEF Promise!Next, Promise!Return, Money
<1>3. CASE refund[c] # "none"
  BY <1>1, <1>3 DEF Promise!vars, Money
<1>4. QED
  BY <1>2, <1>3

-----------------------------------------------------------------------------
(* Each step of Orders is a step of the promise, or none. *)
LEMMA QuietSteps ==
  ASSUME UNCHANGED <<order, refund>>,
         \A c \in Checkouts : intent'[c] = "succeeded" <=> intent[c] = "succeeded"
  PROVE  [Promise!Next]_(Promise!vars)
  BY MoneyStands DEF Promise!vars

(* checkout() only places orders. *)
LEMMA CheckoutPromised ==
  ASSUME Money_IInv, NEW c \in Checkouts,
         ReadListing(c) \/ CheckoutStep(c) \/ CrashCheckout(c)
  PROVE  [Promise!Next]_(Promise!vars)
<1> USE DEF Money_IInv, TypeOK, stripeVars
<1>1. CASE InsertOrder(c)
  <2>1. /\ order[c] = "none" /\ intent[c] # "succeeded" /\ refund[c] = "none"
        /\ order' = [order EXCEPT ![c] = "pending"] /\ UNCHANGED <<intent, refund>>
    BY <1>1 DEF InsertOrder, MoneyInv, RowsMatchCheckouts, MoneyBehindStatus
  <2>2. [d \in Checkouts |-> Money(d)]' = [d \in Checkouts |-> Money(d)]
    BY <2>1, MoneyStands
  <2>3. Promise!Place(c)
    BY <2>1, <2>2 DEF Promise!Place, Money
  <2>4. QED
    BY <2>3 DEF Promise!Next
<1>2. CASE ~InsertOrder(c)
  <2>1. UNCHANGED <<order, refund>>
    BY <1>2 DEF ReadListing, CheckoutStep, Claim, CreateIntent,
         CreateIntentFails, InsertFails, CancelOrphan, ReleaseReservation,
         CrashCheckout
  <2>2. \A d \in Checkouts : intent'[d] = "succeeded" <=> intent[d] = "succeeded"
    BY <1>2 DEF ReadListing, CheckoutStep, Claim, CreateIntent,
         CreateIntentFails, InsertFails, CancelOrphan, ReleaseReservation,
         CrashCheckout, MoneyInv, RowsMatchCheckouts
  <2>3. QED
    BY <2>1, <2>2, QuietSteps
<1>3. QED
  BY <1>1, <1>2

(* What happens at Stripe at most captures the money of one order. *)
LEMMA StripePromised ==
  ASSUME Money_IInv, NEW c \in Checkouts,
         Pay(c) \/ PaymentDeclined(c) \/ IntentCanceled(c)
  PROVE  [Promise!Next]_(Promise!vars)
<1> USE DEF Money_IInv, TypeOK, StripeUnchanged
<1>1. CASE Pay(c)
  <2>1. /\ order[c] # "none" /\ intent[c] = "open" /\ refund[c] = "none"
        /\ intent' = [intent EXCEPT ![c] = "succeeded"]
        /\ UNCHANGED <<order, refund>>
    BY <1>1 DEF Pay, MoneyInv, RowsMatchCheckouts, MoneyBehindStatus
  <2>2. Promise!Capture(c)
    BY <2>1 DEF Promise!Capture, Money
  <2>3. QED
    BY <2>2 DEF Promise!Next
<1>2. CASE PaymentDeclined(c) \/ IntentCanceled(c)
  BY <1>2, QuietSteps DEF PaymentDeclined, IntentCanceled
<1>3. QED
  BY <1>1, <1>2

(* A webhook advances one order, or returns the money of one. *)
LEMMA HooksPromised ==
  ASSUME Money_IInv, NEW h \in Handlers,
         \/ \E e \in sent : Receive(h, e)
         \/ HookStep(h) \/ CrashHook(h)
  PROVE  [Promise!Next]_(Promise!vars)
<1> USE DEF HookUnchanged
<1> DEFINE c == hookEvent[h].of
<1>1. CASE (\E e \in sent : Receive(h, e)) \/ CrashHook(h)
  BY <1>1, QuietSteps DEF Receive, CrashHook
<1>2. hookStep[h] # "idle" => c \in Checkouts
  BY DEF Money_IInv, TypeOK, Events
<1>3. CASE Settle(h)
  <2>1. /\ c \in Checkouts /\ intent[c] = "succeeded"
        /\ TransitionOrder(c, "paid") /\ UNCHANGED <<intent, refund>>
    BY <1>2, <1>3 DEF Settle, Money_IInv, MoneyInv, HandlersInformed, EventsTruthful
  <2>2. QED
    BY <2>1, MovesAdvance
<1>4. CASE CancelUnpaid(h)
  <2>1. /\ c \in Checkouts /\ TransitionOrder(c, "cancelled")
        /\ UNCHANGED <<intent, refund>>
    BY <1>2, <1>4 DEF CancelUnpaid
  <2>2. QED
    BY <2>1, MovesAdvance DEF SaleStands, MoneyCaptured
<1>5. CASE RefundLate(h) \/ RefundLateFails(h)
  <2>1. /\ c \in Checkouts /\ intent[c] = "succeeded"
        /\ order[c] \notin {"none", "pending"}
    BY <1>2, <1>5 DEF RefundLate, RefundLateFails, Money_IInv, MoneyInv,
         HandlersInformed, EventsTruthful, GivenUp
  <2>2. /\ UNCHANGED <<order, intent>>
        /\ refund' = refund \/ refund' = [refund EXCEPT ![c] = "late"]
    BY <1>5 DEF RefundLate, RefundLateFails
  <2>3. CASE refund' = refund
    BY <2>2, <2>3, QuietSteps
  <2>4. CASE refund' = [refund EXCEPT ![c] = "late"]
    BY <2>1, <2>2, <2>4, RefundReturns DEF RefundKeys
  <2>5. QED
    BY <2>2, <2>3, <2>4
<1>6. CASE RecordLateRefund(h)
  <2>1. /\ c \in Checkouts /\ refund[c] # "none" /\ UNCHANGED <<intent, refund>>
        /\ TransitionOrder(c, "refunded") \/ UNCHANGED order
    BY <1>2, <1>6 DEF RecordLateRefund, Money_IInv, MoneyInv, HandlersInformed
  <2>2. CASE TransitionOrder(c, "refunded")
    BY <2>1, <2>2, MovesAdvance DEF SaleStands, MoneyCaptured
  <2>3. CASE UNCHANGED order
    BY <2>1, <2>3, QuietSteps
  <2>4. QED
    BY <2>1, <2>2, <2>3
<1>7. QED
  BY <1>1, <1>3, <1>4, <1>5, <1>6 DEF HookStep

(* The sweep expires at most one order: one is pending per listing. *)
LEMMA SweepPromised ==
  ASSUME Money_IInv, OnePending, NEW l \in Listings, Sweep(l)
  PROVE  [Promise!Next]_(Promise!vars)
<1>1. PICK seen \in SUBSET Pending(l) :
      /\ order' = [c \in Checkouts |-> IF c \in seen THEN "expired" ELSE order[c]]
      /\ UNCHANGED <<intent, refund>>
  BY DEF Sweep, SweepUnchanged, stripeVars
<1>2. CASE seen = {}
  BY <1>1, <1>2, QuietSteps DEF Money_IInv, TypeOK
<1>3. ASSUME NEW c \in seen PROVE [Promise!Next]_(Promise!vars)
  <2>1. c \in Checkouts /\ order[c] = "pending" /\ seen = {c}
    BY <1>3 DEF Pending, OnePending
  <2>2. order' = [order EXCEPT ![c] = "expired"]
    BY <1>1, <2>1 DEF Money_IInv, TypeOK
  <2>3. TransitionOrder(c, "expired")
    BY <2>1, <2>2 DEF TransitionOrder, Moves, ValidTransitions
  <2>4. QED
    BY <1>1, <2>1, <2>3, MovesAdvance DEF SaleStands, MoneyCaptured
<1>4. QED
  BY <1>2, <1>3

(* The parties only advance their own order. *)
LEMMA PartiesPromised ==
  ASSUME Money_IInv, NEW c \in Checkouts,
         MarkFulfilled(c) \/ ConfirmReceipt(c) \/ RaiseDispute(c)
  PROVE  [Promise!Next]_(Promise!vars)
<1>1. PICK to \in {"fulfilled", "completed", "disputed"} : PartyMoves(c, to)
  BY DEF MarkFulfilled, ConfirmReceipt, RaiseDispute
<1>2. TransitionOrder(c, to) /\ UNCHANGED <<intent, refund>>
  BY <1>1 DEF PartyMoves, OrderUnchanged, stripeVars
<1>3. intent[c] = "succeeded"
  BY PartiesKeepMoney DEF Money_IInv, MoneyInv, MoneyBehindStatus
<1>4. QED
  BY <1>2, <1>3, MovesAdvance

(* A resolution returns the money or advances the order, in that order. *)
LEMMA ResolutionPromised ==
  ASSUME Money_IInv, NEW a \in Admins, AdminStep(a)
  PROVE  [Promise!Next]_(Promise!vars)
<1> USE DEF OrderUnchanged, stripeVars, AdminAnswers
<1> DEFINE c == adminOrder[a]
<1>1. /\ c \in Checkouts /\ intent[c] = "succeeded"
      /\ order[c] \in SaleStands \cup {"refunded"}
  BY DEF AdminStep, RefundDispute, RefundDisputeFails, RecordResolution,
         Money_IInv, TypeOK, MoneyInv, AdminsInformed, MoneyBehindStatus
<1>2. order[c] \notin {"none", "pending"}
  BY <1>1 DEF SaleStands, MoneyCaptured
<1>3. CASE RefundDispute(a) \/ RefundDisputeFails(a)
  <2>1. /\ UNCHANGED <<order, intent>>
        /\ refund' = refund \/ refund' = [refund EXCEPT ![c] = "dispute"]
    BY <1>3 DEF RefundDispute, RefundDisputeFails
  <2>2. CASE refund' = refund
    BY <2>1, <2>2, QuietSteps
  <2>3. CASE refund' = [refund EXCEPT ![c] = "dispute"]
    BY <1>1, <1>2, <2>1, <2>3, RefundReturns DEF RefundKeys
  <2>4. QED
    BY <2>1, <2>2, <2>3
<1>4. CASE RecordResolution(a)
  <2>1. UNCHANGED <<intent, refund>>
    BY <1>4 DEF RecordResolution
  <2>2. CASE UNCHANGED order
    BY <2>1, <2>2, QuietSteps
  <2>3. CASE adminStep[a] = "recording" /\ TransitionOrder(c, "refunded")
    <3>1. refund[c] # "none"
      BY <2>3 DEF Money_IInv, MoneyInv, AdminsInformed
    <3>2. QED
      BY <1>1, <2>1, <2>3, <3>1, MovesAdvance
  <2>4. CASE TransitionOrder(c, "completed")
    BY <1>1, <2>1, <2>4, MovesAdvance
  <2>5. QED
    BY <1>4, <2>2, <2>3, <2>4 DEF RecordResolution
<1>5. QED
  BY <1>3, <1>4 DEF AdminStep

(* Each step is a step of the promise or leaves order and money alone. *)
LEMMA StepPromised ==
  Money_IInv /\ OnePending /\ [Next]_vars => [Promise!Next]_(Promise!vars)
<1> SUFFICES ASSUME Money_IInv, OnePending, [Next]_vars
             PROVE  [Promise!Next]_(Promise!vars)
  OBVIOUS
<1>1. CASE UNCHANGED vars
  BY <1>1, QuietSteps DEF vars
<1>2. ASSUME \/ \E e \in unacked : ReceiveNothingToDo(e)
             \/ \E a \in Admins, c \in Checkouts, outcome \in {"refunding", "upholding"} :
                  ReadDispute(a, c, outcome)
             \/ \E l \in Listings :
                  \/ ReservationExpires(l)
                  \/ \E t \in ManualTargets : SellerReads(l, t)
                  \/ SellerChecks(l) \/ SellerWrites(l)
      PROVE  [Promise!Next]_(Promise!vars)
  <2>1. UNCHANGED <<order, intent, refund>>
    BY <1>2 DEF ReceiveNothingToDo, HookUnchanged, ReadDispute, OrderUnchanged,
         ReservationExpires, SweepUnchanged, SellerReads, SellerChecks,
         SellerWrites, SellerUnchanged, stripeVars
  <2>2. QED
    BY <2>1, QuietSteps
<1>3. CASE Next
  BY <1>2, <1>3, CheckoutPromised, StripePromised, HooksPromised,
     SweepPromised, PartiesPromised, ResolutionPromised DEF Next
<1>4. QED
  BY <1>1, <1>3

(* The whole of checkout, payment and dispute handling implements the      *)
(* promise made about one order and its money.                             *)
THEOREM KeepsPromise == Spec => PromiseKept
<1>1. Init => Promise!Init
  BY DEF Init, Promise!Init, Money
<1>2. QED
  BY <1>1, MoneyInit, MoneyStep, PendingInit, PendingStep, StepPromised, PTL
     DEF Spec, PromiseKept, Promise!Spec
-----------------------------------------------------------------------------
(***************************************************************************)
(* One item has one buyer, for any number of listings, attempts, webhook   *)
(* requests and sellers' buttons: SoleHolder and HolderKeepsListing, which *)
(* hold each other up, and the inductive invariant of Orders as a whole.   *)
(***************************************************************************)

(* The part of the state the holding invariant reads. *)
holdingVars == <<listing, overdue, step, order, raced>>

(* A step that makes nobody a holder, and leaves the listings alone. *)
LEMMA NobodyNewHolds ==
  ASSUME TypeOK, HoldingInv, UNCHANGED <<listing, overdue, raced>>,
         \A c \in Checkouts :
           /\ step'[c] \in Window => step[c] \in Window
           /\ Holds(c)' =>
                Holds(c) /\ (order'[c] \in SaleStands <=> order[c] \in SaleStands)
  PROVE  HoldingInv'
<1>1. OverdueAfterCheckout'
  BY DEF HoldingInv, OverdueAfterCheckout, InCheckout
<1>2. SoleHolder'
  BY DEF HoldingInv, SoleHolder
<1>3. HolderKeepsListing'
  BY DEF HoldingInv, HolderKeepsListing
<1>4. QED
  BY <1>1, <1>2, <1>3 DEF HoldingInv

(* A step that gives one listing another status when nobody holds it any   *)
(* more (or it has just been taken from its holder).                       *)
LEMMA ListingWithoutHolder ==
  ASSUME TypeOK, HoldingInv, NEW l \in Listings, NEW to,
         SetListing(l, to),
         raced \subseteq raced', raced' \subseteq raced \cup {l},
         l \in raced' \/ \A c \in Checkouts : ListingOf[c] = l => ~Holds(c)',
         \A c \in Checkouts :
           /\ step'[c] \in Window => step[c] \in Window
           /\ ListingOf[c] # l => step'[c] = step[c] /\ order'[c] = order[c]
  PROVE  HoldingInv'
<1> USE ConstantsAssumption
<1>1. OverdueAfterCheckout'
  BY DEF HoldingInv, OverdueAfterCheckout, InCheckout, SetListing, TypeOK
<1>2. \A c \in Checkouts : Holds(c)' /\ ListingOf[c] \notin raced' =>
        Holds(c) /\ ListingOf[c] # l /\ ListingOf[c] \notin raced
  BY DEF Holds
<1>3. SoleHolder'
  BY <1>2 DEF HoldingInv, SoleHolder
<1>4. HolderKeepsListing'
  BY <1>2 DEF HoldingInv, HolderKeepsListing, SetListing, TypeOK
<1>5. QED
  BY <1>1, <1>3, <1>4 DEF HoldingInv

(* Claiming: the listing was active, so nobody held it. *)
LEMMA ClaimHolds ==
  ASSUME Money_IInv, HoldingInv, NEW c \in Checkouts, Claim(c)
  PROVE  HoldingInv'
<1> USE ConstantsAssumption DEF Money_IInv, TypeOK, auxVars
<1> DEFINE l == ListingOf[c]
<1>1. step[c] = "read" /\ order[c] = "none" /\ UNCHANGED <<order, raced>>
  BY DEF Claim, MoneyInv, RowsMatchCheckouts
<1>2. CASE listing[l] = "active"
  <2>1. SetListing(l, "reserved") /\ step' = [step EXCEPT ![c] = "claimed"]
    BY <1>2 DEF Claim, Goto
  <2>2. \A d \in Checkouts : d # c =>
          step'[d] = step[d] /\ (Holds(d)' <=> Holds(d))
    BY <1>1, <2>1 DEF Holds
  <2>3. l \notin raced => \A d \in Checkouts : ListingOf[d] = l => ~Holds(d)
    BY <1>2 DEF HoldingInv, HolderKeepsListing
  <2>4. OverdueAfterCheckout'
    BY <2>1, <2>2 DEF HoldingInv, OverdueAfterCheckout, InCheckout, SetListing
  <2>5. SoleHolder'
    BY <1>1, <2>2, <2>3 DEF HoldingInv, SoleHolder
  <2>6. HolderKeepsListing'
    BY <1>1, <2>1, <2>2, <2>3
       DEF HoldingInv, HolderKeepsListing, SetListing, SaleStands, MoneyCaptured
  <2>7. QED
    BY <2>4, <2>5, <2>6 DEF HoldingInv
<1>3. CASE listing[l] # "active"
  <2>1. UNCHANGED <<listing, overdue>> /\ step' = [step EXCEPT ![c] = "failed"]
    BY <1>3 DEF Claim, Goto, listingVars
  <2>2. \A d \in Checkouts :
          /\ step'[d] \in Window => step[d] \in Window
          /\ Holds(d)' => Holds(d)
    BY <1>1, <2>1 DEF Holds, Window
  <2>3. QED
    BY <1>1, <2>1, <2>2, NobodyNewHolds
<1>4. QED
  BY <1>2, <1>3

(* The rest of checkout(): a reservation stays its attempt's until it is   *)
(* an order, and only its last holder gives it back.                       *)
LEMMA CheckoutKeepsHolding ==
  ASSUME Money_IInv, HoldingInv, NEW c \in Checkouts,
         ReadListing(c) \/ CheckoutStep(c) \/ CrashCheckout(c)
  PROVE  HoldingInv'
<1> USE ConstantsAssumption DEF Money_IInv, TypeOK, auxVars, listingVars, Goto
<1> DEFINE l == ListingOf[c]
<1>1. CASE Claim(c)
  BY <1>1, ClaimHolds
<1>2. CASE \/ ReadListing(c) \/ CreateIntent(c) \/ CreateIntentFails(c)
           \/ InsertFails(c) \/ CancelOrphan(c) \/ CrashCheckout(c)
  <2>1. /\ UNCHANGED <<listing, overdue, raced, order>>
        /\ \E s \in CheckoutSteps :
             /\ step' = [step EXCEPT ![c] = s]
             /\ s \in Window => step[c] \in Window
    BY <1>2 DEF ReadListing, CreateIntent, CreateIntentFails, InsertFails,
                CancelOrphan, CrashCheckout, CheckoutSteps, Window
  <2>2. \A d \in Checkouts :
          /\ step'[d] \in Window => step[d] \in Window
          /\ Holds(d)' => Holds(d)
    BY <2>1 DEF Holds
  <2>3. QED
    BY <2>1, <2>2, NobodyNewHolds
<1>3. CASE InsertOrder(c)
  <2>1. /\ UNCHANGED <<listing, overdue, raced>>
        /\ step[c] = "created" /\ order[c] = "none"
        /\ step' = [step EXCEPT ![c] = "done"]
        /\ order' = [order EXCEPT ![c] = "pending"]
    BY <1>3 DEF InsertOrder, MoneyInv, RowsMatchCheckouts
  <2>2. \A d \in Checkouts :
          /\ step'[d] \in Window => step[d] \in Window
          /\ Holds(d)' =>
               Holds(d) /\ (order'[d] \in SaleStands <=> order[d] \in SaleStands)
    BY <2>1 DEF Holds, Window, SaleStands, MoneyCaptured
  <2>3. QED
    BY <2>1, <2>2, NobodyNewHolds
<1>4. CASE ReleaseReservation(c)
  <2>1. /\ UNCHANGED <<order, raced>>
        /\ step[c] = "releasing" /\ order[c] = "none"
        /\ step' = [step EXCEPT ![c] = "failed"]
        /\ IfReserved(l, "active")
    BY <1>4 DEF ReleaseReservation, MoneyInv, RowsMatchCheckouts
  <2>2. \A d \in Checkouts :
          /\ step'[d] \in Window => step[d] \in Window
          /\ d # c => step'[d] = step[d]
          /\ Holds(d)' => Holds(d) /\ d # c
    BY <2>1 DEF Holds, Window, SaleStands, MoneyCaptured
  <2>3. l \in raced \/ \A d \in Checkouts : ListingOf[d] = l => ~Holds(d)'
    BY <2>1, <2>2 DEF HoldingInv, SoleHolder, Holds, Window
  <2>4. CASE SetListing(l, "active")
    BY <2>1, <2>2, <2>3, <2>4, ListingWithoutHolder
  <2>5. CASE UNCHANGED <<listing, overdue>>
    BY <2>1, <2>2, <2>5, NobodyNewHolds
  <2>6. QED
    BY <2>1, <2>4, <2>5 DEF IfReserved
<1>5. QED
  BY <1>1, <1>2, <1>3, <1>4 DEF CheckoutStep

-----------------------------------------------------------------------------
(* Settling turns the reservation of the order's own buyer into a sale;    *)
(* cancelling gives it back.                                               *)
LEMMA SettlementKeepsHolding ==
  ASSUME Money_IInv, HoldingInv, NEW h \in Handlers, Settle(h) \/ CancelUnpaid(h)
  PROVE  HoldingInv'
<1> USE ConstantsAssumption DEF Money_IInv, TypeOK, HookUnchanged, listingVars
<1> DEFINE c == hookEvent[h].of
           l == ListingOf[c]
<1>1. /\ c \in Checkouts /\ order[c] = "pending"
      /\ UNCHANGED <<step, raced>>
  BY DEF Settle, CancelUnpaid, MoneyInv, HandlersInformed, Events
<1>2. /\ Holds(c)
      /\ \A d \in Checkouts : d # c /\ ListingOf[d] = l /\ l \notin raced => ~Holds(d)
  BY <1>1 DEF HoldingInv, SoleHolder, Holds
<1>3. step[c] = "done"
  BY <1>1 DEF MoneyInv, RowsMatchCheckouts
<1>4. CASE Settle(h)
  <2>1. /\ order' = [order EXCEPT ![c] = "paid"]
        /\ IfReserved(l, "sold")
    BY <1>1, <1>4 DEF Settle, TransitionOrder, Moves, ValidTransitions
  <2>2. \A d \in Checkouts : Holds(d)' <=> Holds(d)
    BY <1>1, <2>1 DEF Holds, SaleStands, MoneyCaptured
  <2>3. l \notin raced => SetListing(l, "sold")
    BY <1>1, <1>2, <2>1
       DEF HoldingInv, HolderKeepsListing, IfReserved, SaleStands, MoneyCaptured
  <2>4. OverdueAfterCheckout'
    BY <1>1, <2>1 DEF HoldingInv, OverdueAfterCheckout, InCheckout, IfReserved,
                      SetListing
  <2>5. SoleHolder'
    BY <1>1, <2>2 DEF HoldingInv, SoleHolder
  <2>6. HolderKeepsListing'
    <3> SUFFICES ASSUME NEW d \in Checkouts, Holds(d), ListingOf[d] \notin raced
                 PROVE  listing'[ListingOf[d]] =
                          IF order'[d] \in SaleStands THEN "sold" ELSE "reserved"
      BY <1>1, <2>2 DEF HolderKeepsListing
    <3>1. CASE d = c
      BY <2>1, <2>3, <3>1 DEF SetListing, SaleStands, MoneyCaptured
    <3>2. CASE d # c
      <4>1. ListingOf[d] # l /\ order'[d] = order[d]
        BY <1>2, <2>1, <3>2
      <4>2. listing'[ListingOf[d]] = listing[ListingOf[d]]
        BY <2>1, <4>1 DEF IfReserved, SetListing
      <4>3. QED
        BY <4>1, <4>2 DEF HoldingInv, HolderKeepsListing
    <3>3. QED
      BY <3>1, <3>2
  <2>7. QED
    BY <2>4, <2>5, <2>6 DEF HoldingInv
<1>5. CASE CancelUnpaid(h)
  <2>1. /\ order' = [order EXCEPT ![c] = "cancelled"]
        /\ IfReserved(l, "active")
    BY <1>1, <1>5 DEF CancelUnpaid, TransitionOrder, Moves, ValidTransitions
  <2>2. \A d \in Checkouts :
          /\ d # c => order'[d] = order[d]
          /\ Holds(d)' => Holds(d) /\ d # c
    BY <1>1, <1>3, <2>1 DEF Holds, Window, SaleStands, MoneyCaptured
  <2>3. l \in raced \/ \A d \in Checkouts : ListingOf[d] = l => ~Holds(d)'
    BY <1>2, <2>2
  <2>4. CASE SetListing(l, "active")
    BY <1>1, <2>2, <2>3, <2>4, ListingWithoutHolder
  <2>5. CASE UNCHANGED <<listing, overdue>>
    BY <1>1, <2>2, <2>5, NobodyNewHolds
  <2>6. QED
    BY <2>1, <2>4, <2>5 DEF IfReserved
<1>6. QED
  BY <1>4, <1>5

(* The sweep frees a reservation older than any checkout, after expiring   *)
(* its pending order, or on the way past one it could not see (raced).     *)
LEMMA SweepKeepsHolding ==
  ASSUME Money_IInv, HoldingInv, NEW l \in Listings, Sweep(l)
  PROVE  HoldingInv'
<1> USE ConstantsAssumption DEF Money_IInv, TypeOK, SweepUnchanged
<1>1. PICK seen \in SUBSET Pending(l) :
      /\ SetListing(l, "active") /\ UNCHANGED step
      /\ listing[l] = "reserved" /\ l \in overdue
      /\ order' = [c \in Checkouts |-> IF c \in seen THEN "expired" ELSE order[c]]
      /\ raced' = IF Pending(l) = seen THEN raced ELSE raced \cup {l}
  BY DEF Sweep
<1>2. \A c \in Checkouts : ListingOf[c] = l => step[c] \notin Window
  BY <1>1 DEF HoldingInv, OverdueAfterCheckout, InCheckout
<1>3. ASSUME l \notin raced', NEW c \in Checkouts, ListingOf[c] = l
      PROVE  ~Holds(c)'
  <2>1. l \notin raced /\ Pending(l) = seen
    BY <1>1, <1>3
  <2>2. CASE order[c] = "pending"
    BY <1>1, <1>2, <1>3, <2>1, <2>2 DEF Holds, Pending, SaleStands, MoneyCaptured
  <2>3. CASE order[c] # "pending"
    <3>1. order'[c] = order[c] /\ step'[c] = step[c]
      BY <1>1, <2>3 DEF Pending
    <3>2. order[c] \notin SaleStands
      BY <1>1, <1>3, <2>1 DEF HoldingInv, HolderKeepsListing, Holds
    <3>3. QED
      BY <1>2, <1>3, <2>3, <3>1, <3>2 DEF Holds
  <2>4. QED
    BY <2>2, <2>3
<1>4. \A c \in Checkouts : ListingOf[c] # l => order'[c] = order[c]
  BY <1>1 DEF Pending
<1>5. QED
  BY <1>1, <1>3, <1>4, ListingWithoutHolder

(* Late refunds and resolutions end sales, parties keep them standing.     *)
LEMMA OrdersKeepHolding ==
  ASSUME Money_IInv, HoldingInv,
         \/ \E h \in Handlers : RecordLateRefund(h)
         \/ \E a \in Admins : RecordResolution(a)
         \/ \E c \in Checkouts :
              MarkFulfilled(c) \/ ConfirmReceipt(c) \/ RaiseDispute(c)
  PROVE  HoldingInv'
<1> USE DEF Money_IInv, TypeOK, listingVars, auxVars, OrderUnchanged,
            HookUnchanged
<1>1. UNCHANGED <<listing, overdue, raced, step>>
  BY DEF RecordLateRefund, RecordResolution, MarkFulfilled, ConfirmReceipt,
         RaiseDispute, PartyMoves
<1>2. PICK c \in Checkouts, to \in SaleStands \cup {"refunded"} :
        /\ order[c] # "none"
        /\ order[c] \in SaleStands \/ to = "refunded"
        /\ order' \in {order, [order EXCEPT ![c] = to]}
  <2>1. ASSUME NEW h \in Handlers, RecordLateRefund(h)
        PROVE  \E c \in Checkouts :
                 /\ order[c] # "none"
                 /\ order' \in {order, [order EXCEPT ![c] = "refunded"]}
    BY <2>1 DEF RecordLateRefund, TransitionOrder, MoneyInv, HandlersInformed,
                Events, GivenUp
  <2>2. ASSUME NEW a \in Admins, RecordResolution(a)
        PROVE  \E c \in Checkouts, to \in {"refunded", "completed"} :
                 /\ order[c] # "none"
                 /\ order[c] \in SaleStands \/ to = "refunded"
                 /\ order' \in {order, [order EXCEPT ![c] = to]}
    <3>1. order[adminOrder[a]] \in SaleStands \cup {"refunded"}
      BY <2>2 DEF RecordResolution, MoneyInv, AdminsInformed
    <3>2. order[adminOrder[a]] # "none"
      BY <3>1 DEF SaleStands, MoneyCaptured
    <3>3. PICK to \in {"refunded", "completed"} :
            \/ order' = order
            \/ /\ Moves(adminOrder[a], to)
               /\ order' = [order EXCEPT ![adminOrder[a]] = to]
      BY <2>2 DEF RecordResolution, TransitionOrder
    <3>4. Moves(adminOrder[a], to) => order[adminOrder[a]] \in SaleStands
      BY <3>1 DEF Moves, ValidTransitions
    <3>5. CASE order' = order
      BY <3>2, <3>5
    <3>6. CASE order' # order
      BY <3>2, <3>3, <3>4, <3>6
    <3>7. QED
      BY <3>5, <3>6
  <2>3. ASSUME NEW c \in Checkouts,
               MarkFulfilled(c) \/ ConfirmReceipt(c) \/ RaiseDispute(c)
        PROVE  \E to \in SaleStands :
                 /\ order[c] # "none" /\ order[c] \in SaleStands
                 /\ order' = [order EXCEPT ![c] = to]
    <3>1. "none" \notin SaleStands
      BY DEF SaleStands, MoneyCaptured
    <3>2. QED
      BY <2>3, <3>1, PartiesKeepMoney
  <2>4. "completed" \in SaleStands
    BY DEF SaleStands, MoneyCaptured
  <2>5. QED
    BY <2>1, <2>2, <2>3, <2>4
<1>3. step[c] \notin Window
  BY <1>2 DEF MoneyInv, RowsMatchCheckouts, Window
<1>4. \A d \in Checkouts :
        Holds(d)' => Holds(d) /\ (order'[d] \in SaleStands <=> order[d] \in SaleStands)
  BY <1>1, <1>2, <1>3 DEF Holds, SaleStands, MoneyCaptured
<1>5. QED
  BY <1>1, <1>4, NobodyNewHolds

(* A seller's write takes a listing from its holder openly (raced), or     *)
(* finds none.                                                             *)
LEMMA SellersKeepHolding ==
  ASSUME TypeOK, HoldingInv, NEW l \in Listings, SellerWrites(l)
  PROVE  HoldingInv'
<1>1. /\ SetListing(l, sellerTarget[l])
      /\ UNCHANGED <<step, order>>
      /\ raced' = IF Held(l) THEN raced \cup {l} ELSE raced
  BY DEF SellerWrites, SellerUnchanged
<1>2. l \in raced' \/ \A c \in Checkouts : ListingOf[c] = l => ~Holds(c)'
  BY <1>1 DEF Held, Holds
<1>3. QED
  BY <1>1, <1>2, ListingWithoutHolder

(* Initially nobody holds a listing and none is overdue. *)
LEMMA HoldingInit == Init => HoldingInv
  BY DEF Init, HoldingInv, OverdueAfterCheckout, SoleHolder, HolderKeepsListing,
         Holds, Window, SaleStands, MoneyCaptured

(* No step of any request lets two attempts hold a listing, or lets
   the listing disagree with its holder. *)
LEMMA HoldingStep == Money_IInv /\ HoldingInv /\ [Next]_vars => HoldingInv'
<1> SUFFICES ASSUME Money_IInv, HoldingInv, [Next]_vars PROVE HoldingInv'
  OBVIOUS
<1>1. ASSUME UNCHANGED holdingVars PROVE HoldingInv'
  BY <1>1 DEF holdingVars, HoldingInv, OverdueAfterCheckout, InCheckout,
       SoleHolder, HolderKeepsListing, Holds
<1>2. ASSUME NEW c \in Checkouts, Pay(c) \/ PaymentDeclined(c) \/ IntentCanceled(c)
      PROVE  UNCHANGED holdingVars
  BY <1>2 DEF Pay, PaymentDeclined, IntentCanceled, StripeUnchanged, holdingVars,
       listingVars, auxVars
<1>3. ASSUME NEW h \in Handlers,
             \/ \E e \in sent : Receive(h, e)
             \/ CrashHook(h) \/ RefundLate(h) \/ RefundLateFails(h)
      PROVE  UNCHANGED holdingVars
  BY <1>3 DEF Receive, CrashHook, RefundLate, RefundLateFails, HookUnchanged,
       holdingVars, listingVars
<1>4. ASSUME NEW e \in unacked, ReceiveNothingToDo(e) PROVE UNCHANGED holdingVars
  BY <1>4 DEF ReceiveNothingToDo, HookUnchanged, holdingVars, listingVars
<1>5. ASSUME NEW a \in Admins,
             \/ \E c \in Checkouts, outcome \in {"refunding", "upholding"} :
                  ReadDispute(a, c, outcome)
             \/ RefundDispute(a) \/ RefundDisputeFails(a)
      PROVE  UNCHANGED holdingVars
  BY <1>5 DEF ReadDispute, RefundDispute, RefundDisputeFails, OrderUnchanged,
       holdingVars, listingVars, auxVars
<1>6. ASSUME NEW l \in Listings,
             (\E t \in ManualTargets : SellerReads(l, t)) \/ SellerChecks(l)
      PROVE  UNCHANGED holdingVars
  BY <1>6 DEF SellerReads, SellerChecks, SellerUnchanged, holdingVars, listingVars
<1>7. ASSUME NEW l \in Listings, ReservationExpires(l) PROVE HoldingInv'
  <2>1. /\ UNCHANGED <<listing, step, order, raced>>
        /\ overdue' = overdue \cup {l} /\ listing[l] = "reserved" /\ ~InCheckout(l)
    BY <1>7 DEF ReservationExpires, SweepUnchanged
  <2>2. QED
    BY <2>1 DEF HoldingInv, OverdueAfterCheckout, InCheckout, SoleHolder,
         HolderKeepsListing, Holds
<1>8. CASE UNCHANGED vars
  BY <1>1, <1>8 DEF vars, holdingVars
<1>9. CASE Next
  <2>1. TypeOK
    BY DEF Money_IInv
  <2>2. QED
    BY <1>1, <1>2, <1>3, <1>4, <1>5, <1>6, <1>7, <1>9, <2>1,
       CheckoutKeepsHolding, SettlementKeepsHolding, SweepKeepsHolding,
       OrdersKeepHolding, SellersKeepHolding
       DEF Next, HookStep, AdminStep
<1>10. QED
  BY <1>8, <1>9

-----------------------------------------------------------------------------
(* IInv is inductive, so every state of every behaviour satisfies it.      *)
THEOREM Invariant == Spec => []IInv
<1>1. Init => IInv
  BY MoneyInit, PendingInit, HoldingInit DEF IInv, Money_IInv
<1>2. IInv /\ [Next]_vars => IInv'
  BY MoneyStep, PendingStep, HoldingStep DEF IInv, Money_IInv
<1>3. QED
  BY <1>1, <1>2, PTL DEF Spec

(* One item has one buyer, unless a sweep skipped a locked order or a      *)
(* seller's unchecked write took the listing from its buyer.               *)
THEOREM OneBuyer == Spec => []SoleHolder
<1>1. IInv => SoleHolder
  BY DEF IInv, HoldingInv
<1>2. QED
  BY <1>1, Invariant, PTL

(* With the same exceptions, a listing is reserved while its buyer may     *)
(* still pay and sold once they did.                                       *)
THEOREM ListingFollowsHolder == Spec => []HolderKeepsListing
<1>1. IInv => HolderKeepsListing
  BY DEF IInv, HoldingInv
<1>2. QED
  BY <1>1, Invariant, PTL

(* Nothing but its seller's own write puts a sold item up for sale again.  *)
THEOREM SoldStays == Spec => SoldLeavesBySeller
<1> DEFINE Leaves == \A l \in Listings :
             listing[l] = "sold" /\ listing'[l] # "sold" => sellerStep[l] = "writing"
<1>1. TypeOK /\ [Next]_vars => Leaves
  <2> SUFFICES ASSUME TypeOK, [Next]_vars, NEW l \in Listings,
                      listing[l] = "sold", sellerStep[l] # "writing"
               PROVE  listing'[l] = listing[l]
    OBVIOUS
  <2> USE ConstantsAssumption DEF TypeOK, listingVars
  <2>1. ASSUME NEW m \in Listings, NEW to, IfReserved(m, to)
        PROVE  listing'[l] = listing[l]
    BY <2>1 DEF IfReserved, SetListing
  <2>2. ASSUME NEW c \in Checkouts,
               \/ ReadListing(c) \/ CheckoutStep(c) \/ CrashCheckout(c)
               \/ Pay(c) \/ PaymentDeclined(c) \/ IntentCanceled(c)
               \/ MarkFulfilled(c) \/ ConfirmReceipt(c) \/ RaiseDispute(c)
        PROVE  listing'[l] = listing[l]
    <3>1. CASE Claim(c)
      BY <3>1 DEF Claim, SetListing
    <3>2. CASE ReleaseReservation(c)
      BY <2>1, <3>2 DEF ReleaseReservation
    <3>3. CASE ~Claim(c) /\ ~ReleaseReservation(c)
      BY <2>2, <3>3 DEF ReadListing, CheckoutStep, CreateIntent,
           CreateIntentFails, InsertOrder, InsertFails, CancelOrphan,
           CrashCheckout, Pay, PaymentDeclined, IntentCanceled,
           StripeUnchanged, MarkFulfilled, ConfirmReceipt, RaiseDispute,
           PartyMoves, OrderUnchanged
    <3>4. QED
      BY <3>1, <3>2, <3>3
  <2>3. ASSUME NEW h \in Handlers,
               (\E e \in sent : Receive(h, e)) \/ HookStep(h) \/ CrashHook(h)
        PROVE  listing'[l] = listing[l]
    <3>1. CASE Settle(h) \/ CancelUnpaid(h)
      <4>1. hookEvent[h].of \in Checkouts
        BY <3>1 DEF Settle, CancelUnpaid, Events
      <4>2. QED
        BY <2>1, <3>1, <4>1 DEF Settle, CancelUnpaid
    <3>2. CASE ~Settle(h) /\ ~CancelUnpaid(h)
      BY <2>3, <3>2 DEF Receive, HookStep, CrashHook, RefundLate,
           RefundLateFails, RecordLateRefund
    <3>3. QED
      BY <3>1, <3>2
  <2>4. ASSUME NEW m \in Listings,
               \/ ReservationExpires(m) \/ Sweep(m)
               \/ \E t \in ManualTargets : SellerReads(m, t)
               \/ SellerChecks(m) \/ SellerWrites(m)
        PROVE  listing'[l] = listing[l]
    BY <2>4 DEF ReservationExpires, Sweep, SetListing, SellerReads,
         SellerChecks, SellerWrites
  <2>5. ASSUME \/ \E e \in unacked : ReceiveNothingToDo(e)
               \/ \E a \in Admins :
                    \/ \E c \in Checkouts, outcome \in {"refunding", "upholding"} :
                         ReadDispute(a, c, outcome)
                    \/ AdminStep(a)
        PROVE  listing'[l] = listing[l]
    BY <2>5 DEF ReceiveNothingToDo, ReadDispute, AdminStep, RefundDispute,
         RefundDisputeFails, RecordResolution, OrderUnchanged
  <2> HIDE DEF TypeOK
  <2>6. CASE Next
    BY <2>2, <2>3, <2>4, <2>5, <2>6 DEF Next
  <2>7. CASE UNCHANGED vars
    BY <2>7 DEF vars
  <2>8. QED
    BY <2>6, <2>7
<1>2. QED
  BY <1>1, TypeCorrect, PTL DEF Spec, SoldLeavesBySeller
=============================================================================
