----------------------------- MODULE Orders_proofs ----------------------------
(***************************************************************************)
(* Theorems about Orders, for any number of listings, attempts, webhook    *)
(* requests and admins: types, and no captured payment is forgotten.       *)
(***************************************************************************)
EXTENDS Orders, TLAPS

(* What a legal move tells of the two statuses it joins. *)
LEMMA MovesFrom ==
  ASSUME NEW from \in Statuses \cup {"none"}, NEW to,
         to \in ValidTransitions[from]
  PROVE  /\ to \in Statuses \ {"pending"}
         /\ from \notin {"none", "refunded"}
         /\ from = "pending" => to \in {"paid"} \cup GivenUp
         /\ from # "pending" => to \in (SaleStands \ {"paid"}) \cup {"refunded"}
         /\ from \in GivenUp => to = "refunded"
  BY DEF Statuses, ValidTransitions, GivenUp, SaleStands, MoneyCaptured

(* transitionOrder writes one row, and a status of the schema. *)
LEMMA TransitionType ==
  ASSUME TypeOK, NEW c \in Checkouts, NEW to, TransitionOrder(c, to)
  PROVE  order' \in [Checkouts -> Statuses \cup {"none"}]
  BY MovesFrom DEF TypeOK, TransitionOrder, Moves

-----------------------------------------------------------------------------
(* The initial tables have their types. *)
LEMMA TypeInit == Init => TypeOK
  BY ConstantsAssumption
     DEF Init, TypeOK, CheckoutSteps, HookSteps, AdminSteps, RefundKeys,
         ListingStatuses

(* Every action leaves every variable in its type. *)
LEMMA TypeStep == TypeOK /\ [Next]_vars => TypeOK'
<1> USE DEF CheckoutSteps, Window, HookSteps, AdminSteps, RefundKeys,
            ListingStatuses, listingVars, stripeVars, eventVars, hookVars,
            adminVars, sellerVars, auxVars
<1> SUFFICES ASSUME TypeOK, [Next]_vars PROVE TypeOK'
  OBVIOUS
<1> USE ConstantsAssumption DEF TypeOK
<1>1. ASSUME NEW c \in Checkouts, ReadListing(c) PROVE TypeOK'
  BY <1>1 DEF ReadListing, Goto
<1>2. ASSUME NEW c \in Checkouts, CheckoutStep(c) PROVE TypeOK'
  <2>1. CASE Claim(c)
    BY <2>1 DEF Claim, Goto, SetListing
  <2>2. CASE CreateIntent(c) \/ CreateIntentFails(c)
    BY <2>2 DEF CreateIntent, CreateIntentFails, Goto
  <2>3. CASE InsertOrder(c) \/ InsertFails(c)
    BY <2>3 DEF InsertOrder, InsertFails, Goto, Statuses
  <2>4. CASE CancelOrphan(c)
    BY <2>4 DEF CancelOrphan, Goto, Emit, Events, EventTypes
  <2>5. CASE ReleaseReservation(c)
    BY <2>5 DEF ReleaseReservation, Goto, IfReserved, SetListing
  <2>6. QED
    BY <1>2, <2>1, <2>2, <2>3, <2>4, <2>5 DEF CheckoutStep
<1>3. ASSUME NEW c \in Checkouts, CrashCheckout(c) PROVE TypeOK'
  BY <1>3 DEF CrashCheckout, Goto
<1>4. ASSUME NEW c \in Checkouts,
             Pay(c) \/ PaymentDeclined(c) \/ IntentCanceled(c)
      PROVE  TypeOK'
  BY <1>4 DEF Pay, PaymentDeclined, IntentCanceled, Emit, Events, EventTypes,
              StripeUnchanged
<1>5. ASSUME NEW c \in Checkouts,
             MarkFulfilled(c) \/ ConfirmReceipt(c) \/ RaiseDispute(c)
      PROVE  TypeOK'
  BY <1>5, TransitionType
     DEF MarkFulfilled, ConfirmReceipt, RaiseDispute, PartyMoves, OrderUnchanged
<1>6. ASSUME NEW h \in Handlers, NEW e \in sent, Receive(h, e) PROVE TypeOK'
  BY <1>6 DEF Receive, HookUnchanged
<1>7. ASSUME NEW h \in Handlers, HookStep(h) PROVE TypeOK'
  <2>1. hookStep[h] # "idle" => hookEvent[h].of \in Checkouts
    BY DEF Events
  <2>2. CASE Settle(h) \/ CancelUnpaid(h)
    BY <2>1, <2>2, TransitionType
       DEF Settle, CancelUnpaid, Acknowledge, HookUnchanged, IfReserved, SetListing
  <2>3. CASE RefundLate(h)
    BY <2>1, <2>3 DEF RefundLate, HookUnchanged
  <2>4. CASE RefundLateFails(h)
    BY <2>1, <2>4 DEF RefundLateFails, Acknowledge, HookUnchanged
  <2>5. CASE RecordLateRefund(h)
    BY <2>1, <2>5, TransitionType
       DEF RecordLateRefund, Acknowledge, HookUnchanged
  <2>6. QED
    BY <1>7, <2>2, <2>3, <2>4, <2>5 DEF HookStep
<1>8. ASSUME NEW h \in Handlers, CrashHook(h) PROVE TypeOK'
  BY <1>8 DEF CrashHook, HookUnchanged
<1>9. ASSUME NEW e \in unacked, ReceiveNothingToDo(e) PROVE TypeOK'
  BY <1>9 DEF ReceiveNothingToDo, HookUnchanged
<1>10. ASSUME NEW a \in Admins, NEW c \in Checkouts,
              NEW outcome \in {"refunding", "upholding"},
              ReadDispute(a, c, outcome)
       PROVE  TypeOK'
  BY <1>10 DEF ReadDispute, OrderUnchanged
<1>11. ASSUME NEW a \in Admins, AdminStep(a) PROVE TypeOK'
  BY <1>11, TransitionType
     DEF AdminStep, RefundDispute, RefundDisputeFails, RecordResolution,
         AdminAnswers, OrderUnchanged
<1>12. ASSUME NEW l \in Listings, ReservationExpires(l) \/ Sweep(l)
       PROVE  TypeOK'
  BY <1>12 DEF ReservationExpires, Sweep, SweepUnchanged, SetListing, Statuses
<1>13. ASSUME NEW l \in Listings,
              \/ \E t \in ManualTargets : SellerReads(l, t)
              \/ SellerChecks(l) \/ SellerWrites(l)
       PROVE  TypeOK'
  BY <1>13 DEF SellerReads, SellerChecks, SellerWrites, SellerUnchanged,
               SetListing
<1>14. CASE UNCHANGED vars
  BY <1>14 DEF vars
<1> HIDE DEF TypeOK
<1>15. CASE Next
  BY <1>1, <1>2, <1>3, <1>4, <1>5, <1>6, <1>7, <1>8, <1>9, <1>10, <1>11,
     <1>12, <1>13, <1>15 DEF Next
<1>16. QED
  BY <1>14, <1>15

(* Every variable keeps its type: in particular a status column only ever  *)
(* holds a status, and a request in progress always has an event to answer.*)
THEOREM TypeCorrect == Spec => []TypeOK
  BY TypeInit, TypeStep, PTL DEF Spec
-----------------------------------------------------------------------------
(***************************************************************************)
(* The order and its money agree, for any number of listings, attempts,    *)
(* webhook requests and admins: no captured payment is forgotten, and the  *)
(* orders implement OrderPromise.                                          *)
(***************************************************************************)

Money_IInv == TypeOK /\ MoneyInv /\ CapturedMoneyAccounted

(* The parts of the state the money invariant reads. *)
moneyVars == <<step, order, intent, refund, sent, unacked, hookStep,
               hookEvent, adminStep, adminOrder, dropped>>

(* Steps on listings alone do not concern it. *)
LEMMA MoneyStutters ==
  ASSUME MoneyInv, CapturedMoneyAccounted, UNCHANGED moneyVars
  PROVE  MoneyInv' /\ CapturedMoneyAccounted'
  BY DEF moneyVars, MoneyInv, CapturedMoneyAccounted, RowsMatchCheckouts,
         MoneyBehindStatus, EventsTruthful, HandlersInformed,
         RowLocksExclusive, AdminsInformed

(* The steps of checkout() before and after the insert: no order, and no   *)
(* payment, is touched.                                                    *)
LEMMA CheckoutKeepsMoney ==
  ASSUME Money_IInv, NEW c \in Checkouts,
         ReadListing(c) \/ CheckoutStep(c) \/ CrashCheckout(c)
  PROVE  MoneyInv' /\ CapturedMoneyAccounted'
<1> USE DEF Money_IInv, TypeOK, MoneyInv, Goto, Window, hookVars, adminVars,
            eventVars, stripeVars, auxVars
<1>1. CASE ReadListing(c) \/ Claim(c) \/ ReleaseReservation(c) \/ CrashCheckout(c) \/ InsertFails(c)
  <2>1. RowsMatchCheckouts'
    BY <1>1 DEF ReadListing, Claim, ReleaseReservation, CrashCheckout, InsertFails, RowsMatchCheckouts
  <2>2. UNCHANGED <<order, intent, refund, sent, unacked, hookStep,
                    hookEvent, adminStep, adminOrder, dropped>>
    BY <1>1 DEF ReadListing, Claim, ReleaseReservation, CrashCheckout, InsertFails
  <2>3. QED
    BY <2>1, <2>2 DEF CapturedMoneyAccounted,
         MoneyBehindStatus, EventsTruthful, HandlersInformed,
         RowLocksExclusive, AdminsInformed
<1>2. CASE CreateIntent(c) \/ CreateIntentFails(c)
  <2>1. /\ UNCHANGED <<order, refund, sent, unacked, hookStep,
                    hookEvent, adminStep, adminOrder, dropped>>
        /\ step[c] = "claimed" /\ intent[c] = "none"
        /\ step' \in {[step EXCEPT ![c] = "created"], [step EXCEPT ![c] = "releasing"]}
        /\ intent' \in {intent, [intent EXCEPT ![c] = "open"]}
    BY <1>2 DEF CreateIntent, CreateIntentFails, RowsMatchCheckouts
  <2>2. RowsMatchCheckouts'
    BY <2>1 DEF RowsMatchCheckouts
  <2>3. \A d \in Checkouts : intent'[d] = "succeeded" <=> intent[d] = "succeeded"
    BY <2>1
  <2>4. EventsTruthful'
    BY <2>1, <2>3 DEF EventsTruthful, Events
  <2>5. MoneyBehindStatus' /\ CapturedMoneyAccounted'
    BY <2>1, <2>3 DEF MoneyBehindStatus, CapturedMoneyAccounted
  <2>6. QED
    BY <2>1, <2>2, <2>4, <2>5 DEF HandlersInformed, RowLocksExclusive, AdminsInformed
<1>3. CASE InsertOrder(c)
  <2>1. /\ UNCHANGED <<intent, refund, sent, unacked, hookStep,
                    hookEvent, adminStep, adminOrder, dropped>>
        /\ order[c] = "none" /\ step[c] = "created" /\ intent[c] # "succeeded"
        /\ step' = [step EXCEPT ![c] = "done"]
        /\ order' = [order EXCEPT ![c] = "pending"]
    BY <1>3 DEF InsertOrder, RowsMatchCheckouts
  <2>2. RowsMatchCheckouts'
    BY <2>1 DEF RowsMatchCheckouts
  <2>3. MoneyBehindStatus' /\ CapturedMoneyAccounted'
    BY <2>1 DEF MoneyBehindStatus, CapturedMoneyAccounted, SaleStands, MoneyCaptured
  <2>4. HandlersInformed'
    BY <2>1 DEF HandlersInformed, GivenUp, Events
  <2>5. AdminsInformed'
    BY <2>1 DEF AdminsInformed, SaleStands, MoneyCaptured
  <2>6. QED
    BY <2>1, <2>2, <2>3, <2>4, <2>5 DEF RowLocksExclusive, EventsTruthful
<1>4. CASE CancelOrphan(c)
  <2>1. /\ UNCHANGED <<order, refund, hookStep,
                    hookEvent, adminStep, adminOrder, dropped>>
        /\ step[c] = "unsaved" /\ intent[c] # "succeeded"
        /\ step' = [step EXCEPT ![c] = "releasing"]
        /\ intent' \in {intent, [intent EXCEPT ![c] = "canceled"]}
    BY <1>4 DEF CancelOrphan, RowsMatchCheckouts
  <2>2. /\ sent \subseteq sent'
        /\ unacked \subseteq unacked'
        /\ \A e \in sent' : e.type = "succeeded" => e \in sent
    BY <1>4 DEF CancelOrphan, Emit
  <2>3. RowsMatchCheckouts'
    BY <2>1 DEF RowsMatchCheckouts
  <2>4. \A d \in Checkouts : intent'[d] = "succeeded" <=> intent[d] = "succeeded"
    BY <2>1
  <2>5. EventsTruthful'
    BY <2>2, <2>4 DEF EventsTruthful, Events
  <2>6. MoneyBehindStatus' /\ CapturedMoneyAccounted'
    BY <2>1, <2>2, <2>4 DEF MoneyBehindStatus, CapturedMoneyAccounted
  <2>7. HandlersInformed'
    BY <2>1, <2>2 DEF HandlersInformed
  <2>8. QED
    BY <2>1, <2>3, <2>5, <2>6, <2>7 DEF RowLocksExclusive, AdminsInformed
<1>5. QED
  BY <1>1, <1>2, <1>3, <1>4 DEF CheckoutStep

(* A payment brings its event with it. *)
LEMMA StripeKeepsMoney ==
  ASSUME Money_IInv, NEW c \in Checkouts,
         Pay(c) \/ PaymentDeclined(c) \/ IntentCanceled(c)
  PROVE  MoneyInv' /\ CapturedMoneyAccounted'
<1> USE DEF Money_IInv, TypeOK, MoneyInv, hookVars, adminVars, auxVars,
            StripeUnchanged
<1>1. /\ UNCHANGED <<step, order, refund, hookStep, hookEvent,
                    adminStep, adminOrder, dropped>>
      /\ step[c] = "done" /\ intent[c] = "open"
      /\ \E i \in {"open", "succeeded", "canceled"} : intent' = [intent EXCEPT ![c] = i]
      /\ sent \subseteq sent'
      /\ unacked \subseteq unacked'
      /\ \A e \in sent' : e.type = "succeeded" => 
           e \in sent \/ (e = Succeeded(c) /\ intent'[c] = "succeeded")
      /\ intent'[c] = "succeeded" => Succeeded(c) \in unacked'
  BY DEF Pay, PaymentDeclined, IntentCanceled, Emit, Succeeded
<1>2. RowsMatchCheckouts'
  BY <1>1 DEF RowsMatchCheckouts
<1>3. MoneyBehindStatus'
  BY <1>1 DEF MoneyBehindStatus
<1>4. CapturedMoneyAccounted'
  BY <1>1 DEF CapturedMoneyAccounted
<1>5. EventsTruthful'
  BY <1>1 DEF EventsTruthful, Events, Succeeded
<1>6. HandlersInformed'
  BY <1>1 DEF HandlersInformed
<1>7. QED
  BY <1>1, <1>2, <1>3, <1>4, <1>5, <1>6 DEF RowLocksExclusive, AdminsInformed

-----------------------------------------------------------------------------
(* A locked order stays pending until the webhook that locked it ends, so  *)
(* taking the lock, losing it in a crash and dropping a spent event are    *)
(* harmless.                                                               *)
LEMMA ReceiptKeepsMoney ==
  ASSUME Money_IInv,
         \/ \E h \in Handlers, e \in sent : Receive(h, e)
         \/ \E e \in unacked : ReceiveNothingToDo(e)
         \/ \E h \in Handlers : CrashHook(h)
  PROVE  MoneyInv' /\ CapturedMoneyAccounted'
<1> USE DEF Money_IInv, TypeOK, MoneyInv, hookVars, adminVars, eventVars,
            HookUnchanged
<1>1. ASSUME NEW h \in Handlers, NEW e \in sent, Receive(h, e)
      PROVE  MoneyInv' /\ CapturedMoneyAccounted'
  <2>1. /\ UNCHANGED <<step, order, intent, refund, sent, unacked, adminStep,
                       adminOrder, dropped>>
        /\ hookEvent' = [hookEvent EXCEPT ![h] = e]
        /\ ~Locked(e.of)
    BY <1>1 DEF Receive
  <2>2. HandlersInformed'
    BY <1>1, <2>1 DEF Receive, HandlersInformed, Events, EventTypes
  <2>3. RowLocksExclusive'
    <3> SUFFICES ASSUME NEW g \in Handlers, NEW k \in Handlers, g # k,
                        hookStep'[g] \in {"settling", "cancelling"},
                        hookStep'[k] \in {"settling", "cancelling"}
                 PROVE  hookEvent'[g].of # hookEvent'[k].of
      BY DEF RowLocksExclusive
    <3>1. \A x \in Handlers : x # h =>
            hookStep'[x] = hookStep[x] /\ hookEvent'[x] = hookEvent[x]
      BY <1>1, <2>1 DEF Receive
    <3>2. hookEvent'[h] = e
      BY <2>1
    <3>3. QED
      BY <2>1, <3>1, <3>2 DEF RowLocksExclusive, Locked
  <2>4. QED
    BY <2>1, <2>2, <2>3 DEF RowsMatchCheckouts, MoneyBehindStatus,
         EventsTruthful, AdminsInformed, CapturedMoneyAccounted
<1>2. ASSUME NEW e \in unacked, ReceiveNothingToDo(e)
      PROVE  MoneyInv' /\ CapturedMoneyAccounted'
  <2>1. /\ UNCHANGED <<step, order, intent, refund, sent, hookStep, hookEvent,
                       adminStep, adminOrder, dropped>>
        /\ unacked' = unacked \ {e}
        /\ e.type = "succeeded" => order[e.of] \notin {"pending"} \cup GivenUp
        /\ e \in sent
    BY <1>2 DEF ReceiveNothingToDo
  <2>2. CapturedMoneyAccounted'
    <3> SUFFICES ASSUME NEW c \in Checkouts, intent[c] = "succeeded",
                        refund[c] = "none", order[c] \notin SaleStands,
                        c \notin dropped
                 PROVE  Succeeded(c) # e
      BY <2>1 DEF CapturedMoneyAccounted
    <3>1. order[c] \in {"pending"} \cup GivenUp
      BY DEF RowsMatchCheckouts, MoneyBehindStatus, Statuses, SaleStands,
             MoneyCaptured, GivenUp
    <3>2. QED
      BY <2>1, <3>1 DEF Succeeded
  <2>3. QED
    BY <2>1, <2>2 DEF RowsMatchCheckouts, MoneyBehindStatus, EventsTruthful,
         HandlersInformed, RowLocksExclusive, AdminsInformed
<1>3. ASSUME NEW h \in Handlers, CrashHook(h)
      PROVE  MoneyInv' /\ CapturedMoneyAccounted'
  <2>1. /\ UNCHANGED <<step, order, intent, refund, sent, unacked, adminStep,
                       adminOrder, dropped>>
        /\ hookStep' = [hookStep EXCEPT ![h] = "idle"]
        /\ hookEvent' = [hookEvent EXCEPT ![h] = NoEvent]
    BY <1>3 DEF CrashHook
  <2>2. HandlersInformed' /\ RowLocksExclusive'
    BY <2>1 DEF HandlersInformed, RowLocksExclusive
  <2>3. QED
    BY <2>1, <2>2 DEF RowsMatchCheckouts, MoneyBehindStatus, EventsTruthful,
         AdminsInformed, CapturedMoneyAccounted
<1>4. QED
  BY <1>1, <1>2, <1>3

(* Acting on the lock: the order moves from pending, and every other       *)
(* request that knows this order knows it as one that is not pending.      *)
LEMMA SettlementKeepsMoney ==
  ASSUME Money_IInv, NEW h \in Handlers, Settle(h) \/ CancelUnpaid(h)
  PROVE  MoneyInv' /\ CapturedMoneyAccounted'
<1> USE DEF Money_IInv, TypeOK, MoneyInv, hookVars, adminVars, HookUnchanged,
            Acknowledge
<1> DEFINE e == hookEvent[h]
           c == hookEvent[h].of
           to == IF hookStep[h] = "settling" THEN "paid" ELSE "cancelled"
<1>1. /\ UNCHANGED <<step, intent, refund, sent, adminStep, adminOrder, dropped>>
      /\ hookStep' = [hookStep EXCEPT ![h] = "idle"]
      /\ hookEvent' = [hookEvent EXCEPT ![h] = NoEvent]
      /\ unacked' = unacked \ {e}
      /\ hookStep[h] \in {"settling", "cancelling"}
  BY DEF Settle, CancelUnpaid
<1>2. /\ c \in Checkouts /\ order[c] = "pending" /\ e \in sent
      /\ e.type = "succeeded" <=> hookStep[h] = "settling"
  BY <1>1 DEF HandlersInformed, Events
<1>3. order' = [order EXCEPT ![c] = to]
  BY <1>1, <1>2 DEF Settle, CancelUnpaid, TransitionOrder, Moves, ValidTransitions
<1>4. intent[c] = "succeeded" \/ to # "paid"
  BY <1>2 DEF EventsTruthful
<1>5. RowsMatchCheckouts'
  BY <1>1, <1>2, <1>3 DEF RowsMatchCheckouts
<1>6. MoneyBehindStatus'
  BY <1>1, <1>2, <1>3, <1>4 DEF MoneyBehindStatus, SaleStands, MoneyCaptured
<1>7. HandlersInformed'
  <2> SUFFICES ASSUME NEW g \in Handlers, hookStep[g] # "idle", g # h
               PROVE  hookEvent[g].of # c
    BY <1>1, <1>3 DEF HandlersInformed, Events
  <2>1. CASE hookStep[g] \in {"settling", "cancelling"}
    BY <1>1, <2>1 DEF RowLocksExclusive
  <2>2. CASE hookStep[g] \in {"refunding", "recording"}
    BY <1>2, <2>2 DEF HandlersInformed, GivenUp
  <2>3. QED
    BY <2>1, <2>2 DEF HookSteps
<1>8. AdminsInformed'
  BY <1>1, <1>2, <1>3 DEF AdminsInformed, SaleStands, MoneyCaptured
<1>9. CapturedMoneyAccounted'
  <2> SUFFICES ASSUME NEW d \in Checkouts, intent[d] = "succeeded",
                      refund[d] = "none", order'[d] \notin SaleStands,
                      d \notin dropped
               PROVE  Succeeded(d) \in unacked'
    BY <1>1 DEF CapturedMoneyAccounted
  <2>1. Succeeded(d) \in unacked
    BY <1>2, <1>3 DEF CapturedMoneyAccounted, SaleStands, MoneyCaptured
  <2>2. Succeeded(d) # e
    BY <1>1, <1>2, <1>3 DEF Succeeded, SaleStands, MoneyCaptured
  <2>3. QED
    BY <1>1, <2>1, <2>2
<1>10. RowLocksExclusive' /\ EventsTruthful'
  BY <1>1 DEF RowLocksExclusive, EventsTruthful
<1>11. QED
  BY <1>5, <1>6, <1>7, <1>8, <1>9, <1>10

(* Returning a late payment: the money first, the order afterwards.        *)
LEMMA LateRefundKeepsMoney ==
  ASSUME Money_IInv, NEW h \in Handlers,
         RefundLate(h) \/ RefundLateFails(h) \/ RecordLateRefund(h)
  PROVE  MoneyInv' /\ CapturedMoneyAccounted'
<1> USE DEF Money_IInv, TypeOK, MoneyInv, hookVars, adminVars, eventVars,
            HookUnchanged, Acknowledge
<1> DEFINE e == hookEvent[h]
           c == hookEvent[h].of
<1>1. /\ c \in Checkouts /\ e \in sent /\ e = Succeeded(c)
      /\ order[c] \in GivenUp \cup {"refunded"} /\ intent[c] = "succeeded"
  BY DEF RefundLate, RefundLateFails, RecordLateRefund, HandlersInformed,
         EventsTruthful, Events, Succeeded
<1>2. CASE RefundLate(h)
  <2>1. /\ UNCHANGED <<step, order, intent, sent, unacked, hookEvent,
                       adminStep, adminOrder, dropped>>
        /\ hookStep' = [hookStep EXCEPT ![h] = "recording"]
        /\ hookStep[h] = "refunding"
        /\ refund' = [refund EXCEPT ![c] = "late"]
    BY <1>2 DEF RefundLate
  <2>2. MoneyBehindStatus' /\ CapturedMoneyAccounted'
    BY <1>1, <2>1 DEF MoneyBehindStatus, CapturedMoneyAccounted, GivenUp
  <2>3. HandlersInformed' /\ RowLocksExclusive' /\ AdminsInformed'
    BY <1>1, <2>1 DEF HandlersInformed, RowLocksExclusive, AdminsInformed
  <2>4. QED
    BY <2>1, <2>2, <2>3 DEF RowsMatchCheckouts, EventsTruthful
<1>3. CASE RefundLateFails(h)
  <2>1. /\ UNCHANGED <<step, order, intent, sent, adminStep, adminOrder>>
        /\ hookStep' = [hookStep EXCEPT ![h] = "idle"]
        /\ hookEvent' = [hookEvent EXCEPT ![h] = NoEvent]
        /\ unacked' = unacked \ {e}
        /\ refund' \in {refund, [refund EXCEPT ![c] = "late"]}
        /\ dropped \subseteq dropped'
        /\ refund'[c] # "none" \/ c \in dropped'
    BY <1>1, <1>3 DEF RefundLateFails
  <2>2. MoneyBehindStatus' /\ CapturedMoneyAccounted'
    BY <1>1, <2>1 DEF MoneyBehindStatus, CapturedMoneyAccounted, GivenUp, Succeeded
  <2>3. HandlersInformed'
    BY <1>1, <2>1 DEF HandlersInformed, Events
  <2>4. RowLocksExclusive'
    BY <2>1 DEF RowLocksExclusive
  <2>5. AdminsInformed'
    BY <2>1 DEF AdminsInformed
  <2>6. QED
    BY <2>1, <2>2, <2>3, <2>4, <2>5 DEF RowsMatchCheckouts, EventsTruthful
<1>4. CASE RecordLateRefund(h)
  <2>1. /\ UNCHANGED <<step, refund, intent, sent, adminStep, adminOrder, dropped>>
        /\ hookStep' = [hookStep EXCEPT ![h] = "idle"]
        /\ hookEvent' = [hookEvent EXCEPT ![h] = NoEvent]
        /\ unacked' = unacked \ {e}
        /\ order' \in {order, [order EXCEPT ![c] = "refunded"]}
        /\ refund[c] # "none"
    BY <1>4 DEF RecordLateRefund, TransitionOrder, HandlersInformed
  <2>2. RowsMatchCheckouts'
    BY <1>1, <2>1 DEF RowsMatchCheckouts, GivenUp
  <2>3. MoneyBehindStatus'
    BY <1>1, <2>1 DEF MoneyBehindStatus, SaleStands, MoneyCaptured
  <2>4. CapturedMoneyAccounted'
    BY <1>1, <2>1 DEF CapturedMoneyAccounted, Succeeded
  <2>5. HandlersInformed'
    BY <1>1, <2>1 DEF HandlersInformed, GivenUp, Events
  <2>6. AdminsInformed'
    BY <1>1, <2>1 DEF AdminsInformed
  <2>7. QED
    BY <2>1, <2>2, <2>3, <2>4, <2>5, <2>6 DEF RowLocksExclusive, EventsTruthful
<1>5. QED
  BY <1>2, <1>3, <1>4

-----------------------------------------------------------------------------
(* The sweep expires pending orders that no webhook has locked: whoever    *)
(* knows an order otherwise is not disturbed, and a payment made meanwhile *)
(* still has its event.                                                    *)
LEMMA SweepKeepsMoney ==
  ASSUME Money_IInv, NEW l \in Listings, Sweep(l)
  PROVE  MoneyInv' /\ CapturedMoneyAccounted'
<1> USE DEF Money_IInv, TypeOK, MoneyInv, hookVars, adminVars, eventVars,
            stripeVars, SweepUnchanged
<1>1. /\ UNCHANGED <<step, intent, refund, sent, unacked, hookStep, hookEvent,
                     adminStep, adminOrder, dropped>>
      /\ \A c \in Checkouts :
           order'[c] = order[c] \/ (order[c] = "pending" /\ ~Locked(c)
                                    /\ order'[c] = "expired")
  BY DEF Sweep, Pending
<1>2. RowsMatchCheckouts' /\ MoneyBehindStatus'
  BY <1>1 DEF RowsMatchCheckouts, MoneyBehindStatus, SaleStands, MoneyCaptured
<1>3. CapturedMoneyAccounted'
  BY <1>1 DEF CapturedMoneyAccounted, SaleStands, MoneyCaptured
<1>4. HandlersInformed'
  <2> SUFFICES ASSUME NEW h \in Handlers, hookStep[h] # "idle"
               PROVE  order'[hookEvent[h].of] = order[hookEvent[h].of]
    BY <1>1 DEF HandlersInformed
  <2>1. hookEvent[h].of \in Checkouts
    BY DEF Events
  <2>2. QED
    BY <1>1, <2>1 DEF HandlersInformed, Locked, HookSteps, GivenUp
<1>5. AdminsInformed'
  BY <1>1 DEF AdminsInformed, SaleStands, MoneyCaptured
<1>6. QED
  BY <1>1, <1>2, <1>3, <1>4, <1>5 DEF RowLocksExclusive, EventsTruthful

(* Buyer and seller move an order among the statuses of a standing sale.   *)
LEMMA PartiesKeepMoney ==
  ASSUME Money_IInv, NEW c \in Checkouts,
         MarkFulfilled(c) \/ ConfirmReceipt(c) \/ RaiseDispute(c)
  PROVE  /\ MoneyInv' /\ CapturedMoneyAccounted'
         /\ order[c] \in SaleStands
         /\ \E to \in SaleStands : Moves(c, to) /\ order' = [order EXCEPT ![c] = to]
<1> USE DEF Money_IInv, TypeOK, MoneyInv, hookVars, adminVars, eventVars,
            stripeVars, auxVars, OrderUnchanged
<1>1. /\ UNCHANGED <<step, intent, refund, sent, unacked, hookStep, hookEvent,
                     adminStep, adminOrder, dropped>>
      /\ \E to \in {"fulfilled", "completed", "disputed"} :
           Moves(c, to) /\ order' = [order EXCEPT ![c] = to]
  BY DEF MarkFulfilled, ConfirmReceipt, RaiseDispute, PartyMoves, TransitionOrder
<1>2. /\ order[c] \in SaleStands
      /\ \E to \in SaleStands : Moves(c, to) /\ order' = [order EXCEPT ![c] = to]
  <2>1. PICK to \in {"fulfilled", "completed", "disputed"} :
          Moves(c, to) /\ order' = [order EXCEPT ![c] = to]
    BY <1>1
  <2>2. order[c] \in SaleStands
    BY <2>1 DEF Moves, ValidTransitions, Statuses, SaleStands, MoneyCaptured
  <2>3. to \in SaleStands
    BY DEF SaleStands, MoneyCaptured
  <2>4. QED
    BY <2>1, <2>2, <2>3
<1>3. RowsMatchCheckouts' /\ MoneyBehindStatus'
  BY <1>1, <1>2 DEF RowsMatchCheckouts, MoneyBehindStatus, SaleStands, MoneyCaptured
<1>4. CapturedMoneyAccounted' /\ AdminsInformed'
  BY <1>1, <1>2 DEF CapturedMoneyAccounted, AdminsInformed
<1>5. HandlersInformed'
  BY <1>1, <1>2 DEF HandlersInformed, GivenUp, SaleStands, MoneyCaptured
<1>6. QED
  BY <1>1, <1>2, <1>3, <1>4, <1>5 DEF RowLocksExclusive, EventsTruthful

(* Resolving a dispute: whatever happened to the order since the admin     *)
(* read it, it was paid for, and its money is back before it is refunded.  *)
LEMMA ResolutionKeepsMoney ==
  ASSUME Money_IInv, NEW a \in Admins,
         \/ \E c \in Checkouts, outcome \in {"refunding", "upholding"} :
              ReadDispute(a, c, outcome)
         \/ AdminStep(a)
  PROVE  MoneyInv' /\ CapturedMoneyAccounted'
<1> USE DEF Money_IInv, TypeOK, MoneyInv, hookVars, adminVars, eventVars,
            stripeVars, auxVars, OrderUnchanged, AdminAnswers
<1> DEFINE c == adminOrder[a]
<1>1. ASSUME NEW d \in Checkouts, NEW outcome \in {"refunding", "upholding"},
             ReadDispute(a, d, outcome)
      PROVE  MoneyInv' /\ CapturedMoneyAccounted'
  <2>1. AdminsInformed'
    BY <1>1 DEF ReadDispute, AdminsInformed, SaleStands
  <2>2. UNCHANGED <<step, order, intent, refund, sent, unacked, hookStep,
                    hookEvent, dropped>>
    BY <1>1 DEF ReadDispute
  <2>3. QED
    BY <2>1, <2>2 DEF RowsMatchCheckouts, MoneyBehindStatus, EventsTruthful,
         HandlersInformed, RowLocksExclusive, CapturedMoneyAccounted
<1>2. CASE RefundDispute(a) \/ RefundDisputeFails(a)
  <2>1. /\ UNCHANGED <<step, order, intent, sent, unacked, hookStep, hookEvent,
                       adminOrder, dropped>>
        /\ c \in Checkouts
        /\ order[c] \in SaleStands \cup {"refunded"}
        /\ \/ /\ refund' = [refund EXCEPT ![c] = "dispute"]
              /\ intent[c] = "succeeded"
           \/ UNCHANGED refund /\ adminStep'[a] = "idle"
        /\ adminStep' \in {[adminStep EXCEPT ![a] = "recording"],
                           [adminStep EXCEPT ![a] = "idle"]}
    BY <1>2 DEF RefundDispute, RefundDisputeFails, CanRefund, AdminsInformed
  <2>2. MoneyBehindStatus' /\ CapturedMoneyAccounted'
    BY <2>1 DEF MoneyBehindStatus, CapturedMoneyAccounted, SaleStands, MoneyCaptured
  <2>3. AdminsInformed'
    BY <2>1 DEF AdminsInformed
  <2>4. HandlersInformed'
    BY <2>1 DEF HandlersInformed, Events
  <2>5. QED
    BY <2>1, <2>2, <2>3, <2>4 DEF RowsMatchCheckouts, RowLocksExclusive,
         EventsTruthful
<1>3. CASE RecordResolution(a)
  <2>1. /\ UNCHANGED <<step, intent, refund, sent, unacked, hookStep, hookEvent,
                       adminOrder, dropped>>
        /\ adminStep' = [adminStep EXCEPT ![a] = "idle"]
        /\ c \in Checkouts
        /\ order[c] \in SaleStands \cup {"refunded"}
        /\ \/ UNCHANGED order
           \/ /\ refund[c] # "none"
              /\ order' = [order EXCEPT ![c] = "refunded"]
           \/ /\ order[c] \in SaleStands
              /\ order' = [order EXCEPT ![c] = "completed"]
    BY <1>3 DEF RecordResolution, TransitionOrder, AdminsInformed, Moves,
                ValidTransitions
  <2>2. MoneyBehindStatus' /\ CapturedMoneyAccounted'
    BY <2>1 DEF MoneyBehindStatus, CapturedMoneyAccounted, SaleStands, MoneyCaptured
  <2>3. AdminsInformed'
    BY <2>1 DEF AdminsInformed, SaleStands, MoneyCaptured
  <2>4. HandlersInformed'
    BY <2>1 DEF HandlersInformed, Events, GivenUp, SaleStands, MoneyCaptured
  <2>5. RowsMatchCheckouts'
    BY <2>1 DEF RowsMatchCheckouts, SaleStands, MoneyCaptured
  <2>6. QED
    BY <2>1, <2>2, <2>3, <2>4, <2>5 DEF RowLocksExclusive, EventsTruthful
<1>4. QED
  BY <1>1, <1>2, <1>3 DEF AdminStep

-----------------------------------------------------------------------------
(* Initially there is no order, no event and no money. *)
LEMMA MoneyInit == Init => Money_IInv
  BY ConstantsAssumption, TypeInit
     DEF Init, Money_IInv, MoneyInv, CapturedMoneyAccounted,
         RowsMatchCheckouts, MoneyBehindStatus, EventsTruthful,
         HandlersInformed, RowLocksExclusive, AdminsInformed, SaleStands,
         MoneyCaptured

(* The money half of the invariant is inductive: one case per action. *)
LEMMA MoneyStep == Money_IInv /\ [Next]_vars => Money_IInv'
<1> SUFFICES ASSUME Money_IInv, [Next]_vars
             PROVE  MoneyInv' /\ CapturedMoneyAccounted'
  BY TypeStep DEF Money_IInv
<1>1. CASE UNCHANGED vars
  BY <1>1, MoneyStutters DEF vars, moneyVars, Money_IInv
<1>2. ASSUME NEW l \in Listings,
             \/ ReservationExpires(l)
             \/ \E t \in ManualTargets : SellerReads(l, t)
             \/ SellerChecks(l) \/ SellerWrites(l)
      PROVE  MoneyInv' /\ CapturedMoneyAccounted'
  <2>1. UNCHANGED moneyVars
    BY <1>2 DEF ReservationExpires, SellerReads, SellerChecks, SellerWrites,
         SweepUnchanged, SellerUnchanged, moneyVars, stripeVars, eventVars,
         hookVars, adminVars
  <2>2. QED
    BY <2>1, MoneyStutters DEF Money_IInv
<1>3. CASE Next
  BY <1>2, <1>3, CheckoutKeepsMoney, StripeKeepsMoney, ReceiptKeepsMoney,
     SettlementKeepsMoney, LateRefundKeepsMoney, SweepKeepsMoney,
     PartiesKeepMoney, ResolutionKeepsMoney
     DEF Next, HookStep
<1>4. QED
  BY <1>1, <1>3

(* No captured payment is forgotten: money that was not returned stands    *)
(* behind a sale or still has an event that handleWebhook will be given,   *)
(* except where that handler swallowed its own refund's failure.           *)
THEOREM NoMoneyForgotten == Spec => [](MoneyInv /\ CapturedMoneyAccounted)
<1>1. Money_IInv => MoneyInv /\ CapturedMoneyAccounted
  BY DEF Money_IInv
<1>2. QED
  BY <1>1, MoneyInit, MoneyStep, PTL DEF Spec
=============================================================================
