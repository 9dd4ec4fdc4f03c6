--------------------------- MODULE Takedown_proofs ---------------------------
(***************************************************************************)
(* Theorems about Takedown, for any number of listings, orders, takedowns  *)
(* and requests.                                                           *)
(***************************************************************************)
EXTENDS Takedown, OrdersHolding_proofs

-----------------------------------------------------------------------------
(* Types.                                                                  *)

(* The initial tables of the saga have their types. *)
LEMMA SagaTypeInit == SagaInit => SagaTypeOK
  BY TakedownAssumption DEF SagaInit, SagaTypeOK, Tasks, WorkerSteps, AtRow

(* A claim counts an attempt of each row it returns, within the limit.     *)
LEMMA ClaimType ==
  ASSUME SagaTypeOK, NEW w \in Workers, ClaimTasks(w)
  PROVE  SagaTypeOK'
<1> USE TakedownAssumption DEF SagaTypeOK
<1> DEFINE claimed == {t \in TasksOf(workerAction[w]) : Claimable(t)}
<1>1. \A t \in claimed : t \in Tasks /\ attempts[t] + 1 \in 1..MaxAttempts
  BY DEF TasksOf, Claimable
<1>2. attempts' \in [Tasks -> 0..MaxAttempts]
  BY <1>1 DEF ClaimTasks
<1>3. taskState' \in [Tasks -> {"none", "pending", "processing", "succeeded", "failed"}]
  BY DEF ClaimTasks
<1>4. todo' \in [Workers -> SUBSET Rows]
  <2>1. {[of |-> t[2], attempts |-> attempts[t] + 1] : t \in claimed} \subseteq Rows
    BY <1>1 DEF Rows, Tasks
  <2>2. todo' = [todo EXCEPT ![w] =
                   {[of |-> t[2], attempts |-> attempts[t] + 1] : t \in claimed}]
    BY DEF ClaimTasks
  <2>3. QED
    BY <2>1, <2>2
<1>5. workerStep' \in [Workers -> WorkerSteps] /\ stale' \subseteq Tasks
  BY DEF ClaimTasks, WorkerGoto, WorkerSteps, AtRow
<1>6. QED
  BY <1>2, <1>3, <1>4, <1>5 DEF ClaimTasks, actionVars

(* Every step of the saga, and of the marketplace beside it, keeps them.   *)
LEMMA SagaTypeStep ==
  ASSUME TypeOK, SagaTypeOK, [SagaNext]_sagaAndOrders
  PROVE  SagaTypeOK'
<1> USE TakedownAssumption DEF actionVars, taskVars, workerVars, sagaVars, WorkerGoto, WorkerSteps,
            AtRow
<1>1. ASSUME NEW w \in Workers, NEW a \in Actions, NEW l \in Listings, RequestTakedown(w, a, l)
      PROVE  SagaTypeOK'
  <2>1. /\ taskState' \in [Tasks -> {"none", "pending", "processing", "succeeded", "failed"}]
        /\ operation' \in [Tasks -> {"cancel", "refund"}]
    BY <1>1 DEF RequestTakedown, SagaTypeOK
  <2>2. QED
    BY <1>1, <2>1 DEF RequestTakedown, SagaTypeOK
<1>2. ASSUME NEW w \in Workers, NEW a \in Actions, Retry(w, a) PROVE SagaTypeOK'
  BY <1>2 DEF Retry, SagaTypeOK
<1>3. ASSUME NEW w \in Workers,
             Finalize(w) \/ Escalate(w) \/ MarkSettling(w) \/ MarkListings(w) \/ Reopen(w)
      PROVE  SagaTypeOK'
  BY <1>3 DEF Finalize, Escalate, MarkSettling, MarkListings, Reopen, SetActions,
              ReconcileUnchanged, SagaTypeOK
<1>4. ASSUME NEW w \in Workers, CallStripe(w) PROVE SagaTypeOK'
  <2>1. PICK r \in todo[w] :
          /\ row' = [row EXCEPT ![w] = r]
          /\ todo' = [todo EXCEPT ![w] = @ \ {r}]
          /\ replays' \in {replays, replays \cup {<<workerAction[w], r.of>>}}
          /\ \E s \in WorkerSteps : workerStep' = [workerStep EXCEPT ![w] = s]
    BY <1>4 DEF CallStripe, StripeDoes
  <2>2. r \in Rows /\ <<workerAction[w], r.of>> \in Tasks
    BY DEF SagaTypeOK, Rows, Tasks
  <2>3. QED
    BY <1>4, <2>1, <2>2 DEF CallStripe, SagaTypeOK
<1>5. ASSUME NEW w \in Workers,
             \/ MoveOrder(w) \/ RecordSuccess(w) \/ TellBuyer(w)
             \/ TaskFails(w) \/ DrainEnds(w) \/ WorkerCrash(w)
      PROVE  SagaTypeOK'
  BY <1>5 DEF MoveOrder, RecordSuccess, TellBuyer, TaskFails, DrainEnds, WorkerCrash, SagaTypeOK
<1>6. ASSUME NEW w \in Workers, WorkerMoves(w) PROVE SagaTypeOK'
  BY <1>3, <1>4, <1>5, <1>6, ClaimType DEF WorkerMoves
<1>7. ASSUME \/ \E t \in Tasks : GrowsStale(t)
             \/ \E l \in Listings : Restore(l)
             \/ \E h \in Handlers : WebhookDeadlocks(h)
             \/ UNCHANGED sagaAndOrders
      PROVE  SagaTypeOK'
  BY <1>7 DEF GrowsStale, Restore, WebhookDeadlocks, sagaAndOrders, SagaTypeOK
<1>8. CASE OrdersMove
  BY <1>8 DEF OrdersMove, SagaTypeOK
<1>9. QED
  BY <1>1, <1>2, <1>5, <1>6, <1>7, <1>8 DEF SagaNext

-----------------------------------------------------------------------------
(* What the saga does to Orders.                                           *)

(* A task is called in for an order that exists: an open intent is         *)
(* cancelled, or captured money returned, or nothing happens at Stripe.    *)
LEMMA StripeCalled ==
  ASSUME TypeOK, SagaTypeOK, SagaInv, NEW w \in Workers, CallStripe(w)
  PROVE  \E c \in Checkouts :
           /\ order[c] # "none"
           /\ \/ UNCHANGED <<intent, refund, sent, unacked>>
              \/ /\ intent[c] = "open" /\ UNCHANGED refund
                 /\ intent' = [intent EXCEPT ![c] = "canceled"]
                 /\ Emit("canceled", c)
              \/ /\ order[c] # "pending" /\ intent[c] = "succeeded"
                 /\ refund[c] = "none" /\ UNCHANGED <<intent, sent, unacked>>
                 /\ refund' = [refund EXCEPT ![c] = "takedown"]
<1>1. PICK r \in todo[w] :
        \/ StripeDoes(<<workerAction[w], r.of>>)
        \/ UNCHANGED <<intent, refund, sent, unacked>>
  BY DEF CallStripe, stripeVars, eventVars
<1> DEFINE t == <<workerAction[w], r.of>>
<1>2. t \in Tasks /\ r.of \in Checkouts /\ r.of \in Hand(w)
  BY DEF SagaTypeOK, Rows, Tasks, Hand
<1>3. taskState[t] # "none"
  BY <1>2 DEF SagaInv, WorkersInformed, Informed
<1>4. order[r.of] # "none" /\ (operation[t] = "refund" => order[r.of] # "pending")
  BY <1>2, <1>3 DEF SagaInv, TasksTruthful
<1>5. QED
  BY <1>1, <1>2, <1>4 DEF StripeDoes, StripeAccepts, stripeVars, eventVars

(* An order is moved only after Stripe did what the move says.             *)
LEMMA OrderMoved ==
  ASSUME TypeOK, SagaTypeOK, SagaInv, NEW w \in Workers, MoveOrder(w)
  PROVE  \E c \in Checkouts, to \in {"cancelled", "refunded"} :
           /\ ~Locked(c)
           /\ to = "cancelled" => intent[c] = "canceled"
           /\ to = "refunded" => refund[c] # "none"
           /\ \/ UNCHANGED order
              \/ Moves(c, to) /\ TransitionOrder(c, to)
<1> DEFINE t == TaskAt(w)
<1>1. row[w] \in Rows /\ t \in replays
  BY DEF MoveOrder, SagaInv, WorkersInformed, Informed, AtRow
<1>2. row[w].of \in Checkouts /\ t \in Tasks /\ t[2] = row[w].of
  BY <1>1 DEF SagaTypeOK, Rows, Tasks, TaskAt
<1>3. /\ operation[t] = "cancel" => intent[row[w].of] = "canceled"
      /\ operation[t] = "refund" => refund[row[w].of] # "none"
      /\ operation[t] \in {"cancel", "refund"}
  BY <1>1, <1>2 DEF SagaInv, TasksTruthful, SagaTypeOK
<1>4. CASE UNCHANGED order
  BY <1>2, <1>3, <1>4 DEF MoveOrder, Target
<1>5. CASE ~UNCHANGED order
  <2>1. TransitionOrder(row[w].of, Target(t)) /\ Moves(row[w].of, Target(t)) /\ ~Locked(row[w].of)
    BY <1>5 DEF MoveOrder, TransitionOrder
  <2>2. QED
    BY <2>1, <1>2, <1>3 DEF Target
<1>6. QED
  BY <1>4, <1>5

(* Cancelling an open intent and returning captured money disturb nothing  *)
(* that Orders keeps, and keep the promise.                                *)
LEMMA StripeCallKeepsOrders ==
  ASSUME IInv, SagaTypeOK, SagaInv, NEW w \in Workers, CallStripe(w)
  PROVE  IInv' /\ [Promise!Next]_(Promise!vars)
<1>1. /\ UNCHANGED <<listing, overdue, moderated, step, order, hookStep, hookEvent,
                     adminStep, adminOrder, sellerStep, sellerTarget, crashes, raced, dropped>>
      /\ TypeOK /\ MoneyInv /\ CapturedMoneyAccounted /\ OnePending /\ HoldingInv
      /\ Money_IInv
  BY DEF CallStripe, IInv, Money_IInv, listingVars, hookVars, adminVars, sellerVars, auxVars
<1>2. PICK c \in Checkouts :
           /\ order[c] # "none"
           /\ \/ UNCHANGED <<intent, refund, sent, unacked>>
              \/ /\ intent[c] = "open" /\ UNCHANGED refund
                 /\ intent' = [intent EXCEPT ![c] = "canceled"]
                 /\ Emit("canceled", c)
              \/ /\ order[c] # "pending" /\ intent[c] = "succeeded"
                 /\ refund[c] = "none" /\ UNCHANGED <<intent, sent, unacked>>
                 /\ refund' = [refund EXCEPT ![c] = "takedown"]
  BY <1>1, StripeCalled
<1>3. step[c] = "done"
  BY <1>1, <1>2 DEF MoneyInv, RowsMatchCheckouts
<1>4. OnePending' /\ HoldingInv'
  BY <1>1, NobodyNewHolds DEF OnePending, Holds
<1>5. CASE UNCHANGED <<intent, refund, sent, unacked>>
  <2>1. MoneyInv' /\ CapturedMoneyAccounted'
    BY <1>1, <1>5, MoneyStutters DEF moneyVars
  <2>2. TypeOK'
    BY <1>1, <1>5 DEF TypeOK
  <2>3. QED
    BY <1>1, <1>4, <1>5, <2>1, <2>2, QuietSteps DEF IInv
<1>6. CASE /\ intent[c] = "open" /\ UNCHANGED refund
           /\ intent' = [intent EXCEPT ![c] = "canceled"]
           /\ Emit("canceled", c)
  <2>1. TypeOK'
    BY <1>1, <1>6 DEF TypeOK, Emit, Events, EventTypes
  <2>2. /\ \A d \in Checkouts : intent'[d] = "succeeded" <=> intent[d] = "succeeded"
        /\ \A d \in Checkouts : d # c => intent'[d] = intent[d]
    BY <1>1, <1>6 DEF TypeOK
  <2>3. /\ sent \subseteq sent' /\ unacked \subseteq unacked'
        /\ \A e \in sent' : e.type = "succeeded" => e \in sent
    BY <1>6 DEF Emit
  <2>4. RowsMatchCheckouts' /\ MoneyBehindStatus' /\ AdminsInformed'
    BY <1>1, <1>3, <1>6, <2>2 DEF MoneyInv, RowsMatchCheckouts, MoneyBehindStatus, AdminsInformed
  <2>5. EventsTruthful' /\ HandlersInformed' /\ RowLocksExclusive'
    <3>1. \A e \in sent' : e.type = "succeeded" => intent'[e.of] = "succeeded"
      BY <1>1, <2>2, <2>3 DEF MoneyInv, EventsTruthful, TypeOK, Events
    <3>2. EventsTruthful'
      BY <3>1 DEF EventsTruthful
    <3>3. HandlersInformed'
      BY <1>1, <1>6, <2>3 DEF MoneyInv, HandlersInformed
    <3>4. QED
      BY <1>1, <3>2, <3>3 DEF MoneyInv, RowLocksExclusive
  <2>6. CapturedMoneyAccounted'
    BY <1>1, <1>6, <2>2, <2>3 DEF CapturedMoneyAccounted
  <2>7. QED
    BY <1>1, <1>4, <1>6, <2>1, <2>2, <2>4, <2>5, <2>6, QuietSteps DEF IInv, MoneyInv
<1>7. CASE /\ order[c] # "pending" /\ intent[c] = "succeeded"
           /\ refund[c] = "none" /\ UNCHANGED <<intent, sent, unacked>>
           /\ refund' = [refund EXCEPT ![c] = "takedown"]
  <2>1. TypeOK'
    BY <1>1, <1>7 DEF TypeOK, RefundKeys
  <2>2. \A d \in Checkouts : refund[d] # "none" => refund'[d] # "none"
    BY <1>1, <1>7 DEF TypeOK
  <2>3. RowsMatchCheckouts' /\ MoneyBehindStatus' /\ AdminsInformed'
    BY <1>1, <1>2, <1>7, <2>2 DEF MoneyInv, RowsMatchCheckouts, MoneyBehindStatus, AdminsInformed, TypeOK
  <2>4. EventsTruthful' /\ HandlersInformed' /\ RowLocksExclusive'
    BY <1>1, <1>7, <2>2 DEF MoneyInv, EventsTruthful, HandlersInformed, RowLocksExclusive, TypeOK, Events
  <2>5. CapturedMoneyAccounted'
    BY <1>1, <1>7, <2>2 DEF CapturedMoneyAccounted
  <2>6. [Promise!Next]_(Promise!vars)
    BY <1>1, <1>2, <1>7, RefundReturns DEF RefundKeys
  <2>7. QED
    BY <1>1, <1>4, <1>7, <2>1, <2>3, <2>4, <2>5, <2>6 DEF IInv, MoneyInv
<1>8. QED
  BY <1>2, <1>5, <1>6, <1>7

(* Nor does moving an order, once nobody holds its lock.                   *)
LEMMA MoveKeepsOrders ==
  ASSUME IInv, SagaTypeOK, SagaInv, NEW w \in Workers, MoveOrder(w)
  PROVE  IInv' /\ [Promise!Next]_(Promise!vars)
<1>1. /\ UNCHANGED <<listing, overdue, moderated, step, intent, refund, sent, unacked,
                     hookStep, hookEvent, adminStep, adminOrder, sellerStep,
                     sellerTarget, crashes, raced, dropped>>
      /\ TypeOK /\ MoneyInv /\ CapturedMoneyAccounted /\ OnePending /\ HoldingInv
      /\ Money_IInv
  BY DEF MoveOrder, IInv, Money_IInv, listingVars, stripeVars, eventVars, hookVars,
         adminVars, sellerVars, auxVars
<1>2. PICK c \in Checkouts, to \in {"cancelled", "refunded"} :
           /\ ~Locked(c)
           /\ to = "cancelled" => intent[c] = "canceled"
           /\ to = "refunded" => refund[c] # "none"
           /\ UNCHANGED order \/ (Moves(c, to) /\ TransitionOrder(c, to))
  BY <1>1, OrderMoved
<1>3. CASE UNCHANGED order
  <2>1. MoneyInv' /\ CapturedMoneyAccounted'
    BY <1>1, <1>3, MoneyStutters DEF moneyVars
  <2>2. TypeOK' /\ OnePending' /\ HoldingInv'
    BY <1>1, <1>3, NobodyNewHolds DEF TypeOK, OnePending, Holds
  <2>3. QED
    BY <1>1, <1>3, <2>1, <2>2, QuietSteps DEF IInv
<1>4. CASE Moves(c, to) /\ TransitionOrder(c, to)
  <2>1. /\ order' = [order EXCEPT ![c] = to]
        /\ order[c] \in Statuses \ {"refunded"}
        /\ order[c] \in GivenUp \cup SaleStands => to = "refunded"
    <3>1. order[c] \in Statuses \cup {"none"} /\ to \in ValidTransitions[order[c]]
      BY <1>1, <1>4 DEF TypeOK, Moves
    <3>2. QED
      BY <1>4, <3>1, MovesFrom DEF TransitionOrder, SaleStands, MoneyCaptured, GivenUp
  <2>2. TypeOK'
    BY <1>1, <1>2, <2>1 DEF TypeOK, Statuses
  <2>3. order[c] \in SaleStands => to = "refunded"
    BY <2>1
  <2>4. RowsMatchCheckouts' /\ MoneyBehindStatus'
    BY <1>1, <1>2, <2>1 DEF MoneyInv, RowsMatchCheckouts, MoneyBehindStatus, TypeOK,
       SaleStands, MoneyCaptured, Statuses
  <2>5. EventsTruthful' /\ RowLocksExclusive'
    BY <1>1 DEF MoneyInv, EventsTruthful, RowLocksExclusive
  <2>6. AdminsInformed'
    BY <1>1, <2>1, <2>3 DEF MoneyInv, AdminsInformed, TypeOK
  <2>7. HandlersInformed'
    <3>1. \A h \in Handlers : hookStep[h] \in {"settling", "cancelling"} => hookEvent[h].of # c
      BY <1>2 DEF Locked
    <3>2. \A h \in Handlers : hookStep[h] \in {"refunding", "recording"} =>
            order'[hookEvent[h].of] \in GivenUp \cup {"refunded"}
      BY <1>1, <1>2, <2>1 DEF MoneyInv, HandlersInformed, TypeOK, Events, GivenUp
    <3>3. QED
      BY <1>1, <2>1, <3>1, <3>2 DEF MoneyInv, HandlersInformed, TypeOK, Events
  <2>8. CapturedMoneyAccounted'
    BY <1>1, <1>2, <2>1, <2>3 DEF CapturedMoneyAccounted, TypeOK
  <2>9. OnePending' /\ HoldingInv'
    <3>1. step[c] = "done"
      BY <1>1, <2>1 DEF MoneyInv, RowsMatchCheckouts, Statuses
    <3>2. \A d \in Checkouts : Holds(d)' => Holds(d) /\ order'[d] = order[d]
      BY <1>1, <1>2, <2>1, <3>1 DEF Holds, Window, TypeOK, SaleStands, MoneyCaptured
    <3>3. HoldingInv'
      BY <1>1, <3>2, NobodyNewHolds
    <3>4. QED
      BY <1>1, <1>2, <2>1, <3>3 DEF OnePending, TypeOK
  <2>10. [Promise!Next]_(Promise!vars)
    <3>1. to \notin SaleStands
      BY <1>2 DEF SaleStands, MoneyCaptured
    <3>2. QED
      BY <1>1, <1>2, <1>4, <3>1, MovesAdvance
  <2>11. QED
    BY <2>2, <2>4, <2>5, <2>6, <2>7, <2>8, <2>9, <2>10 DEF IInv, MoneyInv
<1>5. QED
  BY <1>2, <1>3, <1>4

(* Neither does a webhook whose transaction the database aborts.           *)
LEMMA DeadlockKeepsOrders ==
  ASSUME IInv, NEW h \in Handlers, WebhookDeadlocks(h)
  PROVE  IInv' /\ [Promise!Next]_(Promise!vars)
<1>1. /\ UNCHANGED <<listing, overdue, moderated, step, order, intent, refund, sent, unacked,
                     adminStep, adminOrder, sellerStep, sellerTarget, crashes, raced, dropped>>
      /\ hookStep' = [hookStep EXCEPT ![h] = "idle"]
      /\ hookEvent' = [hookEvent EXCEPT ![h] = NoEvent]
      /\ TypeOK /\ MoneyInv /\ CapturedMoneyAccounted /\ OnePending /\ HoldingInv
  BY DEF WebhookDeadlocks, IInv, listingVars, eventVars, HookUnchanged, adminVars, sellerVars
<1>2. TypeOK'
  BY <1>1 DEF TypeOK, HookSteps
<1>3. HandlersInformed' /\ RowLocksExclusive'
  BY <1>1 DEF MoneyInv, HandlersInformed, RowLocksExclusive, TypeOK
<1>4. RowsMatchCheckouts' /\ MoneyBehindStatus' /\ EventsTruthful' /\ AdminsInformed'
  BY <1>1 DEF MoneyInv, RowsMatchCheckouts, MoneyBehindStatus, EventsTruthful, AdminsInformed
<1>5. CapturedMoneyAccounted' /\ OnePending' /\ HoldingInv'
  BY <1>1, NobodyNewHolds DEF CapturedMoneyAccounted, OnePending, Holds
<1>6. QED
  BY <1>1, <1>2, <1>3, <1>4, <1>5, QuietSteps DEF IInv, MoneyInv

(* Everything else the saga does reaches no table of Orders but            *)
(* moderated_at.                                                           *)
LEMMA BookkeepingKeepsOrders ==
  ASSUME IInv, moderated' \subseteq Listings, crashes' \in Nat,
         UNCHANGED <<listing, overdue, step, order, intent, refund, sent, unacked, hookStep,
                     hookEvent, adminStep, adminOrder, sellerStep, sellerTarget, raced, dropped>>
  PROVE  IInv' /\ [Promise!Next]_(Promise!vars)
<1>1. TypeOK' /\ OnePending' /\ HoldingInv'
  BY NobodyNewHolds DEF IInv, TypeOK, OnePending, Holds
<1>2. MoneyInv' /\ CapturedMoneyAccounted'
  BY MoneyStutters DEF IInv, moneyVars
<1>3. QED
  BY <1>1, <1>2, QuietSteps DEF IInv

(* The saga, beside everything in Orders, keeps what Orders keeps.         *)
LEMMA SagaKeepsOrders ==
  ASSUME IInv, SagaTypeOK, SagaInv, [SagaNext]_sagaAndOrders
  PROVE  IInv' /\ [Promise!Next]_(Promise!vars)
<1>1. ASSUME [Next]_vars PROVE IInv' /\ [Promise!Next]_(Promise!vars)
  BY <1>1, MoneyStep, PendingStep, HoldingStep, StepPromised DEF IInv, Money_IInv
<1>2. CASE OrdersMove \/ UNCHANGED sagaAndOrders
  BY <1>1, <1>2 DEF OrdersMove, sagaAndOrders
<1>3. ASSUME NEW w \in Workers, NEW a \in Actions, NEW l \in Listings, RequestTakedown(w, a, l)
      PROVE  IInv' /\ [Promise!Next]_(Promise!vars)
  <2>1. moderated' \subseteq Listings /\ crashes' \in Nat
    BY <1>3 DEF RequestTakedown, IInv, TypeOK
  <2>2. QED
    BY <1>3, <2>1, BookkeepingKeepsOrders DEF RequestTakedown, listingVars, stripeVars,
       eventVars, hookVars, adminVars, sellerVars
<1>4. ASSUME NEW l \in Listings, Restore(l) PROVE IInv' /\ [Promise!Next]_(Promise!vars)
  <2>1. moderated' \subseteq Listings /\ crashes' \in Nat
    BY <1>4 DEF Restore, IInv, TypeOK
  <2>2. QED
    BY <1>4, <2>1, BookkeepingKeepsOrders DEF Restore, listingVars, stripeVars,
       eventVars, hookVars, adminVars, sellerVars
<1>5. ASSUME NEW w \in Workers, WorkerCrash(w) PROVE IInv' /\ [Promise!Next]_(Promise!vars)
  <2>1. moderated' \subseteq Listings /\ crashes' \in Nat
    BY <1>5 DEF WorkerCrash, IInv, TypeOK
  <2>2. QED
    BY <1>5, <2>1, BookkeepingKeepsOrders DEF WorkerCrash, listingVars, stripeVars,
       eventVars, hookVars, adminVars, sellerVars
<1>6. ASSUME \/ \E t \in Tasks : GrowsStale(t)
             \/ \E w \in Workers : \E a \in Actions : Retry(w, a)
      PROVE  UNCHANGED vars
  BY <1>6 DEF GrowsStale, Retry
<1>7. ASSUME NEW w \in Workers, WorkerMoves(w)
      PROVE  CallStripe(w) \/ MoveOrder(w) \/ UNCHANGED vars
  BY <1>7 DEF WorkerMoves, Reopen, ClaimTasks, RecordSuccess, TellBuyer, TaskFails,
     DrainEnds, Finalize, Escalate, MarkSettling, MarkListings, ReconcileUnchanged
<1>8. QED
  BY <1>1, <1>2, <1>3, <1>4, <1>5, <1>6, <1>7, StripeCallKeepsOrders, MoveKeepsOrders,
     DeadlockKeepsOrders DEF SagaNext

-----------------------------------------------------------------------------
(* What the saga relies on: orders and money only go forward.              *)

Onward ==
  \A c \in Checkouts :
    /\ order[c] # "none" => order'[c] # "none"
    /\ order[c] \notin {"none", "pending"} => order'[c] # "pending"
    /\ order'[c] \in InFlightForModeration /\ order[c] \notin InFlightForModeration
         => order[c] = "none" /\ order'[c] = "pending"
    /\ order[c] # "none" /\ intent[c] = "canceled" => intent'[c] = "canceled"
    /\ refund[c] # "none" => refund'[c] # "none"
    /\ Settled(c) => Settled(c)'

(* A step of the promise takes no order and no money back.                 *)
LEMMA PromiseForward ==
  ASSUME TypeOK, [Promise!Next]_(Promise!vars), NEW c \in Checkouts
  PROVE  /\ order[c] # "none" => order'[c] # "none"
         /\ order[c] \notin {"none", "pending"} => order'[c] # "pending"
         /\ order'[c] \in InFlightForModeration /\ order[c] \notin InFlightForModeration
              => order[c] = "none" /\ order'[c] = "pending"
         /\ order[c] \in {"cancelled", "refunded"} => order'[c] \in {"cancelled", "refunded"}
         /\ refund[c] # "none" => refund'[c] # "none"
<1> DEFINE money == [d \in Checkouts |-> Money(d)]
<1>1. \/ order' = order
      \/ \E o \in Checkouts : order[o] = "none" /\ order' = [order EXCEPT ![o] = "pending"]
      \/ \E o \in Checkouts : \E to \in ValidTransitions[order[o]] : order' = [order EXCEPT ![o] = to]
  BY SameStatuses DEF Promise!Next, Promise!Place, Promise!Capture, Promise!Return,
     Promise!Advance, Promise!vars
<1>2. \/ money' = money
      \/ \E o \in Checkouts : \E m \in {"captured", "returned"} :
           money[o] # "returned" /\ money' = [money EXCEPT ![o] = m]
  BY DEF Promise!Next, Promise!Place, Promise!Capture, Promise!Return, Promise!Advance,
     Promise!vars
<1>3. money[c] = "returned" => money'[c] = "returned"
  BY <1>2
<1>4. refund[c] # "none" => refund'[c] # "none"
  BY <1>3 DEF Money
<1>5. ASSUME NEW o \in Checkouts, NEW to \in ValidTransitions[order[o]],
             order' = [order EXCEPT ![o] = to]
      PROVE  /\ to \notin {"none", "pending"} /\ order[o] # "none"
             /\ to \in InFlightForModeration => order[o] \in InFlightForModeration
             /\ order[o] \in {"cancelled", "refunded"} => to = "refunded"
  BY <1>5 DEF TypeOK, Statuses, ValidTransitions, InFlightForModeration
<1>6. QED
  BY <1>1, <1>4, <1>5 DEF TypeOK, InFlightForModeration

(* A cancelled intent of a placed order stays cancelled.                   *)
LEMMA CancelledStays ==
  ASSUME Money_IInv, [Next]_vars, NEW c \in Checkouts,
         order[c] # "none", intent[c] = "canceled"
  PROVE  intent'[c] = "canceled"
<1> USE DEF Money_IInv, TypeOK, stripeVars
<1>1. step[c] = "done"
  BY DEF MoneyInv, RowsMatchCheckouts
<1>2. ASSUME NEW d \in Checkouts,
             \/ ReadListing(d) \/ CheckoutStep(d) \/ CrashCheckout(d)
             \/ Pay(d) \/ PaymentDeclined(d) \/ IntentCanceled(d)
      PROVE  intent'[c] = "canceled"
  BY <1>1, <1>2 DEF ReadListing, CheckoutStep, Claim, CreateIntent, CreateIntentFails,
     InsertOrder, InsertFails, CancelOrphan, ReleaseReservation, CrashCheckout, Pay,
     PaymentDeclined, IntentCanceled
<1>3. ASSUME \/ \E d \in Checkouts : MarkFulfilled(d) \/ ConfirmReceipt(d) \/ RaiseDispute(d)
             \/ \E h \in Handlers :
                  \/ \E e \in sent : Receive(h, e)
                  \/ HookStep(h) \/ CrashHook(h)
             \/ \E e \in unacked : ReceiveNothingToDo(e)
             \/ \E a \in Admins :
                  \/ \E d \in Checkouts, outcome \in {"refunding", "upholding"} :
                       ReadDispute(a, d, outcome)
                  \/ AdminStep(a)
             \/ \E l \in Listings :
                  \/ ReservationExpires(l) \/ Sweep(l)
                  \/ \E t \in ManualTargets : SellerReads(l, t)
                  \/ SellerChecks(l) \/ SellerWrites(l)
             \/ UNCHANGED vars
      PROVE  UNCHANGED intent
  BY <1>3 DEF MarkFulfilled, ConfirmReceipt, RaiseDispute, PartyMoves, OrderUnchanged,
     Receive, HookStep, Settle, CancelUnpaid, RefundLate, RefundLateFails, RecordLateRefund,
     CrashHook, ReceiveNothingToDo, HookUnchanged, ReadDispute, AdminStep, RefundDispute,
     RefundDisputeFails, RecordResolution, ReservationExpires, Sweep, SweepUnchanged,
     SellerReads, SellerChecks, SellerWrites, SellerUnchanged, vars
<1>4. QED
  BY <1>2, <1>3 DEF Next

(* The marketplace takes no listing down and none back.                    *)
LEMMA ModeratedStays == [Next]_vars => UNCHANGED moderated
  BY DEF vars, Next, ReadListing, CheckoutStep, Claim, CreateIntent, CreateIntentFails,
     InsertOrder, InsertFails, CancelOrphan, ReleaseReservation, CrashCheckout, Pay,
     PaymentDeclined, IntentCanceled, StripeUnchanged, MarkFulfilled, ConfirmReceipt,
     RaiseDispute, PartyMoves, OrderUnchanged, Receive, HookStep, Settle, CancelUnpaid,
     RefundLate, RefundLateFails, RecordLateRefund, CrashHook, ReceiveNothingToDo,
     HookUnchanged, ReadDispute, AdminStep, RefundDispute, RefundDisputeFails,
     RecordResolution, ReservationExpires, Sweep, SweepUnchanged, SellerReads,
     SellerChecks, SellerWrites, SellerUnchanged, auxVars

(* So every step of the whole goes forward.                                *)
LEMMA EveryStepOnward ==
  ASSUME IInv, SagaTypeOK, SagaInv, [SagaNext]_sagaAndOrders
  PROVE  Onward
<1>1. TypeOK /\ Money_IInv /\ [Promise!Next]_(Promise!vars)
  BY SagaKeepsOrders DEF IInv, Money_IInv
<1>2. ASSUME NEW c \in Checkouts, order[c] # "none", intent[c] = "canceled"
      PROVE  intent'[c] = "canceled"
  <2>1. CASE OrdersMove \/ UNCHANGED sagaAndOrders
    BY <1>1, <1>2, <2>1, CancelledStays DEF OrdersMove, sagaAndOrders
  <2>2. ASSUME NEW w \in Workers, CallStripe(w) PROVE intent'[c] = "canceled"
    BY <1>1, <1>2, <2>2, StripeCalled DEF TypeOK
  <2>3. ASSUME NEW w \in Workers, WorkerMoves(w), ~CallStripe(w) PROVE UNCHANGED intent
    BY <2>3 DEF WorkerMoves, Reopen, ClaimTasks, MoveOrder, RecordSuccess, TellBuyer,
       TaskFails, DrainEnds, Finalize, Escalate, MarkSettling, MarkListings,
       ReconcileUnchanged, stripeVars, vars
  <2>4. ASSUME NEW w \in Workers,
               \/ \E a \in Actions, l \in Listings : RequestTakedown(w, a, l)
               \/ \E a \in Actions : Retry(w, a)
               \/ WorkerCrash(w)
        PROVE  UNCHANGED intent
    BY <2>4 DEF RequestTakedown, Retry, WorkerCrash, stripeVars, vars
  <2>5. ASSUME \/ \E t \in Tasks : GrowsStale(t)
               \/ \E l \in Listings : Restore(l)
               \/ \E h \in Handlers : WebhookDeadlocks(h)
        PROVE  UNCHANGED intent
    BY <2>5 DEF GrowsStale, Restore, WebhookDeadlocks, HookUnchanged, stripeVars, vars
  <2>6. QED
    BY <1>2, <2>1, <2>2, <2>3, <2>4, <2>5 DEF SagaNext
<1>3. QED
  BY <1>1, <1>2, PromiseForward DEF Onward, Settled

-----------------------------------------------------------------------------
(* The tasks.                                                              *)

(* A step that writes no new task keeps what the tasks say true.           *)
LEMMA TasksStand ==
  ASSUME SagaTypeOK, SagaInv, Onward, UNCHANGED operation,
         \A a \in Actions : actionState[a] # "none" => actionState'[a] # "none",
         \A t \in Tasks :
           /\ taskState'[t] # "none" <=> taskState[t] # "none"
           /\ taskState'[t] = "succeeded" => taskState[t] = "succeeded" \/ Settled(t[2])'
           /\ t \in replays' \ replays =>
                /\ taskState[t] # "none"
                /\ operation[t] = "cancel" => intent'[t[2]] = "canceled"
                /\ operation[t] = "refund" => refund'[t[2]] # "none"
  PROVE  TasksTruthful'
<1> SUFFICES ASSUME NEW a \in Actions, NEW c \in Checkouts, NEW t, t = <<a, c>>, t \in Tasks
             PROVE
    /\ taskState'[t] # "none" =>
         /\ actionState'[a] # "none"
         /\ order'[c] # "none"
         /\ operation'[t] = "refund" => order'[c] # "pending"
    /\ taskState'[t] = "succeeded" => Settled(c)'
    /\ t \in replays' =>
         /\ taskState'[t] # "none"
         /\ operation'[t] = "cancel" => intent'[c] = "canceled"
         /\ operation'[t] = "refund" => refund'[c] # "none"
  BY DEF TasksTruthful, Tasks
<1>1. /\ taskState[t] # "none" =>
           /\ actionState[a] # "none"
           /\ order[c] # "none"
           /\ operation[t] = "refund" => order[c] # "pending"
      /\ taskState[t] = "succeeded" => Settled(c)
      /\ t \in replays =>
           /\ taskState[t] # "none"
           /\ operation[t] = "cancel" => intent[c] = "canceled"
           /\ operation[t] = "refund" => refund[c] # "none"
  BY DEF SagaInv, TasksTruthful
<1>2. QED
  BY <1>1 DEF Onward

(* A takedown writes its tasks for orders in flight, none of them done.    *)
LEMMA TakedownWritesTasks ==
  ASSUME SagaTypeOK, SagaInv, Onward, UNCHANGED order, NEW w \in Workers,
         NEW a \in Actions, NEW l \in Listings, RequestTakedown(w, a, l)
  PROVE  TasksTruthful' /\ FinalizedIsSettled'
<1>1. /\ actionState[a] = "none" /\ actionState' = [actionState EXCEPT ![a] = "requested"]
      /\ taskState' = [t \in Tasks |->
           IF t[1] = a /\ t[2] \in Affected(l) THEN "pending" ELSE taskState[t]]
      /\ operation' = [t \in Tasks |->
           IF t[1] = a /\ t[2] \in Affected(l)
             THEN IF order[t[2]] = "pending" THEN "cancel" ELSE "refund"
             ELSE operation[t]]
      /\ UNCHANGED <<order, intent, refund, replays>>
  BY DEF RequestTakedown, stripeVars
<1>2. \A c \in Affected(l) : order[c] # "none"
  BY DEF Affected, InFlight, InFlightForModeration
<1>3. ASSUME NEW b \in Actions, NEW c \in Checkouts, NEW t, t = <<b, c>>, t \in Tasks
      PROVE
    /\ taskState'[t] # "none" =>
         /\ actionState'[b] # "none"
         /\ order'[c] # "none"
         /\ operation'[t] = "refund" => order'[c] # "pending"
    /\ taskState'[t] = "succeeded" => Settled(c)'
    /\ t \in replays' =>
         /\ taskState'[t] # "none"
         /\ operation'[t] = "cancel" => intent'[c] = "canceled"
         /\ operation'[t] = "refund" => refund'[c] # "none"
    /\ actionState'[b] = "finalized" /\ taskState'[t] # "none" => Settled(c)'
  <2>1. /\ taskState[t] # "none" =>
             /\ actionState[b] # "none"
             /\ order[c] # "none"
             /\ operation[t] = "refund" => order[c] # "pending"
        /\ taskState[t] = "succeeded" => Settled(c)
        /\ t \in replays =>
             /\ taskState[t] # "none"
             /\ operation[t] = "cancel" => intent[c] = "canceled"
             /\ operation[t] = "refund" => refund[c] # "none"
        /\ actionState[b] = "finalized" /\ taskState[t] # "none" => Settled(c)
    BY <1>3 DEF SagaInv, TasksTruthful, FinalizedIsSettled
  <2>2. CASE b = a
    BY <1>1, <1>2, <1>3, <2>1, <2>2 DEF SagaTypeOK
  <2>3. CASE b # a
    BY <1>1, <1>3, <2>1, <2>3 DEF SagaTypeOK, Onward
  <2>4. QED
    BY <2>2, <2>3
<1>4. TasksTruthful'
  BY <1>3 DEF TasksTruthful, Tasks
<1>5. FinalizedIsSettled'
  BY <1>3 DEF FinalizedIsSettled, Tasks
<1>6. QED
  BY <1>4, <1>5

(* Settled stays settled, and nothing is finalized by other steps.         *)
LEMMA FinalStands ==
  ASSUME SagaInv, Onward,
         \A a \in Actions : actionState'[a] = "finalized" => actionState[a] = "finalized",
         \A t \in Tasks : taskState'[t] # "none" => taskState[t] # "none"
  PROVE  FinalizedIsSettled'
<1> SUFFICES ASSUME NEW a \in Actions, NEW c \in Checkouts, NEW t, t = <<a, c>>, t \in Tasks,
                    actionState'[a] = "finalized", taskState'[t] # "none"
             PROVE  Settled(c)'
  BY DEF FinalizedIsSettled, Tasks
<1>1. Settled(c)
  BY DEF SagaInv, FinalizedIsSettled
<1>2. QED
  BY <1>1 DEF Onward

(* Finalize looks at every task of the action.                             *)
LEMMA FinalizeSettled ==
  ASSUME SagaTypeOK, SagaInv, Onward, NEW w \in Workers, Finalize(w)
  PROVE  FinalizedIsSettled'
<1> SUFFICES ASSUME NEW a \in Actions, NEW c \in Checkouts, NEW t, t = <<a, c>>, t \in Tasks,
                    actionState'[a] = "finalized", taskState'[t] # "none"
             PROVE  Settled(c)
  BY DEF FinalizedIsSettled, Tasks, Onward
<1>1. taskState[t] # "none"
  BY DEF Finalize, ReconcileUnchanged, taskVars
<1>2. CASE actionState[a] = "finalized"
  BY <1>1, <1>2 DEF SagaInv, FinalizedIsSettled
<1>3. CASE actionState[a] # "finalized"
  <2>1. taskState[t] = "succeeded"
    BY <1>1, <1>3 DEF Finalize, SetActions, TasksOf
  <2>2. QED
    BY <2>1 DEF SagaInv, TasksTruthful
<1>4. QED
  BY <1>2, <1>3

(* A listing stays covered while its tasks stay unsettled or their orders  *)
(* come to an end; an order placed meanwhile has slipped.                  *)
LEMMA CoverStands ==
  ASSUME SagaTypeOK, SagaInv, Onward, moderated' \subseteq moderated,
         UNCHANGED actionOf, slipped \subseteq slipped',
         \A t \in Tasks :
           Unsettled(t) => Unsettled(t)' \/ order'[t[2]] \notin InFlightForModeration,
         \A c \in Checkouts : ListingOf[c] \in moderated /\ order[c] = "none" /\ order'[c] = "pending"
           => c \in slipped'
  PROVE  TakedownCoversOrders'
<1> SUFFICES ASSUME NEW c \in Checkouts, ListingOf[c] \in moderated', c \notin slipped',
                    order'[c] \in InFlightForModeration
             PROVE  \E a \in Actions : actionOf'[a] = ListingOf[c] /\ Unsettled(<<a, c>>)'
  BY DEF TakedownCoversOrders, InFlight
<1>1. ListingOf[c] \in moderated /\ c \notin slipped /\ order[c] \in InFlightForModeration
  BY DEF Onward
<1>2. PICK a \in Actions : actionOf[a] = ListingOf[c] /\ Unsettled(<<a, c>>)
  BY <1>1 DEF SagaInv, TakedownCoversOrders, InFlight
<1>3. <<a, c>> \in Tasks /\ <<a, c>>[2] = c
  BY DEF Tasks
<1>4. QED
  BY <1>2, <1>3

(* A takedown covers its own listing, and uncovers no other.               *)
LEMMA TakedownCovers ==
  ASSUME SagaTypeOK, SagaInv, NEW w \in Workers, NEW a \in Actions, NEW l \in Listings,
         RequestTakedown(w, a, l)
  PROVE  TakedownCoversOrders'
<1>1. /\ actionState[a] = "none" /\ moderated' = moderated \cup {l}
      /\ actionOf' = [actionOf EXCEPT ![a] = l] /\ slipped' = slipped \ Affected(l)
      /\ taskState' = [t \in Tasks |->
           IF t[1] = a /\ t[2] \in Affected(l) THEN "pending" ELSE taskState[t]]
      /\ UNCHANGED order
  BY DEF RequestTakedown
<1> SUFFICES ASSUME NEW c \in Checkouts, ListingOf[c] \in moderated', c \notin slipped',
                    order[c] \in InFlightForModeration
             PROVE  \E b \in Actions : actionOf'[b] = ListingOf[c] /\ Unsettled(<<b, c>>)'
  BY <1>1 DEF TakedownCoversOrders, InFlight
<1>2. CASE ListingOf[c] = l
  <2>1. c \in Affected(l) /\ <<a, c>> \in Tasks
    BY <1>2 DEF Affected, InFlight, Tasks
  <2>2. taskState'[<<a, c>>] = "pending" /\ actionOf'[a] = l
    BY <1>1, <2>1 DEF SagaTypeOK
  <2>3. QED
    BY <1>2, <2>2 DEF Unsettled
<1>3. CASE ListingOf[c] # l
  <2>1. c \notin Affected(l)
    BY <1>3 DEF Affected, InFlight
  <2>2. PICK b \in Actions : actionOf[b] = ListingOf[c] /\ Unsettled(<<b, c>>)
    BY <1>1, <1>3, <2>1 DEF SagaInv, TakedownCoversOrders, InFlight
  <2>3. <<b, c>> \in Tasks /\ <<b, c>>[1] = b
    BY DEF Tasks
  <2>4. b # a
    BY <1>1, <2>2, <2>3 DEF SagaInv, TasksTruthful, Unsettled
  <2>5. QED
    BY <1>1, <2>2, <2>3, <2>4 DEF Unsettled, SagaTypeOK
<1>4. QED
  BY <1>2, <1>3

-----------------------------------------------------------------------------
(* The requests.                                                           *)

(* What a request that does not move knows and holds.                      *)
LEMMA OthersStand ==
  ASSUME SagaTypeOK, SagaInv, Onward, NEW w \in Workers,
         workerStep'[w] = workerStep[w], workerAction'[w] = workerAction[w],
         todo'[w] = todo[w], row'[w] = row[w], replays \subseteq replays',
         \A t \in Tasks : taskState[t] # "none" => taskState'[t] # "none"
  PROVE  Informed(w)' /\ RowsInOrder(w)'
<1>1. Informed(w) /\ RowsInOrder(w)
  BY DEF SagaInv, WorkersInformed
<1>2. RowsInOrder(w)'
  BY <1>1 DEF RowsInOrder
<1>3. Hand(w)' = Hand(w) /\ TaskAt(w)' = TaskAt(w)
  BY DEF Hand, TaskAt
<1>4. \A c \in Hand(w) : <<workerAction[w], c>> \in Tasks
  BY DEF SagaTypeOK, Hand, Rows, Tasks
<1>5. workerStep[w] \in {"recording", "telling"} => row[w].of \in Checkouts
  BY <1>1 DEF Informed, AtRow, Rows
<1>6. Informed(w)'
  <2>1. \A c \in Hand(w)' : taskState'[<<workerAction'[w], c>>] # "none"
    BY <1>1, <1>3, <1>4 DEF Informed
  <2>2. workerStep'[w] \in {"recording", "telling"} => Settled(row[w].of)'
    BY <1>1, <1>5 DEF Informed, Onward
  <2>3. QED
    BY <1>1, <1>3, <2>1, <2>2 DEF Informed
<1>7. QED
  BY <1>2, <1>6

(* When no hand grows, and no task in it can be claimed, each task stays   *)
(* in one hand.                                                            *)
LEMMA HandsStand ==
  ASSUME SagaInv,
         \A w \in Workers :
           /\ Hand(w)' \subseteq Hand(w)
           /\ workerAction'[w] = workerAction[w] \/ Hand(w) = {}
           /\ ~SlowWorkers => \A c \in Hand(w)' :
                /\ \/ taskState'[<<workerAction'[w], c>>] = taskState[<<workerAction[w], c>>]
                   \/ taskState'[<<workerAction'[w], c>>] = "succeeded"
                /\ <<workerAction[w], c>> \notin stale => <<workerAction'[w], c>> \notin stale'
  PROVE  HandsUnclaimable' /\ OneWorkerPerTask'
<1>1. HandsUnclaimable'
  <2> SUFFICES ASSUME ~SlowWorkers, NEW w \in Workers, NEW c \in Hand(w)'
               PROVE  /\ taskState'[<<workerAction'[w], c>>] \in {"processing", "succeeded"}
                      /\ <<workerAction'[w], c>> \notin stale'
    BY DEF HandsUnclaimable
  <2>1. c \in Hand(w)
    OBVIOUS
  <2>2. taskState[<<workerAction[w], c>>] \in {"processing", "succeeded"}
        /\ <<workerAction[w], c>> \notin stale
    BY <2>1 DEF SagaInv, HandsUnclaimable
  <2>3. QED
    BY <2>2
<1>2. OneWorkerPerTask'
  BY DEF SagaInv, OneWorkerPerTask
<1>3. QED
  BY <1>1, <1>2

(* A request that is not draining has nothing in hand.                     *)
LEMMA EmptyHand ==
  ASSUME SagaInv, NEW w \in Workers, workerStep[w] \notin AtRow \cup {"draining"}
  PROVE  Hand(w) = {} /\ todo[w] = {} /\ row[w] = NoRow
  BY DEF SagaInv, WorkersInformed, RowsInOrder, Hand

(* The part of the worker's step that concerns itself, when its hand stays *)
(* empty.                                                                  *)
LEMMA EmptyHanded ==
  ASSUME SagaTypeOK, NEW w \in Workers, todo'[w] = {}, row'[w] = NoRow, workerStep'[w] \notin AtRow
  PROVE  Informed(w)' /\ RowsInOrder(w)' /\ Hand(w)' = {}
  BY DEF Informed, RowsInOrder, Hand, AtRow

WorkersInv == WorkersInformed /\ HandsUnclaimable /\ OneWorkerPerTask

(* The claim puts its tasks in hand: none was in another's.                *)
LEMMA ClaimKeepsHands ==
  ASSUME SagaTypeOK, SagaInv, Onward, NEW w \in Workers, ClaimTasks(w)
  PROVE  WorkersInv'
<1> USE TakedownAssumption DEF SagaTypeOK
<1> DEFINE a == workerAction[w]
           claimed == {t \in TasksOf(a) : Claimable(t)}
           rows == {[of |-> t[2], attempts |-> attempts[t] + 1] : t \in claimed}
<1>1. /\ UNCHANGED <<replays, workerAction, row>>
      /\ todo' = [todo EXCEPT ![w] = rows]
      /\ workerStep' = [workerStep EXCEPT ![w] = "draining"]
      /\ taskState' = [t \in Tasks |-> IF t \in claimed THEN "processing" ELSE taskState[t]]
      /\ stale' = stale \ claimed
      /\ row[w] = NoRow /\ workerStep[w] = "claiming"
  BY EmptyHand DEF ClaimTasks, WorkerGoto, AtRow
<1>2. \A t \in claimed : t = <<a, t[2]>> /\ t \in Tasks /\ taskState[t] # "none"
                          /\ t[2] \in Checkouts
  BY DEF TasksOf, Tasks
<1>3. rows \subseteq Rows /\ NoRow \notin rows
  <2>1. \A t \in claimed : attempts[t] + 1 \in 1..MaxAttempts
    BY <1>2 DEF Claimable
  <2>2. rows \subseteq Rows
    BY <1>2, <2>1 DEF Rows
  <2>3. QED
    BY <2>2 DEF Rows
<1>4. Hand(w)' = {t[2] : t \in claimed}
  <2>1. todo'[w] = rows /\ row'[w] = NoRow
    BY <1>1
  <2>2. Hand(w)' = {r.of : r \in rows}
    BY <2>1 DEF Hand
  <2>3. {r.of : r \in rows} = {t[2] : t \in claimed}
    <3>1. ASSUME NEW t \in claimed PROVE \E r \in rows : r.of = t[2]
      <4>1. [of |-> t[2], attempts |-> attempts[t] + 1] \in rows
        OBVIOUS
      <4> HIDE DEF rows, claimed
      <4>2. QED
        BY <4>1
    <3>2. \A r \in rows : \E t \in claimed : r.of = t[2]
      OBVIOUS
    <3> HIDE DEF rows, claimed
    <3>3. QED
      BY <3>1, <3>2
  <2>4. QED
    BY <2>2, <2>3
<1>5. \A c \in Hand(w)' : <<a, c>> \in claimed
  BY <1>2, <1>4
<1>6. \A t \in Tasks : taskState[t] # "none" => taskState'[t] # "none"
  BY <1>1
<1>7. ASSUME NEW v \in Workers, v # w
      PROVE  /\ Informed(v)' /\ RowsInOrder(v)' /\ Hand(v)' = Hand(v)
             /\ workerAction'[v] = workerAction[v]
  BY <1>1, <1>6, <1>7, OthersStand DEF Hand
<1>8. Informed(w)'
  <2>1. \A c \in Hand(w)' : taskState'[<<workerAction'[w], c>>] # "none"
    BY <1>1, <1>2, <1>5
  <2>2. QED
    BY <1>1, <2>1 DEF Informed, AtRow
<1>9. RowsInOrder(w)'
  <2>1. \A r, s \in rows : r.of = s.of => r = s
    BY <1>2
  <2>2. todo'[w] = rows /\ row'[w] = NoRow /\ workerStep'[w] = "draining"
    BY <1>1
  <2>3. QED
    BY <1>3, <2>1, <2>2 DEF RowsInOrder, AtRow
<1>10. ASSUME ~SlowWorkers, NEW v \in Workers, v # w, NEW c \in Hand(v)
       PROVE  /\ <<workerAction[v], c>> \notin claimed
              /\ <<workerAction[v], c>> \in Tasks
              /\ taskState[<<workerAction[v], c>>] \in {"processing", "succeeded"}
              /\ <<workerAction[v], c>> \notin stale
  BY <1>10 DEF SagaInv, HandsUnclaimable, Claimable, Hand, Rows, Tasks
<1>11. HandsUnclaimable'
  <2> SUFFICES ASSUME ~SlowWorkers, NEW v \in Workers, NEW c \in Hand(v)'
               PROVE  /\ taskState'[<<workerAction'[v], c>>] \in {"processing", "succeeded"}
                      /\ <<workerAction'[v], c>> \notin stale'
    BY DEF HandsUnclaimable
  <2>1. CASE v = w
    BY <1>1, <1>2, <1>5, <2>1
  <2>2. CASE v # w
    BY <1>1, <1>7, <1>10, <2>2
  <2>3. QED
    BY <2>1, <2>2
<1>12. OneWorkerPerTask'
  <2> SUFFICES ASSUME ~SlowWorkers, NEW u \in Workers, NEW v \in Workers, u # v,
                      workerAction[u] = workerAction[v], NEW c \in Hand(u)', c \in Hand(v)'
               PROVE  FALSE
    BY <1>1 DEF OneWorkerPerTask
  <2>1. CASE u # w /\ v # w
    BY <1>7, <2>1 DEF SagaInv, OneWorkerPerTask
  <2>2. ASSUME NEW x \in Workers, x # w, c \in Hand(x)', c \in Hand(w)', workerAction[x] = a
        PROVE  FALSE
    <3>1. <<workerAction[x], c>> \in claimed
      BY <1>5, <2>2
    <3>2. c \in Hand(x)
      BY <1>7, <2>2
    <3>3. QED
      BY <1>10, <2>2, <3>1, <3>2
  <2>3. QED
    BY <2>1, <2>2
<1>13. QED
  BY <1>7, <1>8, <1>9, <1>11, <1>12 DEF WorkersInv, WorkersInformed

(* Calling Stripe moves a row from the batch to the hand: nothing changes  *)
(* hands.                                                                  *)
LEMMA CallKeepsHands ==
  ASSUME TypeOK, SagaTypeOK, SagaInv, Onward, NEW w \in Workers, CallStripe(w)
  PROVE  WorkersInv' /\ TasksTruthful'
<1> USE TakedownAssumption DEF SagaTypeOK
<1>1. PICK r \in todo[w] :
        /\ row' = [row EXCEPT ![w] = r]
        /\ todo' = [todo EXCEPT ![w] = @ \ {r}]
        /\ \/ /\ StripeDoes(<<workerAction[w], r.of>>)
              /\ \E s \in {"moving", "failing"} : workerStep' = [workerStep EXCEPT ![w] = s]
           \/ /\ UNCHANGED replays
              /\ workerStep' = [workerStep EXCEPT ![w] = "failing"]
  BY DEF CallStripe, WorkerGoto
<1> DEFINE t == <<workerAction[w], r.of>>
<1>2. /\ UNCHANGED <<actionState, operation, taskState, stale, workerAction>>
      /\ workerStep[w] = "draining" /\ row[w] = NoRow /\ r \in Rows /\ r # NoRow
  BY DEF CallStripe, SagaInv, WorkersInformed, RowsInOrder, AtRow, actionVars, taskVars, Rows
<1>3. /\ r.of \in Hand(w) /\ r.of \in Checkouts /\ t \in Tasks /\ t[2] = r.of
  BY <1>2 DEF Hand, Rows, Tasks
<1>4. taskState[t] # "none"
  BY <1>3 DEF SagaInv, WorkersInformed, Informed
<1>5. replays \subseteq replays' /\ replays' \subseteq replays \cup {t}
  BY <1>1 DEF StripeDoes
<1>6. TasksTruthful'
  <2>1. t \in replays' \ replays =>
          /\ operation[t] = "cancel" => intent'[r.of] = "canceled"
          /\ operation[t] = "refund" => refund'[r.of] # "none"
    <3>1. CASE StripeDoes(t)
      <4>1. t \in replays' \ replays =>
              \/ /\ operation[t] = "cancel" /\ intent[r.of] = "open"
                 /\ intent' = [intent EXCEPT ![r.of] = "canceled"]
              \/ /\ operation[t] = "refund" /\ intent[r.of] = "succeeded"
                 /\ refund' = [refund EXCEPT ![r.of] = "takedown"]
        BY <1>3, <3>1 DEF StripeDoes, StripeAccepts
      <4>2. QED
        BY <1>3, <4>1 DEF TypeOK
    <3>2. CASE UNCHANGED replays
      BY <3>2
    <3>3. QED
      BY <1>1, <3>1, <3>2
  <2>2. QED
    BY <1>2, <1>3, <1>4, <1>5, <2>1, TasksStand
<1>7. Hand(w)' = Hand(w)
  <2>1. todo'[w] = todo[w] \ {r} /\ row'[w] = r
    BY <1>1
  <2>2. todo'[w] \cup ({row'[w]} \ {NoRow}) = todo[w] \cup ({row[w]} \ {NoRow})
    BY <1>2, <2>1
  <2>3. QED
    BY <2>2 DEF Hand
<1>8. ASSUME NEW v \in Workers, v # w
      PROVE  Informed(v)' /\ RowsInOrder(v)' /\ Hand(v)' = Hand(v)
  BY <1>1, <1>2, <1>5, <1>8, OthersStand DEF Hand
<1>9. Informed(w)'
  <2>1. \A c \in Hand(w)' : taskState'[<<workerAction'[w], c>>] # "none"
    BY <1>2, <1>7 DEF SagaInv, WorkersInformed, Informed
  <2>2. workerStep'[w] \in {"moving", "failing"} /\ row'[w] = r
    BY <1>1
  <2>3. workerStep'[w] = "moving" => TaskAt(w)' \in replays'
    BY <1>1, <1>2 DEF StripeDoes, TaskAt
  <2>4. QED
    BY <1>2, <2>1, <2>2, <2>3 DEF Informed
<1>10. RowsInOrder(w)'
  <2>1. workerStep'[w] \in {"moving", "failing"} /\ row'[w] = r /\ todo'[w] = todo[w] \ {r}
    BY <1>1
  <2>2. \A x, y \in todo[w] : x.of = y.of => x = y
    BY DEF SagaInv, WorkersInformed, RowsInOrder
  <2>3. QED
    BY <1>2, <2>1, <2>2 DEF RowsInOrder, AtRow
<1>11. HandsUnclaimable' /\ OneWorkerPerTask'
  BY <1>2, <1>7, <1>8, HandsStand
<1>12. QED
  BY <1>6, <1>8, <1>9, <1>10, <1>11 DEF WorkersInv, WorkersInformed

(* What holds of the row a request is at.                                  *)
LEMMA RowInHand ==
  ASSUME SagaTypeOK, SagaInv, NEW w \in Workers, workerStep[w] \in AtRow
  PROVE  /\ row[w] \in Rows /\ row[w].of \in Checkouts /\ row[w].of \in Hand(w)
         /\ TaskAt(w) \in Tasks /\ TaskAt(w)[2] = row[w].of
         /\ taskState[TaskAt(w)] # "none"
<1>1. row[w] \in Rows /\ row[w] # NoRow
  BY TakedownAssumption DEF SagaInv, WorkersInformed, Informed, Rows
<1>2. row[w].of \in Checkouts /\ row[w].of \in Hand(w)
  BY <1>1 DEF Rows, Hand
<1>3. QED
  BY <1>1, <1>2 DEF TaskAt, Tasks, SagaTypeOK, SagaInv, WorkersInformed, Informed

(* The order has come to its end once the request says so.                 *)
LEMMA MoveKeepsSaga ==
  ASSUME TypeOK, SagaTypeOK, SagaInv, Onward, NEW w \in Workers, MoveOrder(w)
  PROVE  SagaInv'
<1> USE DEF SagaTypeOK
<1>1. /\ workerStep[w] = "moving" /\ workerStep[w] \in AtRow
      /\ UNCHANGED <<marker, actionState, actionOf, taskState, operation, attempts, stale,
                     replays, workerAction, todo, row, slipped, intent, refund, moderated>>
      /\ workerStep' \in {[workerStep EXCEPT ![w] = s] : s \in {"recording", "failing"}}
  BY DEF MoveOrder, AtRow, WorkerGoto, actionVars, taskVars, stripeVars, auxVars
<1>2. PICK c \in Checkouts, to \in {"cancelled", "refunded"} :
           /\ UNCHANGED order \/ (Moves(c, to) /\ TransitionOrder(c, to))
  BY OrderMoved
<1>3. \A d \in Checkouts : order[d] = "none" => order'[d] # "pending"
  BY <1>2 DEF TransitionOrder, TypeOK
<1>4. Hand(w)' = Hand(w) /\ TaskAt(w)' = TaskAt(w)
  BY <1>1 DEF Hand, TaskAt
<1>5. workerStep'[w] = "recording" => Settled(row[w].of)'
  <2> DEFINE t == TaskAt(w)
  <2>1. t \in Tasks /\ t[2] = row[w].of /\ row[w].of \in Checkouts /\ t \in replays
    BY <1>1, RowInHand DEF SagaInv, WorkersInformed, Informed
  <2>2. /\ operation[t] = "cancel" => intent[row[w].of] = "canceled"
        /\ operation[t] = "refund" => refund[row[w].of] # "none"
        /\ operation[t] \in {"cancel", "refund"}
    BY <2>1 DEF SagaInv, TasksTruthful
  <2>3. workerStep'[w] = "recording" => order'[row[w].of] = Target(t)
    BY <2>1 DEF MoveOrder, WorkerGoto, TransitionOrder, TypeOK
  <2>4. QED
    BY <1>1, <2>2, <2>3 DEF Settled, Target
<1>6. Informed(w)' /\ RowsInOrder(w)'
  <2>1. Informed(w) /\ RowsInOrder(w) /\ workerStep'[w] \in {"recording", "failing"}
    BY <1>1 DEF SagaInv, WorkersInformed
  <2>2. Informed(w)'
    BY <1>1, <1>4, <1>5, <2>1 DEF Informed, AtRow
  <2>3. RowsInOrder(w)'
    BY <1>1, <2>1 DEF RowsInOrder, AtRow
  <2>4. QED
    BY <2>2, <2>3
<1>7. ASSUME NEW v \in Workers, v # w
      PROVE  Informed(v)' /\ RowsInOrder(v)' /\ Hand(v)' = Hand(v)
  BY <1>1, <1>7, OthersStand DEF Hand
<1>8. HandsUnclaimable' /\ OneWorkerPerTask'
  BY <1>1, <1>4, <1>7, HandsStand
<1>9. TasksTruthful' /\ FinalizedIsSettled'
  BY <1>1, TasksStand, FinalStands
<1>10. TakedownCoversOrders'
  BY <1>1, <1>3, CoverStands DEF Unsettled
<1>11. QED
  BY <1>6, <1>7, <1>8, <1>9, <1>10 DEF SagaInv, WorkersInformed

(* Success is recorded of a settled order.                                 *)
LEMMA RecordKeepsSaga ==
  ASSUME SagaTypeOK, SagaInv, Onward, NEW w \in Workers, RecordSuccess(w)
  PROVE  SagaInv'
<1> USE DEF SagaTypeOK
<1>1. /\ workerStep[w] = "recording" /\ workerStep[w] \in AtRow
      /\ UNCHANGED <<marker, actionState, actionOf, operation, attempts, stale,
                     replays, workerAction, todo, row, slipped, order, intent, refund, moderated>>
      /\ workerStep' \in {[workerStep EXCEPT ![w] = s] : s \in {"telling", "failing"}}
      /\ taskState' \in {taskState, [taskState EXCEPT ![TaskAt(w)] = "succeeded"]}
  BY DEF RecordSuccess, AtRow, WorkerGoto, actionVars, vars
<1>2. /\ TaskAt(w) \in Tasks /\ TaskAt(w)[2] = row[w].of /\ row[w].of \in Checkouts
      /\ taskState[TaskAt(w)] # "none"
      /\ Settled(row[w].of) /\ Settled(row[w].of)'
  BY <1>1, RowInHand DEF SagaInv, WorkersInformed, Informed, Onward
<1>3. Hand(w)' = Hand(w) /\ TaskAt(w)' = TaskAt(w)
  BY <1>1 DEF Hand, TaskAt
<1>4. \A t \in Tasks :
        /\ taskState'[t] # "none" <=> taskState[t] # "none"
        /\ taskState'[t] = taskState[t] \/ (taskState'[t] = "succeeded" /\ t = TaskAt(w))
  BY <1>1, <1>2
<1>5. ASSUME NEW v \in Workers, v # w
      PROVE  Informed(v)' /\ RowsInOrder(v)' /\ Hand(v)' = Hand(v)
  BY <1>1, <1>4, <1>5, OthersStand DEF Hand
<1>6. \A v \in Workers : \A c \in Hand(v) : <<workerAction[v], c>> \in Tasks
  BY DEF Hand, Rows, Tasks
<1>7. Informed(w)' /\ RowsInOrder(w)'
  <2>1. Informed(w) /\ RowsInOrder(w) /\ workerStep'[w] \in {"telling", "failing"}
    BY <1>1 DEF SagaInv, WorkersInformed
  <2>2. Informed(w)'
    BY <1>1, <1>2, <1>3, <1>4, <1>6, <2>1 DEF Informed, AtRow
  <2>3. RowsInOrder(w)'
    BY <1>1, <2>1 DEF RowsInOrder, AtRow
  <2>4. QED
    BY <2>2, <2>3
<1>8. HandsUnclaimable' /\ OneWorkerPerTask'
  BY <1>1, <1>3, <1>4, <1>5, <1>6, HandsStand
<1>9. TasksTruthful' /\ FinalizedIsSettled'
  BY <1>1, <1>2, <1>4, TasksStand, FinalStands
<1>10. TakedownCoversOrders'
  BY <1>1, <1>2, <1>4, CoverStands DEF Unsettled, Settled, InFlightForModeration
<1>11. QED
  BY <1>5, <1>7, <1>8, <1>9, <1>10 DEF SagaInv, WorkersInformed

(* A request lets go of its row: told, or failed.                          *)
LEMMA ReleaseKeepsSaga ==
  ASSUME SagaTypeOK, SagaInv, Onward, NEW w \in Workers, TellBuyer(w) \/ TaskFails(w)
  PROVE  SagaInv'
<1> USE DEF SagaTypeOK
<1>1. /\ workerStep[w] \in AtRow
      /\ UNCHANGED <<marker, actionState, actionOf, operation, attempts, stale,
                     replays, workerAction, todo, slipped, order, intent, refund, moderated>>
      /\ \/ /\ workerStep' = [workerStep EXCEPT ![w] = "draining"]
            /\ row' = [row EXCEPT ![w] = NoRow]
            /\ taskState' \in {[taskState EXCEPT ![TaskAt(w)] = s] : s \in {"pending", "failed"}}
                                \cup {taskState}
         \/ /\ workerStep' = [workerStep EXCEPT ![w] = "failing"]
            /\ UNCHANGED <<row, taskState>>
  BY DEF TellBuyer, TaskFails, AtRow, WorkerGoto, actionVars, taskVars, vars
<1>2. /\ TaskAt(w) \in Tasks /\ row[w].of \in Checkouts /\ row[w] \in Rows
      /\ taskState[TaskAt(w)] # "none" /\ row[w].of \in Hand(w) /\ row[w] # NoRow
  BY <1>1, RowInHand, TakedownAssumption DEF Rows
<1>3. \A t \in Tasks :
        /\ taskState'[t] # "none" <=> taskState[t] # "none"
        /\ \/ taskState'[t] = taskState[t]
           \/ taskState'[t] \in {"pending", "failed"} /\ t = TaskAt(w) /\ row'[w] = NoRow
  BY <1>1, <1>2
<1>4. Hand(w)' = IF row'[w] = NoRow THEN Hand(w) \ {row[w].of} ELSE Hand(w)
  <2>1. CASE row'[w] = row[w]
    BY <1>1, <1>2, <2>1 DEF Hand
  <2>2. CASE row'[w] = NoRow
    <3>1. todo'[w] = todo[w] /\ Hand(w)' = {r.of : r \in todo[w]}
      BY <1>1, <2>2 DEF Hand
    <3>2. \A r \in todo[w] : r.of # row[w].of
      BY <1>2 DEF SagaInv, WorkersInformed, RowsInOrder
    <3>3. Hand(w) = {r.of : r \in todo[w]} \cup {row[w].of}
      BY <1>2 DEF Hand
    <3>4. QED
      BY <2>2, <3>1, <3>2, <3>3
  <2>3. QED
    BY <1>1, <2>1, <2>2
<1>5. ASSUME NEW v \in Workers, v # w
      PROVE  Informed(v)' /\ RowsInOrder(v)' /\ Hand(v)' = Hand(v)
  <2>1. workerStep'[v] = workerStep[v] /\ row'[v] = row[v]
    BY <1>1, <1>5
  <2>2. QED
    BY <1>1, <1>3, <2>1, OthersStand DEF Hand
<1>6. \A v \in Workers : \A c \in Hand(v) : <<workerAction[v], c>> \in Tasks
  BY DEF Hand, Rows, Tasks
<1>7. Informed(w)' /\ RowsInOrder(w)'
  <2>1. /\ Informed(w) /\ RowsInOrder(w)
        /\ \/ workerStep'[w] = "draining" /\ row'[w] = NoRow
           \/ workerStep'[w] = "failing" /\ row'[w] = row[w]
    BY <1>1 DEF SagaInv, WorkersInformed
  <2>2. Informed(w)'
    BY <1>1, <1>2, <1>3, <1>4, <1>6, <2>1 DEF Informed, AtRow
  <2>3. NoRow \notin todo[w]
    BY TakedownAssumption DEF Rows
  <2>4. RowsInOrder(w)'
    BY <1>1, <2>1, <2>3 DEF RowsInOrder, AtRow
  <2>5. QED
    BY <2>2, <2>4
<1>8. HandsUnclaimable' /\ OneWorkerPerTask'
  <2>1. ASSUME ~SlowWorkers, NEW v \in Workers, NEW c \in Hand(v)'
        PROVE  taskState'[<<workerAction[v], c>>] = taskState[<<workerAction[v], c>>]
    <3>1. CASE row'[w] # NoRow
      BY <1>3, <1>4, <1>5, <1>6, <2>1, <3>1
    <3>2. CASE v = w /\ row'[w] = NoRow
      BY <1>3, <1>4, <1>6, <2>1, <3>2 DEF TaskAt
    <3>3. CASE v # w /\ row'[w] = NoRow
      <4>1. c \in Hand(v) /\ (workerAction[v] = workerAction[w] => c \notin Hand(w))
        BY <1>5, <2>1, <3>3 DEF SagaInv, OneWorkerPerTask
      <4>2. <<workerAction[v], c>> # TaskAt(w)
        BY <1>2, <4>1 DEF TaskAt
      <4>3. QED
        BY <1>3, <1>6, <4>1, <4>2
    <3>4. QED
      BY <3>1, <3>2, <3>3
  <2>2. QED
    BY <1>1, <1>4, <1>5, <2>1, HandsStand
<1>9. TasksTruthful' /\ FinalizedIsSettled'
  BY <1>1, <1>3, TasksStand, FinalStands
<1>10. TakedownCoversOrders'
  BY <1>1, <1>3, CoverStands DEF Unsettled
<1>11. QED
  BY <1>5, <1>7, <1>8, <1>9, <1>10 DEF SagaInv, WorkersInformed

(* A request without rows moves, or drops the rows it has.                 *)
LEMMA EmptyHandedMoves ==
  ASSUME SagaTypeOK, SagaInv, Onward, NEW w \in Workers,
         \A v \in Workers : v # w =>
           /\ workerStep'[v] = workerStep[v] /\ workerAction'[v] = workerAction[v]
           /\ todo'[v] = todo[v] /\ row'[v] = row[v],
         todo'[w] = {}, row'[w] = NoRow, workerStep'[w] \notin AtRow,
         workerAction'[w] = workerAction[w] \/ Hand(w) = {},
         UNCHANGED <<replays, stale>>,
         \A t \in Tasks :
           /\ taskState[t] # "none" => taskState'[t] # "none"
           /\ taskState[t] \in {"processing", "succeeded"} => taskState'[t] = taskState[t]
  PROVE  WorkersInv'
<1>1. Informed(w)' /\ RowsInOrder(w)' /\ Hand(w)' = {}
  BY EmptyHanded
<1>2. ASSUME NEW v \in Workers, v # w
      PROVE  Informed(v)' /\ RowsInOrder(v)' /\ Hand(v)' = Hand(v)
             /\ workerAction'[v] = workerAction[v]
  BY <1>2, OthersStand DEF Hand
<1>3. \A v \in Workers : \A c \in Hand(v) : <<workerAction[v], c>> \in Tasks
  BY DEF SagaTypeOK, Hand, Rows, Tasks
<1>4. ASSUME ~SlowWorkers, NEW v \in Workers, NEW c \in Hand(v)'
      PROVE  /\ taskState'[<<workerAction'[v], c>>] = taskState[<<workerAction[v], c>>]
             /\ workerAction'[v] = workerAction[v]
  <2>1. v # w /\ c \in Hand(v) /\ workerAction'[v] = workerAction[v]
    BY <1>1, <1>2, <1>4
  <2>2. taskState[<<workerAction[v], c>>] \in {"processing", "succeeded"}
    BY <1>4, <2>1 DEF SagaInv, HandsUnclaimable
  <2>3. QED
    BY <1>3, <2>1, <2>2
<1>5. HandsUnclaimable' /\ OneWorkerPerTask'
  BY <1>1, <1>2, <1>4, HandsStand
<1>6. QED
  BY <1>1, <1>2, <1>5 DEF WorkersInv, WorkersInformed

(* Opening a takedown: its tasks are new, so in nobody's hand.             *)
LEMMA RequestKeepsSaga ==
  ASSUME TypeOK, SagaTypeOK, SagaInv, Onward, NEW w \in Workers, NEW a \in Actions,
         NEW l \in Listings, RequestTakedown(w, a, l)
  PROVE  SagaInv'
<1>1. Hand(w) = {} /\ todo[w] = {} /\ row[w] = NoRow
  BY EmptyHand DEF RequestTakedown, AtRow
<1>2. /\ UNCHANGED <<order, todo, row, replays, stale>>
      /\ workerStep' = [workerStep EXCEPT ![w] = "claiming"]
      /\ workerAction' = [workerAction EXCEPT ![w] = a]
      /\ actionState[a] = "none"
      /\ taskState' = [t \in Tasks |->
           IF t[1] = a /\ t[2] \in Affected(l) THEN "pending" ELSE taskState[t]]
  BY DEF RequestTakedown, WorkerGoto
<1>3. \A t \in Tasks : taskState[t] # "none" => t[1] # a
  BY <1>2 DEF SagaInv, TasksTruthful
<1>4. \A t \in Tasks :
        /\ taskState[t] # "none" => taskState'[t] # "none"
        /\ taskState[t] \in {"processing", "succeeded"} => taskState'[t] = taskState[t]
  BY <1>2, <1>3
<1>5. WorkersInv'
  BY <1>1, <1>2, <1>4, EmptyHandedMoves DEF SagaTypeOK, AtRow
<1>6. QED
  BY <1>2, <1>5, TakedownWritesTasks, TakedownCovers DEF SagaInv, WorkersInv

(* The steps of a request between its drains, and its death.               *)
LEMMA QuietRequestKeepsSaga ==
  ASSUME SagaTypeOK, SagaInv, Onward, NEW w \in Workers,
         \/ DrainEnds(w) \/ Finalize(w) \/ Escalate(w) \/ MarkSettling(w)
         \/ MarkListings(w) \/ Reopen(w) \/ WorkerCrash(w)
  PROVE  SagaInv'
<1> USE DEF SagaTypeOK
<1>1. /\ UNCHANGED <<actionOf, taskState, operation, stale, replays, workerAction, slipped,
                     order, moderated>>
      /\ \E s \in WorkerSteps \ AtRow : workerStep' = [workerStep EXCEPT ![w] = s]
      /\ \/ UNCHANGED <<todo, row>> /\ workerStep[w] \notin AtRow \cup {"draining"}
         \/ UNCHANGED <<todo, row>> /\ workerStep[w] = "draining" /\ todo[w] = {}
         \/ /\ todo' = [todo EXCEPT ![w] = {}]
            /\ row' = [row EXCEPT ![w] = NoRow]
  BY DEF DrainEnds, Finalize, Escalate, MarkSettling, MarkListings, Reopen, WorkerCrash,
     ReconcileUnchanged, WorkerGoto, WorkerSteps, AtRow, actionVars, taskVars, vars
<1>2. todo'[w] = {} /\ row'[w] = NoRow /\ workerStep'[w] \notin AtRow
  <2>1. workerStep[w] \notin AtRow => row[w] = NoRow
    BY DEF SagaInv, WorkersInformed, RowsInOrder
  <2>2. workerStep[w] \notin AtRow \cup {"draining"} => todo[w] = {}
    BY DEF SagaInv, WorkersInformed, RowsInOrder
  <2>3. "draining" \notin AtRow
    BY DEF AtRow
  <2>4. QED
    BY <1>1, <2>1, <2>2, <2>3
<1>3. WorkersInv'
  <2>1. \A v \in Workers : v # w =>
          /\ workerStep'[v] = workerStep[v] /\ workerAction'[v] = workerAction[v]
          /\ todo'[v] = todo[v] /\ row'[v] = row[v]
    BY <1>1
  <2>2. QED
    BY <1>1, <1>2, <2>1, EmptyHandedMoves
<1>4. \A a \in Actions :
        /\ actionState[a] # "none" => actionState'[a] # "none"
        /\ ~Finalize(w) => (actionState'[a] = "finalized" => actionState[a] = "finalized")
  BY DEF DrainEnds, Finalize, Escalate, MarkSettling, MarkListings, Reopen, WorkerCrash,
     ReconcileUnchanged, SetActions, actionVars
<1>5. TasksTruthful'
  BY <1>1, <1>4, TasksStand
<1>6. FinalizedIsSettled'
  BY <1>1, <1>4, FinalStands, FinalizeSettled
<1>7. TakedownCoversOrders'
  BY <1>1, CoverStands DEF Unsettled
<1>8. QED
  BY <1>3, <1>5, <1>6, <1>7 DEF SagaInv, WorkersInv

(* A retry reopens failed tasks: nobody who is in time holds one.          *)
LEMMA RetryKeepsSaga ==
  ASSUME SagaTypeOK, SagaInv, Onward, NEW w \in Workers, NEW a \in Actions, Retry(w, a)
  PROVE  SagaInv'
<1> USE DEF SagaTypeOK
<1>1. Hand(w) = {} /\ todo[w] = {} /\ row[w] = NoRow
  BY EmptyHand DEF Retry, AtRow
<1>2. /\ UNCHANGED <<actionState, actionOf, operation, stale, replays, todo, row, slipped,
                     order, moderated>>
      /\ workerStep' = [workerStep EXCEPT ![w] = "reopening"]
      /\ workerAction' = [workerAction EXCEPT ![w] = a]
      /\ \A t \in Tasks :
           \/ taskState'[t] = taskState[t]
           \/ taskState[t] = "failed" /\ taskState'[t] = "pending"
  BY DEF Retry, WorkerGoto, actionVars, vars
<1>3. WorkersInv'
  <2>1. /\ \A v \in Workers : v # w =>
             /\ workerStep'[v] = workerStep[v] /\ workerAction'[v] = workerAction[v]
             /\ todo'[v] = todo[v] /\ row'[v] = row[v]
        /\ todo'[w] = {} /\ row'[w] = NoRow /\ workerStep'[w] \notin AtRow
    BY <1>1, <1>2 DEF AtRow
  <2>2. \A t \in Tasks :
          /\ taskState[t] # "none" => taskState'[t] # "none"
          /\ taskState[t] \in {"processing", "succeeded"} => taskState'[t] = taskState[t]
    BY <1>2
  <2>3. QED
    BY <1>1, <1>2, <2>1, <2>2, EmptyHandedMoves
<1>4. TasksTruthful' /\ FinalizedIsSettled'
  <2>1. \A t \in Tasks :
          /\ taskState'[t] # "none" <=> taskState[t] # "none"
          /\ taskState'[t] = "succeeded" => taskState[t] = "succeeded"
    BY <1>2
  <2>2. QED
    BY <1>2, <2>1, TasksStand, FinalStands
<1>5. TakedownCoversOrders'
  <2>1. \A t \in Tasks : Unsettled(t) => Unsettled(t)'
    BY <1>2 DEF Unsettled
  <2>2. QED
    BY <1>2, <2>1, CoverStands
<1>6. QED
  BY <1>3, <1>4, <1>5 DEF SagaInv, WorkersInv

(* A claim disturbs no task's end.                                         *)
LEMMA ClaimKeepsSaga ==
  ASSUME SagaTypeOK, SagaInv, Onward, NEW w \in Workers, ClaimTasks(w)
  PROVE  SagaInv'
<1>1. /\ UNCHANGED <<actionState, actionOf, operation, replays, slipped, order, moderated>>
      /\ \A t \in Tasks :
           \/ taskState'[t] = taskState[t]
           \/ taskState[t] \in {"pending", "processing"} /\ taskState'[t] = "processing"
  BY DEF ClaimTasks, Claimable, actionVars, vars
<1>2. \A t \in Tasks :
        /\ taskState'[t] # "none" <=> taskState[t] # "none"
        /\ taskState'[t] = "succeeded" => taskState[t] = "succeeded"
        /\ Unsettled(t) => Unsettled(t)'
  BY <1>1 DEF Unsettled
<1>3. TasksTruthful' /\ FinalizedIsSettled' /\ TakedownCoversOrders'
  BY <1>1, <1>2, TasksStand, FinalStands, CoverStands
<1>4. QED
  BY <1>3, ClaimKeepsHands DEF SagaInv, WorkersInv

(* Nor does a call to Stripe.                                              *)
LEMMA CallKeepsSaga ==
  ASSUME TypeOK, SagaTypeOK, SagaInv, Onward, NEW w \in Workers, CallStripe(w)
  PROVE  SagaInv'
<1>1. UNCHANGED <<actionState, actionOf, taskState, slipped, order, moderated>>
  BY DEF CallStripe, actionVars, taskVars, auxVars
<1>2. FinalizedIsSettled' /\ TakedownCoversOrders'
  BY <1>1, FinalStands, CoverStands DEF Unsettled
<1>3. QED
  BY <1>2, CallKeepsHands DEF SagaInv, WorkersInv

(* Steps no request takes: the marketplace's, time's, a moderator's        *)
(* restore and the database's abort of a webhook.                          *)
LEMMA NoRequestMovesKeepsSaga ==
  ASSUME SagaTypeOK, SagaInv, Onward,
         \/ OrdersMove
         \/ \E t \in Tasks : GrowsStale(t)
         \/ \E l \in Listings : Restore(l)
         \/ \E h \in Handlers : WebhookDeadlocks(h)
         \/ UNCHANGED sagaAndOrders
  PROVE  SagaInv'
<1> USE DEF SagaTypeOK
<1>1. /\ UNCHANGED <<actionState, actionOf, taskState, operation, replays, workerStep,
                     workerAction, todo, row>>
      /\ moderated' \subseteq moderated /\ slipped \subseteq slipped'
  BY ModeratedStays DEF OrdersMove, GrowsStale, Restore, WebhookDeadlocks, HookUnchanged,
     sagaAndOrders, sagaVars, actionVars, workerVars, vars
<1>2. stale' = stale \/ \E t \in Tasks : (SlowWorkers \/ ~InHand(t)) /\ stale' = stale \cup {t}
  BY DEF OrdersMove, GrowsStale, Restore, WebhookDeadlocks, sagaAndOrders, sagaVars
<1>3. \A c \in Checkouts : ListingOf[c] \in moderated /\ order[c] = "none" /\ order'[c] = "pending"
        => c \in slipped'
  BY DEF OrdersMove, GrowsStale, Restore, WebhookDeadlocks, sagaAndOrders, vars
<1>4. WorkersInformed' /\ \A w \in Workers : Hand(w)' = Hand(w)
  BY <1>1, OthersStand DEF WorkersInformed, Hand
<1>5. HandsUnclaimable' /\ OneWorkerPerTask'
  <2>1. ~SlowWorkers => \A w \in Workers : \A c \in Hand(w) :
          <<workerAction[w], c>> \notin stale => <<workerAction[w], c>> \notin stale'
    BY <1>2 DEF InHand
  <2>2. QED
    BY <1>1, <1>4, <2>1, HandsStand
<1>6. TasksTruthful' /\ FinalizedIsSettled' /\ TakedownCoversOrders'
  BY <1>1, <1>3, TasksStand, FinalStands, CoverStands DEF Unsettled
<1>7. QED
  BY <1>4, <1>5, <1>6 DEF SagaInv

-----------------------------------------------------------------------------
(* The theorems.                                                           *)

(* Before the first takedown there is nothing to be wrong.                 *)
LEMMA SagaInvInit == Init /\ SagaInit => SagaInv
<1> SUFFICES ASSUME Init, SagaInit PROVE SagaInv
  OBVIOUS
<1>1. \A w \in Workers : Hand(w) = {} /\ Informed(w) /\ RowsInOrder(w)
  BY DEF SagaInit, Hand, Informed, RowsInOrder, AtRow
<1>2. TasksTruthful /\ FinalizedIsSettled
  BY DEF SagaInit, TasksTruthful, FinalizedIsSettled, Tasks
<1>3. HandsUnclaimable /\ OneWorkerPerTask
  BY <1>1 DEF HandsUnclaimable, OneWorkerPerTask
<1>4. TakedownCoversOrders
  BY DEF Init, TakedownCoversOrders
<1>5. QED
  BY <1>1, <1>2, <1>3, <1>4 DEF SagaInv, WorkersInformed

(* Each step of the whole keeps the invariants of both.                    *)
LEMMA WholeStep ==
  ASSUME IInv, SagaTypeOK, SagaInv, [SagaNext]_sagaAndOrders
  PROVE  IInv' /\ SagaTypeOK' /\ SagaInv'
<1>1. TypeOK /\ Onward
  BY EveryStepOnward DEF IInv
<1>2. IInv' /\ SagaTypeOK'
  BY <1>1, SagaKeepsOrders, SagaTypeStep
<1>3. SagaInv'
  BY <1>1, RequestKeepsSaga, RetryKeepsSaga, QuietRequestKeepsSaga, ClaimKeepsSaga,
     CallKeepsSaga, MoveKeepsSaga, RecordKeepsSaga, ReleaseKeepsSaga,
     NoRequestMovesKeepsSaga DEF SagaNext, WorkerMoves
<1>4. QED
  BY <1>2, <1>3

(* The inductive invariant of a takedown: what its tasks, its requests and *)
(* its listing's marker say of the orders and of Stripe is so, beside      *)
(* everything Orders keeps.                                                *)
THEOREM SagaInvariant == SagaSpec => [](IInv /\ SagaTypeOK /\ SagaInv)
<1>1. Init /\ SagaInit => IInv /\ SagaTypeOK /\ SagaInv
  BY SagaTypeInit, SagaInvInit, MoneyInit, PendingInit, HoldingInit DEF IInv, Money_IInv
<1>2. QED
  BY <1>1, WholeStep, PTL DEF SagaSpec

(* The tables of moderation_actions and moderation_refund_tasks, and the   *)
(* requests' places in drainTasks, have their types.                       *)
THEOREM SagaTypeCorrect == SagaSpec => []SagaTypeOK
  BY SagaInvariant, PTL

(* requestTakedown's transaction and the retries forget no buyer: an order *)
(* in flight on a hidden listing has an unsettled task, unless it was      *)
(* placed after the listing was hidden.                                    *)
THEOREM NoBuyerForgotten == SagaSpec => []TakedownCoversOrders
<1>1. SagaInv => TakedownCoversOrders
  BY DEF SagaInv
<1>2. QED
  BY <1>1, SagaInvariant, PTL

(* reconcileActionStates finalizes only an action whose every order is     *)
(* over with its buyer's money never taken or gone back.                   *)
THEOREM FinalizedSettled == SagaSpec => []FinalizedIsSettled
<1>1. SagaInv => FinalizedIsSettled
  BY DEF SagaInv
<1>2. QED
  BY <1>1, SagaInvariant, PTL

(* drainTasks' claim gives a task to one request at a time, provided none  *)
(* outlasts STALE_PROCESSING_MINUTES.                                      *)
THEOREM OneHand == SagaSpec => []OneWorkerPerTask
<1>1. SagaInv => OneWorkerPerTask
  BY DEF SagaInv
<1>2. QED
  BY <1>1, SagaInvariant, PTL

(* executeTask's cancellations, refunds and transitions disturb nothing    *)
(* checkout, the webhooks, the administrators and the sellers rely on.     *)
THEOREM OrdersSurvive == SagaSpec => []OrdersStillSound
<1>1. IInv => OrdersStillSound
  BY DEF OrdersStillSound
<1>2. QED
  BY <1>1, SagaInvariant, PTL

(* With takedowns beside it the marketplace still implements the promise   *)
(* of OrderPromise to each buyer.                                          *)
THEOREM PromiseSurvives == SagaSpec => PromiseStillKept
<1>1. Init => Promise!Init
  BY DEF Init, Promise!Init, Money
<1>2. QED
  BY <1>1, SagaInvariant, SagaKeepsOrders, PTL
     DEF SagaSpec, PromiseStillKept, PromiseKept, Promise!Spec
=============================================================================
