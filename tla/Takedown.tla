------------------------------ MODULE Takedown ------------------------------
(***************************************************************************)
(* A moderator takes a listing down (services/moderationSagaService.js,    *)
(* takeDownListing and restoreListing of services/moderationService.js):   *)
(* one transaction hides the listing and writes a task per order in        *)
(* flight, then the request itself drains the tasks against Stripe.        *)
(*                                                                         *)
(* The saga runs beside everything in Orders and shares the listing, the   *)
(* orders with their row locks, and Stripe.  Nothing calls drainTasks      *)
(* periodically: only takedown and retry requests, here the Workers, do.   *)
(***************************************************************************)
EXTENDS Orders

CONSTANTS
  Actions,          \* rows of moderation_actions there may be
  Workers,          \* takedown and retry requests in progress at once
  MaxAttempts,      \* MAX_ATTEMPTS
  SlowWorkers,      \* may a request outlast STALE_PROCESSING_MINUTES?
  NoRow

ASSUME TakedownAssumption ==
  /\ MaxAttempts \in Nat \ {0}
  /\ SlowWorkers \in BOOLEAN
  /\ NoRow \notin [of : Checkouts, attempts : 1..MaxAttempts]

VARIABLES
  marker,           \* moderation_state of a listing
  actionState, actionOf,
  \* moderation_refund_tasks, one row per action and order
  taskState, operation, attempts,
  stale,            \* tasks that started longer ago than the limit
  replays,          \* tasks whose idempotency key Stripe has honoured
  \* requests draining an action's tasks
  workerStep, workerAction,
  todo,             \* rows the claim returned and the loop has not reached
  row,              \* the row the loop is at
  \* observer, read by properties only
  slipped           \* orders placed on a listing already taken down

actionVars == <<marker, actionState, actionOf>>
taskVars   == <<taskState, operation, attempts, stale>>
workerVars == <<workerStep, workerAction, todo, row>>

sagaVars == <<marker, actionState, actionOf, taskState, operation, attempts,
              stale, replays, workerStep, workerAction, todo, row>>
sagaAndOrders == <<vars, sagaVars, slipped>>

Tasks == Actions \X Checkouts
Rows  == [of : Checkouts, attempts : 1..MaxAttempts]

AtRow       == {"moving", "recording", "telling", "failing"}
WorkerSteps == AtRow \cup {"idle", "reopening", "claiming", "draining",
                           "finalizing", "escalating", "settling", "marking"}

TasksOf(a)   == {t \in Tasks : t[1] = a /\ taskState[t] # "none"}
TaskAt(w)    == <<workerAction[w], row[w].of>>
Unsettled(t) == taskState[t] \notin {"none", "succeeded"}
InFlight(l)  == {c \in Checkouts : ListingOf[c] = l /\ order[c] \in InFlightForModeration}

(* Mutant: only orders that are paid for are affected. *)
AffectedPaid(l) == {c \in InFlight(l) : order[c] # "pending"}

(* The orders a takedown of the listing has to resolve. *)
Affected(l) == InFlight(l)

-----------------------------------------------------------------------------
WorkerGoto(w, s) == workerStep' = [workerStep EXCEPT ![w] = s]

SagaInit ==
  /\ marker = [l \in Listings |-> "none"]
  /\ actionState = [a \in Actions |-> "none"]
  /\ actionOf \in [Actions -> Listings]
  /\ taskState = [t \in Tasks |-> "none"]
  /\ operation = [t \in Tasks |-> "cancel"]
  /\ attempts = [t \in Tasks |-> 0]
  /\ stale = {} /\ replays = {} /\ slipped = {}
  /\ workerStep = [w \in Workers |-> "idle"]
  /\ workerAction \in [Workers -> Actions]
  /\ todo = [w \in Workers |-> {}]
  /\ row = [w \in Workers |-> NoRow]

(* requestTakedown: hide the listing, record the action and a task for     *)
(* each order in flight, all or nothing; the orders' row locks are waited  *)
(* for.  Money not captured is to be cancelled, captured money refunded.   *)
RequestTakedown(w, a, l) ==
  /\ workerStep[w] = "idle"
  /\ actionState[a] = "none"
  /\ l \notin moderated
  /\ \A c \in Affected(l) : ~Locked(c)
  /\ moderated' = moderated \cup {l}
  /\ marker' = [marker EXCEPT ![l] = "pending"]
  /\ actionState' = [actionState EXCEPT ![a] = "requested"]
  /\ actionOf' = [actionOf EXCEPT ![a] = l]
  /\ taskState' = [t \in Tasks |->
       IF t[1] = a /\ t[2] \in Affected(l) THEN "pending" ELSE taskState[t]]
  /\ operation' = [t \in Tasks |->
       IF t[1] = a /\ t[2] \in Affected(l)
         THEN IF order[t[2]] = "pending" THEN "cancel" ELSE "refund"
         ELSE operation[t]]
  /\ slipped' = slipped \ Affected(l)
  /\ WorkerGoto(w, "claiming")
  /\ workerAction' = [workerAction EXCEPT ![w] = a]
  /\ UNCHANGED <<attempts, stale, replays, todo, row, listingVars, step, order,
                 stripeVars, eventVars, hookVars, adminVars, sellerVars,
                 crashes, raced, dropped>>

(* The takedown holds the listing's row and wants the order's, a webhook   *)
(* holds the order's and wants the listing's: PostgreSQL aborts one of the *)
(* two.  The takedown's abort changes nothing; the webhook's is this.      *)
WebhookDeadlocks(h) ==
  /\ hookStep[h] \in {"settling", "cancelling"}
  /\ ListingOf[hookEvent[h].of] \notin moderated
  /\ \E a \in Actions : actionState[a] = "none"
  /\ hookStep' = [hookStep EXCEPT ![h] = "idle"]
  /\ hookEvent' = [hookEvent EXCEPT ![h] = NoEvent]
  /\ UNCHANGED <<sagaVars, slipped, listingVars, order, refund, eventVars,
                 crashes, dropped, HookUnchanged>>

(* restoreListing clears moderated_at and leaves moderation_state alone. *)
Restore(l) ==
  /\ l \in moderated
  /\ moderated' = moderated \ {l}
  /\ UNCHANGED <<sagaVars, slipped, listingVars, step, order, stripeVars,
                 eventVars, hookVars, adminVars, sellerVars, crashes, raced,
                 dropped>>

-----------------------------------------------------------------------------
(* drainTasks.  The claim takes every task of the action (the LIMIT of 50  *)
(* is more than a listing has orders in flight).                           *)

(* Mutant: a task another worker is at can be claimed. *)
ClaimableBusy(t) == Unsettled(t) /\ attempts[t] < MaxAttempts

Claimable(t) ==
  /\ taskState[t] = "pending" \/ (taskState[t] = "processing" /\ t \in stale)
  /\ attempts[t] < MaxAttempts

ClaimTasks(w) ==
  /\ workerStep[w] = "claiming"
  /\ LET claimed == {t \in TasksOf(workerAction[w]) : Claimable(t)} IN
       /\ taskState' = [t \in Tasks |->
            IF t \in claimed THEN "processing" ELSE taskState[t]]
       /\ attempts' = [t \in Tasks |->
            IF t \in claimed THEN attempts[t] + 1 ELSE attempts[t]]
       /\ stale' = stale \ claimed
       /\ todo' = [todo EXCEPT ![w] =
            {[of |-> t[2], attempts |-> attempts[t] + 1] : t \in claimed}]
  /\ WorkerGoto(w, "draining")
  /\ UNCHANGED <<vars, actionVars, operation, replays, workerAction, row, slipped>>

(* Time passes.  A request handles its rows within the limit unless it is  *)
(* slow; the rows of one that died grow stale.                             *)
Hand(w) == {r.of : r \in todo[w] \cup ({row[w]} \ {NoRow})}

InHand(t) == \E w \in Workers : workerAction[w] = t[1] /\ t[2] \in Hand(w)

GrowsStale(t) ==
  /\ taskState[t] = "processing"
  /\ t \notin stale
  /\ SlowWorkers \/ ~InHand(t)
  /\ stale' = stale \cup {t}
  /\ UNCHANGED <<vars, actionVars, taskState, operation, attempts, replays,
                 workerVars, slipped>>

(* Stripe honours a replayed key, cancels an open intent, refunds money    *)
(* that is still with it, and refuses the rest.                            *)
StripeAccepts(t) ==
  \/ t \in replays
  \/ operation[t] = "cancel" /\ intent[t[2]] = "open"
  \/ operation[t] = "refund" /\ intent[t[2]] = "succeeded" /\ refund[t[2]] = "none"

StripeDoes(t) ==
  /\ StripeAccepts(t)
  /\ replays' = replays \cup {t}
  /\ \/ t \in replays /\ UNCHANGED <<stripeVars, eventVars>>
     \/ /\ t \notin replays /\ operation[t] = "cancel"
        /\ intent' = [intent EXCEPT ![t[2]] = "canceled"]
        /\ Emit("canceled", t[2])
        /\ UNCHANGED refund
     \/ /\ t \notin replays /\ operation[t] = "refund"
        /\ refund' = [refund EXCEPT ![t[2]] = "takedown"]
        /\ UNCHANGED <<intent, eventVars>>

(* Mutant: an error of Stripe's is taken for an answer. *)
CallStripeHopeful(w) ==
  /\ workerStep[w] = "draining"
  /\ \E r \in todo[w] :
       /\ row' = [row EXCEPT ![w] = r]
       /\ todo' = [todo EXCEPT ![w] = @ \ {r}]
  /\ WorkerGoto(w, "moving")
  /\ UNCHANGED <<vars, actionVars, taskVars, replays, workerAction, slipped>>

(* executeTask up to its call to Stripe, which may fail with or without    *)
(* having done what was asked.                                             *)
CallStripe(w) ==
  /\ workerStep[w] = "draining"
  /\ \E r \in todo[w] :
       /\ row' = [row EXCEPT ![w] = r]
       /\ todo' = [todo EXCEPT ![w] = @ \ {r}]
       /\ LET t == <<workerAction[w], r.of>> IN
            \/ StripeDoes(t) /\ \E s \in {"moving", "failing"} : WorkerGoto(w, s)
            \/ WorkerGoto(w, "failing") /\ UNCHANGED <<replays, stripeVars, eventVars>>
  /\ UNCHANGED <<actionVars, taskVars, workerAction, slipped, listingVars, step,
                 order, hookVars, adminVars, sellerVars, auxVars>>

Target(t) == IF operation[t] = "cancel" THEN "cancelled" ELSE "refunded"

(* Mutant: the order is written without its row lock. *)
MoveOrderUnlocked(w) ==
  /\ workerStep[w] = "moving"
  /\ TransitionOrder(row[w].of, Target(TaskAt(w)))
  /\ WorkerGoto(w, "recording")
  /\ UNCHANGED <<actionVars, taskVars, replays, workerAction, todo, row, slipped,
                 listingVars, step, stripeVars, eventVars, hookVars, adminVars,
                 sellerVars, auxVars>>

(* transitionOrder, tied to no status read before: it moves the order,     *)
(* finds it there already, or throws (as it may on a database error).      *)
MoveOrder(w) ==
  /\ workerStep[w] = "moving"
  /\ LET c == row[w].of  to == Target(TaskAt(w)) IN
       /\ ~Locked(c)
       /\ \/ /\ Moves(c, to) \/ order[c] = to
             /\ TransitionOrder(c, to)
             /\ WorkerGoto(w, "recording")
          \/ UNCHANGED order /\ WorkerGoto(w, "failing")
  /\ UNCHANGED <<actionVars, taskVars, replays, workerAction, todo, row, slipped,
                 listingVars, step, stripeVars, eventVars, hookVars, adminVars,
                 sellerVars, auxVars>>

RecordSuccess(w) ==
  /\ workerStep[w] = "recording"
  /\ \/ /\ taskState' = [taskState EXCEPT ![TaskAt(w)] = "succeeded"]
        /\ WorkerGoto(w, "telling")
     \/ UNCHANGED taskState /\ WorkerGoto(w, "failing")
  /\ UNCHANGED <<vars, actionVars, operation, attempts, stale, replays,
                 workerAction, todo, row, slipped>>

(* The query for whom to tell is inside the same try. *)
TellBuyer(w) ==
  /\ workerStep[w] = "telling"
  /\ \/ WorkerGoto(w, "draining") /\ row' = [row EXCEPT ![w] = NoRow]
     \/ WorkerGoto(w, "failing") /\ UNCHANGED row
  /\ UNCHANGED <<vars, actionVars, taskVars, replays, workerAction, todo, slipped>>

(* The catch: back to pending, or failed on the last attempt, whatever the *)
(* task's state is by now.                                                 *)
TaskFails(w) ==
  /\ workerStep[w] = "failing"
  /\ taskState' = [taskState EXCEPT ![TaskAt(w)] =
       IF row[w].attempts >= MaxAttempts THEN "failed" ELSE "pending"]
  /\ WorkerGoto(w, "draining")
  /\ row' = [row EXCEPT ![w] = NoRow]
  /\ UNCHANGED <<vars, actionVars, operation, attempts, stale, replays,
                 workerAction, todo, slipped>>

(* Mutant: the action's state is left to somebody else. *)
DrainEndsQuietly(w) ==
  /\ workerStep[w] = "draining"
  /\ todo[w] = {}
  /\ WorkerGoto(w, "idle")
  /\ UNCHANGED <<vars, actionVars, taskVars, replays, workerAction, todo, row, slipped>>

DrainEnds(w) ==
  /\ workerStep[w] = "draining"
  /\ todo[w] = {}
  /\ WorkerGoto(w, "finalizing")
  /\ UNCHANGED <<vars, actionVars, taskVars, replays, workerAction, todo, row, slipped>>

-----------------------------------------------------------------------------
(* reconcileActionStates: four statements, each over all actions.          *)

ReconcileUnchanged == <<vars, taskVars, actionOf, replays, workerAction, todo,
                        row, slipped>>

(* Every action that meets the statement's WHERE clause gets the state. *)
SetActions(met, s) ==
  actionState' = [a \in Actions |->
                    IF actionState[a] # "none" /\ a \in met THEN s ELSE actionState[a]]

(* Mutant: finalized once nothing is pending any more. *)
FinalizeNonePending(w) ==
  /\ workerStep[w] = "finalizing"
  /\ SetActions({a \in Actions : \A t \in TasksOf(a) : taskState[t] # "pending"},
                "finalized")
  /\ WorkerGoto(w, "escalating")
  /\ UNCHANGED <<marker, ReconcileUnchanged>>

Finalize(w) ==
  /\ workerStep[w] = "finalizing"
  /\ SetActions({a \in Actions : \A t \in TasksOf(a) : taskState[t] = "succeeded"},
                "finalized")
  /\ WorkerGoto(w, "escalating")
  /\ UNCHANGED <<marker, ReconcileUnchanged>>

(* Mutant: the reconciliation stops after its first statement. *)
EscalateNothing(w) ==
  /\ workerStep[w] = "escalating"
  /\ WorkerGoto(w, "settling")
  /\ UNCHANGED <<actionState, marker, ReconcileUnchanged>>

Escalate(w) ==
  /\ workerStep[w] = "escalating"
  /\ SetActions({a \in Actions : /\ actionState[a] \notin {"finalized", "needs_attention"}
                                 /\ \E t \in TasksOf(a) : taskState[t] = "failed"},
                "needs_attention")
  /\ WorkerGoto(w, "settling")
  /\ UNCHANGED <<marker, ReconcileUnchanged>>

MarkSettling(w) ==
  /\ workerStep[w] = "settling"
  /\ SetActions({a \in Actions : /\ actionState[a] = "requested"
                                 /\ \E t \in TasksOf(a) : attempts[t] > 0},
                "settling")
  /\ WorkerGoto(w, "marking")
  /\ UNCHANGED <<marker, ReconcileUnchanged>>

(* The listing's marker, by any finalized action of its own. *)
MarkListings(w) ==
  /\ workerStep[w] = "marking"
  /\ marker' = [l \in Listings |->
       IF /\ marker[l] = "pending"
          /\ \E a \in Actions : actionOf[a] = l /\ actionState[a] = "finalized"
         THEN "finalized" ELSE marker[l]]
  /\ WorkerGoto(w, "idle")
  /\ UNCHANGED <<actionState, ReconcileUnchanged>>

-----------------------------------------------------------------------------
(* retryFailedTasks: two statements, then a drain of the action. *)
Retry(w, a) ==
  /\ workerStep[w] = "idle"
  /\ actionState[a] # "none"
  /\ LET failed == {t \in TasksOf(a) : taskState[t] = "failed"} IN
       /\ taskState' = [t \in Tasks |->
            IF t \in failed THEN "pending" ELSE taskState[t]]
       /\ attempts' = [t \in Tasks |-> IF t \in failed THEN 0 ELSE attempts[t]]
  /\ WorkerGoto(w, "reopening")
  /\ workerAction' = [workerAction EXCEPT ![w] = a]
  /\ UNCHANGED <<vars, actionVars, operation, stale, replays, todo, row, slipped>>

Reopen(w) ==
  /\ workerStep[w] = "reopening"
  /\ SetActions({a \in {workerAction[w]} : actionState[a] = "needs_attention"},
                "settling")
  /\ WorkerGoto(w, "claiming")
  /\ UNCHANGED <<marker, ReconcileUnchanged>>

(* The process dies, or a statement outside every try throws. *)
WorkerCrash(w) ==
  /\ workerStep[w] # "idle"
  /\ crashes < MaxCrashes
  /\ crashes' = crashes + 1
  /\ WorkerGoto(w, "idle")
  /\ todo' = [todo EXCEPT ![w] = {}]
  /\ row' = [row EXCEPT ![w] = NoRow]
  /\ UNCHANGED <<actionVars, taskVars, replays, workerAction, slipped,
                 listingVars, step, order, stripeVars, eventVars, hookVars,
                 adminVars, sellerVars, moderated, raced, dropped>>

WorkerMoves(w) ==
  \/ Reopen(w) \/ ClaimTasks(w) \/ CallStripe(w) \/ MoveOrder(w)
  \/ RecordSuccess(w) \/ TellBuyer(w) \/ TaskFails(w) \/ DrainEnds(w)
  \/ Finalize(w) \/ Escalate(w) \/ MarkSettling(w) \/ MarkListings(w)

(* Everything else in the marketplace, and which of its orders come late. *)
OrdersMove ==
  /\ Next
  /\ slipped' = slipped \cup {c \in Checkouts : /\ order[c] # order'[c]
                                                /\ order'[c] = "pending"
                                                /\ ListingOf[c] \in moderated}
  /\ UNCHANGED sagaVars

SagaNext ==
  \/ OrdersMove
  \/ \E w \in Workers :
       \/ \E a \in Actions, l \in Listings : RequestTakedown(w, a, l)
       \/ \E a \in Actions : Retry(w, a)
       \/ WorkerMoves(w) \/ WorkerCrash(w)
  \/ \E t \in Tasks : GrowsStale(t)
  \/ \E l \in Listings : Restore(l)
  \/ \E h \in Handlers : WebhookDeadlocks(h)

SagaSpec == Init /\ SagaInit /\ [][SagaNext]_sagaAndOrders

(* A request that was accepted runs to its end; moderators owe nothing. *)
FairSagaSpec == SagaSpec /\ \A w \in Workers : WF_sagaAndOrders(WorkerMoves(w))

-----------------------------------------------------------------------------
SagaTypeOK ==
  /\ marker \in [Listings -> {"none", "pending", "finalized"}]
  /\ actionState \in [Actions -> {"none", "requested", "settling",
                                  "needs_attention", "finalized"}]
  /\ actionOf \in [Actions -> Listings]
  /\ taskState \in [Tasks -> {"none", "pending", "processing", "succeeded", "failed"}]
  /\ operation \in [Tasks -> {"cancel", "refund"}]
  /\ attempts \in [Tasks -> 0..MaxAttempts]
  /\ stale \subseteq Tasks
  /\ replays \subseteq Tasks
  /\ workerStep \in [Workers -> WorkerSteps]
  /\ workerAction \in [Workers -> Actions]
  /\ todo \in [Workers -> SUBSET Rows]
  /\ row \in [Workers -> Rows \cup {NoRow}]
  /\ slipped \subseteq Checkouts

-----------------------------------------------------------------------------
(* Safety.                                                                 *)

(* A takedown forgets no buyer: an order in flight on a hidden listing has *)
(* a task that is not yet settled, whatever crashed, failed or was retried,*)
(* unless checkout placed it after the listing was hidden (slipped).       *)
TakedownCoversOrders ==
  \A l \in moderated : \A c \in InFlight(l) \ slipped :
    \E a \in Actions : actionOf[a] = l /\ Unsettled(<<a, c>>)

Settled(c) ==
  /\ order[c] \in {"cancelled", "refunded"}
  /\ intent[c] = "canceled" \/ refund[c] # "none"

(* Finalized means settled: each affected order is over and its buyer's    *)
(* money was never taken or has gone back.  Between Stripe's answer and    *)
(* this lie four writes, any of which may fail, and other workers.         *)
FinalizedIsSettled ==
  \A t \in Tasks :
    actionState[t[1]] = "finalized" /\ taskState[t] # "none" => Settled(t[2])

(* A task is in the hands of one request at a time, as long as no request  *)
(* outlasts the limit after which its tasks count as abandoned.            *)
OneWorkerPerTask ==
  ~SlowWorkers =>
    \A v, w \in Workers :
      v # w /\ workerAction[v] = workerAction[w] => Hand(v) \cap Hand(w) = {}

(* The takedown disturbs none of what Orders keeps: one buyer at a time,   *)
(* no captured money forgotten, every order along its promise.             *)
OrdersStillSound == IInv
PromiseStillKept == PromiseKept

-----------------------------------------------------------------------------
(* Why the above holds: the inductive invariant, beside that of Orders.    *)

(* A task belongs to an action that was requested and to an order that was *)
(* placed; what it says of Stripe and of its own end is so.                *)
TasksTruthful ==
  \A t \in Tasks :
    LET c == t[2] IN
    /\ taskState[t] # "none" =>
         /\ actionState[t[1]] # "none"
         /\ order[c] # "none"
         /\ operation[t] = "refund" => order[c] # "pending"
    /\ taskState[t] = "succeeded" => Settled(c)
    /\ t \in replays =>
         /\ taskState[t] # "none"
         /\ operation[t] = "cancel" => intent[c] = "canceled"
         /\ operation[t] = "refund" => refund[c] # "none"

(* What a request carries from one statement to the next still holds.      *)
Informed(w) ==
  /\ \A c \in Hand(w) : taskState[<<workerAction[w], c>>] # "none"
  /\ workerStep[w] \in AtRow => row[w] \in Rows
  /\ workerStep[w] = "moving" => TaskAt(w) \in replays
  /\ workerStep[w] \in {"recording", "telling"} => Settled(row[w].of)

(* Only a request that is draining has rows, one at a time and no two for  *)
(* one order.                                                              *)
RowsInOrder(w) ==
  /\ workerStep[w] \notin AtRow => row[w] = NoRow
  /\ workerStep[w] \notin AtRow \cup {"draining"} => todo[w] = {}
  /\ row[w] \notin todo[w]
  /\ \A r, s \in todo[w] \cup ({row[w]} \ {NoRow}) : r.of = s.of => r = s

WorkersInformed == \A w \in Workers : Informed(w) /\ RowsInOrder(w)

(* A task in hand cannot be claimed: its claim is still young.             *)
HandsUnclaimable ==
  ~SlowWorkers =>
    \A w \in Workers : \A c \in Hand(w) :
      LET t == <<workerAction[w], c>> IN
      taskState[t] \in {"processing", "succeeded"} /\ t \notin stale

SagaInv ==
  /\ TasksTruthful /\ WorkersInformed
  /\ HandsUnclaimable /\ OneWorkerPerTask
  /\ FinalizedIsSettled /\ TakedownCoversOrders

-----------------------------------------------------------------------------
(* Liveness.                                                               *)

(* Settled money is reported: when all of an action's tasks have succeeded *)
(* the request that did the last of them finalizes the action and marks    *)
(* the listing.                                                            *)
SettledFinalizes ==
  \A a \in Actions :
    actionState[a] # "none" /\ (\A t \in TasksOf(a) : taskState[t] = "succeeded")
      ~> \/ actionState[a] = "finalized" /\ marker[actionOf[a]] = "finalized"
         \/ \E t \in TasksOf(a) : taskState[t] # "succeeded"

(* An exhausted task reaches a person, never a silent end. *)
ExhaustedNeedsAttention ==
  \A t \in Tasks :
    taskState[t] = "failed" ~>
      actionState[t[1]] \in {"needs_attention", "finalized"} \/ taskState[t] # "failed"
=============================================================================
