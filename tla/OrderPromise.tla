---------------------------- MODULE OrderPromise ----------------------------
(***************************************************************************)
(* What the marketplace promises about one order and the money behind it,  *)
(* without listings, webhooks, sweeps or requests in flight: an order      *)
(* moves only along ValidTransitions, it counts as paid only once the      *)
(* money is captured, and it says refunded only once the money is back.    *)
(***************************************************************************)
EXTENDS OrderStatus

CONSTANT Orders

VARIABLES
  status,   \* [Orders -> Statuses or "none"]
  money     \* [Orders -> "none", "captured" or "returned"]

vars == <<status, money>>

Init ==
  /\ status = [o \in Orders |-> "none"]
  /\ money = [o \in Orders |-> "none"]

(* The order is written before its buyer can pay. *)
Place(o) ==
  /\ status[o] = "none"
  /\ money[o] = "none"
  /\ status' = [status EXCEPT ![o] = "pending"]
  /\ UNCHANGED money

Capture(o) ==
  /\ status[o] # "none"
  /\ money[o] = "none"
  /\ money' = [money EXCEPT ![o] = "captured"]
  /\ UNCHANGED status

(* Money goes back only for an order that is no longer awaiting payment. *)
Return(o) ==
  /\ status[o] \notin {"none", "pending"}
  /\ money[o] = "captured"
  /\ money' = [money EXCEPT ![o] = "returned"]
  /\ UNCHANGED status

Advance(o, to) ==
  /\ to \in ValidTransitions[status[o]]
  /\ to \in SaleStands => money[o] # "none"
  /\ to = "refunded" => money[o] = "returned"
  /\ status' = [status EXCEPT ![o] = to]
  /\ UNCHANGED money

Next ==
  \E o \in Orders :
    \/ Place(o)
    \/ Capture(o)
    \/ Return(o)
    \/ \E to \in Statuses : Advance(o, to)

Spec == Init /\ [][Next]_vars
=============================================================================
