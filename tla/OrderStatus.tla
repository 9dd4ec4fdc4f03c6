---------------------------- MODULE OrderStatus ----------------------------
(***************************************************************************)
(* The statuses of an order and the moves between them, from               *)
(* transactionStatus.js.  "none" is the absence of a row in transactions.  *)
(***************************************************************************)

Statuses == {"pending", "paid", "fulfilled", "completed",
             "cancelled", "expired", "refunded", "disputed"}

ValidTransitions ==
  [pending   |-> {"paid", "cancelled", "expired"},
   paid      |-> {"fulfilled", "completed", "refunded", "disputed"},
   fulfilled |-> {"completed", "disputed", "refunded"},
   completed |-> {"disputed"},
   disputed  |-> {"refunded", "completed"},
   cancelled |-> {"refunded"},
   expired   |-> {"refunded"},
   refunded  |-> {},
   none      |-> {}]

(* The groups the services decide by. *)
MoneyCaptured         == {"paid", "fulfilled", "completed"}
Concluded             == {"completed"}
InFlightForModeration == {"pending", "paid", "fulfilled"}

(* The statuses in which the buyer's money is with the seller or contested *)
(* (MONEY_CAPTURED and the disputed orders between them).                  *)
SaleStands == MoneyCaptured \cup {"disputed"}

(* What the late-payment branch of the webhook treats as given up. *)
GivenUp == {"expired", "cancelled"}
=============================================================================
