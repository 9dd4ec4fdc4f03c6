------------------------------- MODULE MCDesk -------------------------------
(* One order, which expires or is cancelled under the buyer's open sheet.   *)
EXTENDS Desk
=============================================================================
