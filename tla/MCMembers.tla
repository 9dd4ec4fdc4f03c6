------------------------------ MODULE MCMembers ------------------------------
(***************************************************************************)
(* What belongs to a member: the standing of a seller, the guesses at an   *)
(* account and the sessions of one device, a browser with two tabs or a    *)
(* phone.  The three share no variable and are explored one at a time.     *)
(***************************************************************************)
EXTENDS Standing, Accounts, Sessions, TLC

CONSTANTS u1, u2, o1, o2, v1, v2, d1

\* Bound: the part that leaves its start.
VARIABLE part

\* Two users who sold each other something: each order moves both rows.
Seller   == (o1 :> u1) @@ (o2 :> u2)
Buyer    == (o1 :> u2) @@ (o2 :> u1)
Deal     == (v1 :> o1) @@ (v2 :> o2)
OfFirst  == (v1 :> u1) @@ (v2 :> u1)

OnDevice   == [c \in Callers |-> d1]
FromDevice == [s \in SignIns |-> d1]

Init ==
    /\ part \in {"standing", "account", "sessions"}
    /\ StandingInit /\ AccountsInit /\ SessionsInit
    /\ part # "sessions" => phones = {}

vars == <<standingVars, accountVars, sessionVars, part>>

Next ==
    /\ \/ part = "standing" /\ StandingNext /\ UNCHANGED <<accountVars, sessionVars>>
       \/ part = "account" /\ AccountsNext /\ UNCHANGED <<standingVars, sessionVars>>
       \/ part = "sessions" /\ SessionsNext /\ UNCHANGED <<standingVars, accountVars>>
    /\ UNCHANGED part

Spec == Init /\ [][Next]_vars

\* Deals and payouts share no variable either.
PayoutsQuiet == onboard = [r \in Onboardings |-> "idle"]
DealsQuiet   == /\ status = [o \in Orders |-> "fulfilled"]
                /\ move = [o \in Orders |-> AtRest]

\* The code that verifies an account and the password that opens it are
\* columns apart: the passwords wait for an account verified with its first
\* code.
CodeWork == {"signingUp", "resending", "verifying", "comparing", "matched"}

CodesQuiet == /\ user.verified /\ guesses = <<1>>
              /\ \A r \in Requests : req[r].at \notin CodeWork

PasswordsQuiet == /\ strikes = 0 /\ user.failed = 0 /\ ~crossed
                  /\ \A k \in Links : link[k] = "unissued"
                  /\ \A r \in Requests : req[r].at \in CodeWork \cup {"idle"}

\* Three requests at a time: two orders that move and one review, or one order
\* and two reviews.
AtMostThree == (\E o \in Orders : move[o].at = "rest") \/ (\E v \in Reviews : review[v].at = "idle")

\* A second sign-in, or a reset beside what the first left under way.
SignInsOrReset == \/ \E s \in SignIns : signIn[s].at = "new"
                  \/ \A r \in Resets : sweep[r].at = "none"

Apart ==
    /\ part = "standing" => (PayoutsQuiet \/ DealsQuiet) /\ AtMostThree
    /\ part = "account" => CodesQuiet \/ PasswordsQuiet
    /\ part = "sessions" => SignInsOrReset

\* Callers are named like requests and like onboardings, sign-ins like links:
\* one group serves all.
Symmetry == Permutations(Callers) \cup Permutations(SignIns)
=============================================================================
