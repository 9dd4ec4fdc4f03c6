----------------------------- MODULE MCSessions -----------------------------
(***************************************************************************)
(* Two browsers of one account, one of which logs out everywhere while the *)
(* other refreshes.                                                        *)
(***************************************************************************)
EXTENDS Sessions, TLC

CONSTANTS c1, c2, s1, s2, d1, d2

OneEach == (c1 :> d1) @@ (c2 :> d2)
Apiece  == (s1 :> d1) @@ (s2 :> d2)

Init == SessionsInit /\ phones = {}
Spec == Init /\ [][SessionsNext]_sessionVars

(* What tokenService.js 114-116 asks of 'log out everywhere': the sessions   *)
(* of the other devices whose tokens the revocation saw are over when it has *)
(* run.                                                                     *)
SessionsEvicted ==
    \A d \in Devices : sweep[d].at = "done" =>
        \A t \in sweep[d].rows, u \in Ids :
            token[u].family = token[t].family /\ From[token[u].family] # d => ~Live(u)
=============================================================================
