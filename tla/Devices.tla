------------------------------ MODULE Devices ------------------------------
(***************************************************************************)
(* A phone that is told about events by push: the row of push_tokens that  *)
(* names its user (pushService.js), the application that registers and     *)
(* unregisters it (notifications.ts, AuthContext.tsx, client.ts), and the  *)
(* notifications that read the row (notificationsService.js).              *)
(*                                                                         *)
(* Registering is not awaited by what starts it.  A request carries the    *)
(* tokens the client holds when it is sent; a refresh that is answered     *)
(* stores its pair, whoever is signed in by then.                          *)
(***************************************************************************)
EXTENDS Naturals, FiniteSets

CONSTANTS
    Users, NoUser,
    MaxPushes       \* bound: pushes under way

ASSUME DevicesAssumption == NoUser \notin Users /\ MaxPushes \in Nat

VARIABLES
    row,            \* the user the phone's token is registered to
    phone,          \* the signed-in user, whose tokens the client holds, whose
                    \* it stored, and whether currentToken is set
    renewing,       \* the user whose tokens are being refreshed
    asking,         \* how many registrations wait for permission or for Expo
    sent,           \* how many were sent, with each user's tokens
    leaving,        \* how far logout is
    allowed,        \* whether the phone takes pushes
    pushes,         \* pushes that read the row
    stray,          \* history: why the row may name someone else
    told            \* history: the row was set for this sign-in and not pruned since

deviceVars == <<row, phone, renewing, asking, sent, leaving, allowed, pushes, stray, told>>

NobodySignedIn == [user |-> NoUser, tokens |-> NoUser, stored |-> NoUser, push |-> FALSE]

DevicesInit ==
    /\ row = NoUser /\ phone = NobodySignedIn /\ renewing = NoUser /\ asking = 0
    /\ sent = [u \in Users |-> 0] /\ leaving = "no" /\ allowed = TRUE /\ pushes = 0 /\ stray = FALSE /\ told = FALSE

AllAnswered(requests) == \A u \in Users : requests[u] = 0
Registering == asking > 0 \/ ~AllAnswered(sent)

-----------------------------------------------------------------------------
(* Signing in                                                              *)

\* login and verify end in applySession, which starts a registration.
Begun == IF allowed THEN 1 ELSE 0

SignIn(u) ==
    /\ phone.user = NoUser /\ leaving = "no"
    /\ phone' = [phone EXCEPT !.user = u, !.tokens = u, !.stored = u]
    /\ asking' = asking + Begun /\ told' = FALSE
    /\ stray' = (stray \/ Registering)
    /\ UNCHANGED <<renewing, row, sent, leaving, allowed, pushes>>

\* The application starts again, with the stored session if `me` answers.
Restart ==
    /\ leaving = "no" /\ renewing' = NoUser
    /\ \/ /\ phone.stored # NoUser
          /\ phone' = [user |-> phone.stored, tokens |-> phone.stored, stored |-> phone.stored, push |-> FALSE]
          /\ asking' = Begun /\ stray' = stray
       \/ /\ phone' = [NobodySignedIn EXCEPT !.stored = phone.stored]
          /\ asking' = 0 /\ stray' = (stray \/ phone.user # NoUser)
    /\ told' = FALSE
    /\ UNCHANGED <<row, sent, leaving, allowed, pushes>>

\* refreshTokens: one at a time, with the pair held when it starts.
RefreshStarts ==
    /\ phone.tokens # NoUser /\ renewing = NoUser /\ renewing' = phone.tokens
    /\ UNCHANGED <<row, phone, asking, sent, leaving, allowed, pushes, stray, told>>

RefreshLands ==
    /\ renewing # NoUser /\ renewing' = NoUser
    /\ phone' = [phone EXCEPT !.tokens = renewing, !.stored = renewing]
    /\ stray' = (stray \/ renewing # phone.tokens)
    /\ told' = (told /\ renewing = phone.tokens)
    /\ UNCHANGED <<row, asking, sent, leaving, allowed, pushes>>

\* It is refused: the client drops its tokens, the screens stay.
Evicted ==
    /\ renewing # NoUser /\ renewing' = NoUser
    /\ phone' = [phone EXCEPT !.tokens = NoUser, !.stored = NoUser]
    /\ stray' = TRUE /\ told' = FALSE
    /\ UNCHANGED <<row, asking, sent, leaving, allowed, pushes>>

-----------------------------------------------------------------------------
(* Registering                                                             *)

\* Expo answers: the token is kept, and sent with the tokens held by now.
GotToken ==
    /\ asking > 0 /\ asking' = asking - 1
    /\ phone' = [phone EXCEPT !.push = TRUE]
    /\ sent' = IF phone.tokens = NoUser THEN sent ELSE [sent EXCEPT ![phone.tokens] = @ + 1]
    /\ UNCHANGED <<renewing, row, leaving, allowed, pushes, stray, told>>

NoPermission ==
    /\ asking > 0 /\ asking' = asking - 1
    /\ UNCHANGED <<renewing, row, phone, sent, leaving, allowed, pushes, stray, told>>

(* Mutant: a token that is registered stays with its user. *)
RegisterFirst(u) ==
    /\ sent[u] > 0
    /\ row' = IF row = NoUser THEN u ELSE row
    /\ sent' = [sent EXCEPT ![u] = @ - 1]
    /\ IF {phone.user, phone.tokens} = {u} /\ leaving = "no"
       THEN stray' = ~AllAnswered(sent') /\ told' = AllAnswered(sent')
       ELSE stray' = TRUE /\ told' = FALSE
    /\ UNCHANGED <<renewing, phone, asking, leaving, allowed, pushes>>

\* The upsert: the last to register has the token.
RegisterToken(u) ==
    /\ sent[u] > 0
    /\ row' = u
    /\ sent' = [sent EXCEPT ![u] = @ - 1]
    /\ IF {phone.user, phone.tokens} = {u} /\ leaving = "no"
       THEN stray' = ~AllAnswered(sent') /\ told' = AllAnswered(sent')
       ELSE stray' = TRUE /\ told' = FALSE
    /\ UNCHANGED <<renewing, phone, asking, leaving, allowed, pushes>>

RegisterFails(u) ==
    /\ sent[u] > 0 /\ sent' = [sent EXCEPT ![u] = @ - 1]
    /\ UNCHANGED <<renewing, row, phone, asking, leaving, allowed, pushes, stray, told>>

-----------------------------------------------------------------------------
(* Signing out                                                             *)

\* unregisterPushNotifications does nothing without currentToken.
Logout ==
    /\ phone.user # NoUser /\ leaving = "no"
    /\ leaving' = IF phone.push THEN "unregistering" ELSE "revoking"
    /\ phone' = [phone EXCEPT !.push = FALSE]
    /\ stray' = (stray \/ Registering \/ (row = phone.user /\ ~phone.push))
    /\ told' = FALSE
    /\ UNCHANGED <<renewing, row, asking, sent, allowed, pushes>>

\* The row goes only if it is the caller's; a failure is swallowed.
UnregisterToken ==
    /\ leaving = "unregistering" /\ leaving' = "revoking"
    /\ \/ phone.tokens # NoUser /\ row' = (IF row = phone.tokens THEN NoUser ELSE row) /\ UNCHANGED stray
       \/ UNCHANGED row /\ stray' = TRUE
    /\ UNCHANGED <<renewing, phone, asking, sent, allowed, pushes, told>>

SessionEnds ==
    /\ leaving = "revoking" /\ leaving' = "no"
    /\ phone' = [phone EXCEPT !.user = NoUser, !.tokens = NoUser, !.stored = NoUser]
    /\ stray' = (stray \/ Registering)
    /\ UNCHANGED <<renewing, row, asking, sent, allowed, pushes, told>>

-----------------------------------------------------------------------------
(* Being told                                                              *)

\* notify: the tokens of the user are read, then Expo is asked.
SendPush ==
    /\ row # NoUser /\ pushes < MaxPushes
    /\ pushes' = pushes + 1
    /\ UNCHANGED <<renewing, row, phone, asking, sent, leaving, allowed, stray, told>>

\* A phone that takes none is pruned, whoever the token names by then.
PushAnswered(refused) ==
    /\ pushes > 0 /\ pushes' = pushes - 1
    /\ IF refused THEN row' = NoUser /\ told' = FALSE ELSE UNCHANGED <<row, told>>
    /\ UNCHANGED <<renewing, phone, asking, sent, leaving, allowed, stray>>

Permission ==
    /\ allowed' = ~allowed
    /\ UNCHANGED <<renewing, row, phone, asking, sent, leaving, pushes, stray, told>>

-----------------------------------------------------------------------------
DevicesNext ==
    \/ \E u \in Users : SignIn(u) \/ RegisterToken(u) \/ RegisterFails(u)
    \/ Restart \/ RefreshStarts \/ RefreshLands \/ Evicted
    \/ GotToken \/ NoPermission
    \/ Logout \/ UnregisterToken \/ SessionEnds
    \/ SendPush \/ Permission \/ \E refused \in BOOLEAN : PushAnswered(refused)

DevicesSpec == DevicesInit /\ [][DevicesNext]_deviceVars

-----------------------------------------------------------------------------
(* The token of a phone is never registered to anyone but the user signed   *)
(* in on it, nobody when nobody is, once no registration and no logout is   *)
(* under way; and it is registered to that user once a registration was     *)
(* answered.  The exceptions are the ways out that do not unregister: a     *)
(* registration still under way when the user left, a failed request to     *)
(* forget the token, a session that ended without logout, a refresh that    *)
(* was answered after its user had left, a logout after a restart that did  *)
(* not register; the next registration mends them.                          *)
PushFollowsSignIn ==
    /\ leaving = "no" /\ ~Registering /\ ~stray => row \in {phone.user, NoUser}
    /\ told => row = phone.user
=============================================================================
