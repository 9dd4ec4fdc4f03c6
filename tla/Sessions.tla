------------------------------ MODULE Sessions ------------------------------
(***************************************************************************)
(* The refresh tokens of one account: sign-in, rotation, reuse detection,  *)
(* log out, log out everywhere and password reset on the server            *)
(* (tokenService.js, auth/controller.js), and the browser and the phone    *)
(* that hold the tokens (services/api.js, mobile client.ts,                *)
(* AuthContext.tsx).                                                       *)
(*                                                                         *)
(* Access tokens last 15 minutes, so a refresh may be due at any time; one *)
(* is issued with every refresh token and is known by it (signed).         *)
(***************************************************************************)
EXTENDS Naturals, Sequences

CONSTANTS
    Devices,        \* browsers and phones
    Callers,        \* those who refresh: the tabs of a browser, an app
    DeviceOf,
    SignIns,        \* each names the family of tokens it starts
    From,           \* From[s]: the device s is made on
    Resets,         \* password reset requests that reach their claim
    MaxTokens,      \* bounds on what is issued, for TLC
    MaxVersion,
    None

ASSUME SessionsAssumption ==
    /\ DeviceOf \in [Callers -> Devices]
    /\ From \in [SignIns -> Devices]
    /\ MaxTokens \in Nat /\ MaxVersion \in Nat
    /\ Callers \cap Devices = {} /\ Callers \cap Resets = {} /\ Devices \cap Resets = {}
    /\ None \notin SignIns

VARIABLES
    token,          \* refresh_tokens, in the order of their issue
    version,        \* users.session_version
    signIn,         \* the sign-ins that have been started, and how far
    phones,         \* the devices that run the app, the others run a browser
    device,         \* what a device holds and does
    refresh,        \* one in-flight refresh per caller
    sweep,          \* the revocations of several tokens at once
    disturbed       \* devices that lost an answer or were killed in a refresh

sessionVars == <<token, version, signIn, phones, device, refresh, sweep, disturbed>>

Ids      == DOMAIN token
Sweepers == Callers \cup Devices \cup Resets

\* for: the version a bump left; rows: what the update saw; evaded: sessions from
\* before the bump that got a token where the update does not look.
NoSweep == [at |-> "none", rows |-> {}, for |-> 0, evaded |-> {}]

At(where) == [at |-> where, presented |-> 0, seen |-> 0, result |-> 0]

Live(t) == ~token[t].used /\ ~token[t].revoked

SessionsInit ==
    /\ token = <<>> /\ version = 0
    /\ signIn = [s \in SignIns |-> [at |-> "new", seen |-> 0]]
    /\ phones \in SUBSET Devices
    /\ device = [d \in Devices |-> [user |-> None, held |-> 0, doing |-> "nothing", sent |-> 0]]
    /\ refresh = [c \in Callers |-> At("idle")]
    /\ sweep = [x \in Sweepers |-> NoSweep]
    /\ disturbed = {}

-----------------------------------------------------------------------------
(* Rows of refresh_tokens                                                  *)

\* A token of a session begun under the version born, beside an access token
\* for the version signed.
Issued(family, born, signed) ==
    [family |-> family, used |-> FALSE, revoked |-> FALSE, born |-> born, signed |-> signed]

\* requireAuth: the user's version is the one the access token carries.
Authenticated(d) == device[d].held # 0 /\ token[device[d].held].signed = version

\* A rotation holds the row of the token it exchanges until it commits.
Locked(t) == \E c \in Callers : refresh[c].at = "locked" /\ refresh[c].presented = t

\* A token of an older session, inserted while a sweep stands at one of these.
Evades(family, born, where) ==
    sweep' = [x \in Sweepers |-> IF sweep[x].at \in where /\ born < sweep[x].for
                                 THEN [sweep[x] EXCEPT !.evaded = @ \cup {family}]
                                 ELSE sweep[x]]

Revoked(rows) == [t \in Ids |-> IF t \in rows THEN [token[t] EXCEPT !.revoked = TRUE] ELSE token[t]]

-----------------------------------------------------------------------------
(* login, and respondWithSession / mobileLogin                             *)

\* The password is compared against the row read at the start; the access
\* token is signed for the version in that row.
CheckPassword(s) ==
    /\ signIn[s].at = "new" /\ device[From[s]].user = None
    /\ signIn' = [signIn EXCEPT ![s] = [at |-> "checked", seen |-> version]]
    /\ UNCHANGED <<phones, token, version, device, refresh, sweep, disturbed>>

\* What a device does with a session it is given.
Adopt(d, s) ==
    device' = [device EXCEPT ![d] = [user |-> s, held |-> Len(token) + 1,
                                     doing |-> "nothing", sent |-> 0]]

IssueSession(s) ==
    /\ signIn[s].at = "checked" /\ Len(token) < MaxTokens
    /\ signIn' = [signIn EXCEPT ![s] = [at |-> "issued", seen |-> 0]]
    /\ token' = Append(token, Issued(s, signIn[s].seen, signIn[s].seen))
    /\ Evades(s, signIn[s].seen, {"waiting", "done"})
    /\ Adopt(From[s], s) \/ UNCHANGED device           \* or the answer is lost
    /\ UNCHANGED <<phones, version, refresh, disturbed>>

-----------------------------------------------------------------------------
(* Refresh, in the client: apiFetch and request on a 401                   *)

\* The requests of an app, and those of one page, share an in-flight promise;
\* two tabs of a browser share their cookies only.
Alone(d)       == d \in phones \/ \A b, c \in Callers : DeviceOf[b] = d /\ DeviceOf[c] = d => b = c
InFlight(c, d) == DeviceOf[c] = d /\ refresh[c].at # "idle"

(* Mutant: every request refreshes for itself. *)
StartRefreshEach(c) ==
    /\ refresh[c].at = "idle" /\ device[DeviceOf[c]].held # 0
    /\ refresh' = [refresh EXCEPT ![c] = [At("sent") EXCEPT !.presented = device[DeviceOf[c]].held]]
    /\ UNCHANGED <<phones, token, version, signIn, device, sweep, disturbed>>

StartRefresh(c) ==
    LET d == DeviceOf[c] IN
    /\ refresh[c].at = "idle" /\ device[d].held # 0
    /\ d \in phones => ~\E b \in Callers : InFlight(b, d)
    /\ refresh' = [refresh EXCEPT ![c] = [At("sent") EXCEPT !.presented = device[d].held]]
    /\ UNCHANGED <<phones, token, version, signIn, device, sweep, disturbed>>

Idle(c) == refresh' = [refresh EXCEPT ![c] = At("idle")]

\* The new pair replaces what the device holds, whatever happened to the
\* device's session meanwhile.
RefreshSucceeds(c) ==
    LET d == DeviceOf[c] IN
    /\ refresh[c].at = "rotated"
    /\ device' = [device EXCEPT ![d].held = refresh[c].result]
    /\ Idle(c)
    /\ UNCHANGED <<phones, token, version, signIn, sweep, disturbed>>

\* 401: the server clears the browser's cookies, the app forgets its pair.
RefreshRefused(c) ==
    LET d == DeviceOf[c] IN
    /\ refresh[c].at = "refused"
    /\ device' = [device EXCEPT ![d].held = 0]
    /\ Idle(c)
    /\ UNCHANGED <<phones, token, version, signIn, sweep, disturbed>>

\* No answer arrives.  The app takes that for a refusal; the browser keeps
\* its cookie, and with it a token that may have been exchanged.
RefreshUnanswered(c) ==
    LET d == DeviceOf[c] IN
    /\ refresh[c].at \in {"rotated", "refused", "failed"}
    /\ device' = IF d \in phones THEN [device EXCEPT ![d].held = 0] ELSE device
    /\ disturbed' = disturbed \cup {d}
    /\ Idle(c)
    /\ UNCHANGED <<phones, token, version, signIn, sweep>>

\* The app is killed and opened again with the pair in its secure store; the
\* answer that was under way finds nobody.
AppRestarts(c) ==
    /\ DeviceOf[c] \in phones
    /\ refresh[c].at \in {"rotated", "refused", "failed"}
    /\ disturbed' = disturbed \cup {DeviceOf[c]}
    /\ Idle(c)
    /\ UNCHANGED <<phones, token, version, signIn, device, sweep>>

-----------------------------------------------------------------------------
(* Refresh, in the server: rotateToken                                     *)

SweepTo(x, to) == sweep' = [sweep EXCEPT ![x].at = to]

(* Mutant: revocation is not looked at. *)
RotateReadRevoked(c) ==
    LET t == refresh[c].presented IN
    /\ refresh[c].at = "sent" /\ ~Locked(t)
    /\ refresh' = [refresh EXCEPT ![c].at = IF token[t].used THEN "reuse" ELSE "locked",
                                  ![c].seen = version]
    /\ IF token[t].used THEN SweepTo(c, "owed") ELSE UNCHANGED sweep
    /\ UNCHANGED <<phones, token, version, signIn, device, disturbed>>

\* SELECT ... FOR UPDATE.  refresh_tokens has no session_version, so the
\* comparison with the user's compares a value with itself.
RotateRead(c) ==
    LET t == refresh[c].presented IN
    /\ refresh[c].at = "sent" /\ ~Locked(t)
    /\ refresh' = [refresh EXCEPT ![c].at = IF Live(t) THEN "locked" ELSE "reuse",
                                  ![c].seen = version]
    /\ IF Live(t) THEN UNCHANGED sweep ELSE SweepTo(c, "owed")
    /\ UNCHANGED <<phones, token, version, signIn, device, disturbed>>

\* The successor is inserted and the presented token marked used.  It goes on
\* with the session of the presented one, however old that is.
RotateCommit(c) ==
    LET t == refresh[c].presented IN
    /\ refresh[c].at = "locked" /\ Len(token) < MaxTokens
    /\ refresh' = [refresh EXCEPT ![c] = [At("rotated") EXCEPT !.result = Len(token) + 1]]
    /\ token' = Append([token EXCEPT ![t].used = TRUE], Issued(token[t].family, token[t].born, refresh[c].seen))
    /\ Evades(token[t].family, token[t].born, {"waiting"})
    /\ UNCHANGED <<phones, version, signIn, device, disturbed>>

RotateRollsBack(c) ==
    /\ refresh[c].at = "locked"
    /\ refresh' = [refresh EXCEPT ![c] = At("failed")]
    /\ UNCHANGED <<phones, token, version, signIn, device, sweep, disturbed>>

-----------------------------------------------------------------------------
(* Revoking several tokens: revokeFamily, revokeAllForUser.  One UPDATE     *)
(* sees the rows committed when it starts, waits for those that are        *)
(* locked, and changes no row inserted since.                              *)

InReach(x) == IF x \in Callers
              THEN {t \in Ids : token[t].family = token[refresh[x].presented].family}
              ELSE Ids

\* The update itself.  A caller's sweep ends its refresh with a refusal.
Sweeps(x, rows) ==
    /\ token' = Revoked(rows)
    /\ sweep' = [sweep EXCEPT ![x] = IF x \in Callers THEN NoSweep
                                     ELSE [@ EXCEPT !.at = "done", !.rows = rows]]
    /\ refresh' = IF x \in Callers THEN [refresh EXCEPT ![x] = At("refused")] ELSE refresh

Unrevoked(x) == {t \in InReach(x) : ~token[t].revoked}

\* Nothing is locked: the statement is one step.
SweepAtOnce(x) ==
    /\ sweep[x].at = "owed" /\ \A t \in Unrevoked(x) : ~Locked(t)
    /\ Sweeps(x, Unrevoked(x))
    /\ UNCHANGED <<phones, version, signIn, device, disturbed>>

\* Otherwise it remembers the rows it saw and waits for the last of them.
SweepWaits(x) ==
    /\ sweep[x].at = "owed" /\ \E t \in Unrevoked(x) : Locked(t)
    /\ sweep' = [sweep EXCEPT ![x].at = "waiting", ![x].rows = Unrevoked(x)]
    /\ UNCHANGED <<phones, token, version, signIn, device, refresh, disturbed>>

SweepEnds(x) ==
    /\ sweep[x].at = "waiting" /\ \A t \in sweep[x].rows : ~Locked(t)
    /\ Sweeps(x, sweep[x].rows)
    /\ UNCHANGED <<phones, version, signIn, device, disturbed>>

\* The process dies, or the statement fails, after what the sweep belongs to
\* has committed.
SweepDies(x) ==
    /\ sweep[x].at = "owed"
    /\ SweepTo(x, IF x \in Callers THEN "none" ELSE "died")
    /\ refresh' = IF x \in Callers THEN [refresh EXCEPT ![x] = At("failed")] ELSE refresh
    /\ UNCHANGED <<phones, token, version, signIn, device, disturbed>>

-----------------------------------------------------------------------------
(* logout, mobileLogout                                                    *)

Doing(d, from, to) == device[d].doing = from /\ device' = [device EXCEPT ![d].doing = to]

SignOut(d) ==
    /\ device[d].user # None /\ device[d].doing = "nothing"
    /\ device' = [device EXCEPT ![d].doing = "signingOut", ![d].sent = device[d].held]
    /\ UNCHANGED <<phones, token, version, signIn, refresh, sweep, disturbed>>

\* The presented token is revoked, also when it has been exchanged meanwhile.
RevokePresented(d) ==
    /\ ~Locked(device[d].sent)
    /\ device[d].doing = "signingOut"
    /\ device' = [device EXCEPT ![d].doing = "leaving", ![d].sent = 0]
    /\ token' = Revoked({device[d].sent})
    /\ UNCHANGED <<phones, version, signIn, refresh, sweep, disturbed>>

\* The app signs out whatever the request came to; the browser when the
\* server has cleared its cookies.
SignedOut(d) ==
    /\ \/ device[d].doing = "leaving"
       \/ d \in phones /\ device[d].doing = "signingOut"
    /\ device' = [device EXCEPT ![d] = [user |-> None, held |-> 0, doing |-> "nothing", sent |-> 0]]
    /\ UNCHANGED <<phones, token, version, signIn, refresh, sweep, disturbed>>

-----------------------------------------------------------------------------
(* logoutEverywhere (an authenticated request of a browser), resetPassword  *)

\* What a bump leaves x to sweep for.
Bump(x, to) ==
    /\ version < MaxVersion /\ version' = version + 1
    /\ sweep' = [sweep EXCEPT ![x].at = to, ![x].for = version + 1]

LogoutEverywhere(d) ==
    /\ d \notin phones /\ Authenticated(d) /\ sweep[d].at = "none"
    /\ Doing(d, "nothing", "everywhere")
    /\ Bump(d, "owed")
    /\ UNCHANGED <<phones, token, signIn, refresh, disturbed>>

\* This device stays signed in, with a family of its own, signed for the version
\* its own bump returned.
StaysSignedIn(s) ==
    LET d == From[s] IN
    /\ device[d].doing = "everywhere" /\ sweep[d].at = "done"
    /\ signIn[s].at = "new" /\ Len(token) < MaxTokens
    /\ signIn' = [signIn EXCEPT ![s].at = "issued"]
    /\ token' = Append(token, Issued(s, sweep[d].for, sweep[d].for))
    /\ Evades(s, sweep[d].for, {"waiting", "done"})
    /\ Adopt(d, s)
    /\ UNCHANGED <<phones, version, refresh, disturbed>>

(* Mutant: the sweep comes before the bump. *)
ResetPasswordSweepFirst(r) ==
    /\ r \in Resets /\ sweep[r].at \in {"none", "swept"}
    /\ IF sweep[r].at = "none"
         THEN token' = Revoked(Ids) /\ SweepTo(r, "swept") /\ UNCHANGED version
         ELSE Bump(r, "done") /\ UNCHANGED token
    /\ UNCHANGED <<phones, signIn, device, refresh, disturbed>>

\* The new password and the bump commit together; the sweep follows.
ResetPassword(r) ==
    /\ r \in Resets /\ sweep[r].at = "none"
    /\ Bump(r, "owed")
    /\ UNCHANGED <<phones, token, signIn, device, refresh, disturbed>>

-----------------------------------------------------------------------------
ClientMoves(c) == StartRefresh(c) \/ RefreshSucceeds(c) \/ RefreshRefused(c)
ServerMoves(c) == RotateRead(c) \/ RotateCommit(c)
Faults(c)      == RefreshUnanswered(c) \/ AppRestarts(c) \/ RotateRollsBack(c)
DeviceMoves(d) == SignOut(d) \/ RevokePresented(d) \/ SignedOut(d) \/ LogoutEverywhere(d)

SessionsNext ==
    \/ \E c \in Callers : ClientMoves(c) \/ ServerMoves(c) \/ Faults(c)
    \/ \E s \in SignIns : CheckPassword(s) \/ IssueSession(s) \/ StaysSignedIn(s)
    \/ \E x \in Sweepers : SweepAtOnce(x) \/ SweepWaits(x) \/ SweepEnds(x) \/ SweepDies(x)
    \/ \E d \in Devices : DeviceMoves(d)
    \/ \E r \in Resets : ResetPassword(r)

SessionsSpec == SessionsInit /\ [][SessionsNext]_sessionVars

-----------------------------------------------------------------------------
TypeOK ==
    /\ phones \subseteq Devices
    /\ token \in Seq([family : SignIns, used : BOOLEAN, revoked : BOOLEAN,
                      born : 0..MaxVersion, signed : 0..MaxVersion])
    /\ Len(token) <= MaxTokens
    /\ version \in 0..MaxVersion
    /\ signIn \in [SignIns -> [at : {"new", "checked", "issued"}, seen : 0..MaxVersion]]
    /\ device \in [Devices -> [user : SignIns \cup {None}, held : 0..MaxTokens,
                               doing : {"nothing", "signingOut", "leaving", "everywhere"},
                               sent : 0..MaxTokens]]
    /\ refresh \in [Callers -> [at : {"idle", "sent", "locked", "rotated", "reuse",
                                      "refused", "failed"},
                                presented : 0..MaxTokens, seen : 0..MaxVersion,
                                result : 0..MaxTokens]]
    /\ sweep \in [Sweepers -> [at : {"none", "owed", "waiting", "done", "died"},
                               rows : SUBSET (1..MaxTokens), for : 0..MaxVersion,
                               evaded : SUBSET SignIns]]
    /\ disturbed \subseteq Devices

(* A session has one usable refresh token: however refreshes, sign-outs and *)
(* sweeps interleave, no two tokens of a family can both be exchanged.      *)
OneLivePerFamily ==
    \A t, u \in Ids : token[t].family = token[u].family /\ Live(t) /\ Live(u) => t = u

(* Once the sweep of a log out everywhere or of a reset has run, no session  *)
(* from before its bump has a usable refresh token, but one that was         *)
(* refreshed while the update waited for a row, and a sign-in whose password *)
(* had been compared before the bump.                                       *)
Outlived(x, t) == token[t].born < sweep[x].for /\ token[t].family \notin sweep[x].evaded

SweepCovers ==
    \A x \in Devices \cup Resets : sweep[x].at = "done" =>
        ~\E t \in Ids : Live(t) /\ Outlived(x, t)

(* A session that has ended stays ended: once a family has no usable token  *)
(* and no exchange of one is under way, it never gets a usable one again.   *)
Ended(s) ==
    /\ \E t \in Ids : token[t].family = s
    /\ \A t \in Ids : token[t].family = s => ~Live(t) /\ ~Locked(t)

EndedStaysEnded == [][\A s \in SignIns : Ended(s) => Ended(s)']_sessionVars

(* A client is not taken for a thief of its own session: where refreshes    *)
(* share their promise, an exchanged token is presented again only after an *)
(* answer was lost or the app was killed.                                  *)
ReuseExplained ==
    \A c \in Callers : refresh[c].at = "reuse" /\ Alone(DeviceOf[c]) =>
        DeviceOf[c] \in disturbed \/ token[refresh[c].presented].revoked

-----------------------------------------------------------------------------
(* What these rest on.                                                     *)

LockedIsLive ==
    \A c \in Callers :
        /\ refresh[c].at = "locked" => Live(refresh[c].presented)
        /\ \A b \in Callers : refresh[b].at = "locked" /\ refresh[c].at = "locked"
              /\ refresh[b].presented = refresh[c].presented => b = c

FamilyBegins == \A t \in Ids : signIn[token[t].family].at = "issued"

\* Who names a token names one that was issued.
Known ==
    /\ \A c \in Callers : /\ refresh[c].at \in {"sent", "locked", "reuse"} => refresh[c].presented \in Ids
                          /\ refresh[c].at = "rotated" => refresh[c].result \in Ids
    /\ \A d \in Devices : {device[d].held, device[d].sent} \subseteq Ids \cup {0}
    /\ \A c \in Callers : sweep[c].at \in {"owed", "waiting"} => refresh[c].at = "reuse"

\* A sweep that waits holds every older usable token among the rows it saw.
WaitingHolds ==
    \A x \in Devices \cup Resets : sweep[x].at = "waiting" =>
        \A t \in Ids : Live(t) /\ Outlived(x, t) => t \in sweep[x].rows

(* The inductive invariant: types, row locks held on usable tokens by one   *)
(* exchange each, and sweeps that leave no older usable token unseen.       *)
SessionsInv ==
    TypeOK /\ OneLivePerFamily /\ LockedIsLive /\ FamilyBegins /\ Known /\ WaitingHolds /\ SweepCovers
=============================================================================
