------------------------------ MODULE Accounts ------------------------------
(***************************************************************************)
(* One account and the concurrent requests that write its row: sign-up and *)
(* the verification code (authService.js), the lockout of password login   *)
(* and the links that reset the password (accountSecurityService.js).      *)
(*                                                                         *)
(* Each request reads the row, or a part of it, and acts on what it read   *)
(* in later statements.  Guesses are nondeterministic: a comparison may    *)
(* succeed whenever there is something to match.  The sessions that a      *)
(* login or a reset starts and ends are the matter of Sessions.            *)
(***************************************************************************)
EXTENDS Naturals, Sequences, FiniteSets

CONSTANTS
    Requests,       \* those in flight at a time
    MaxCodes,       \* bound: verification codes issued
    Links,          \* bound: reset links issued
    MaxAttempts,    \* MAX_VERIFY_ATTEMPTS
    MaxFailed,      \* MAX_FAILED_LOGINS
    NoLink

ASSUME AccountsAssumption ==
    /\ MaxAttempts \in Nat \ {0} /\ MaxFailed \in Nat \ {0}
    /\ MaxCodes \in Nat /\ NoLink \notin Links
    /\ IsFiniteSet(Requests)

VARIABLES
    user,           \* the row of `users`; code 0 is NULL or no row
    link,           \* password_reset_tokens
    req,            \* the requests
    guesses,        \* the codes issued, and how often each was compared by
                    \* requests that claimed from its own allowance (history)
    strikes,        \* history: wrong passwords since the count was cleared or a lock ended
    crossed         \* history: two requests for a link overlapped

accountVars == <<user, link, req, guesses, strikes, crossed>>

NoRequest == [at |-> "idle", code |-> 0, verified |-> FALSE, link |-> NoLink, rows |-> {}]

AccountsInit ==
    /\ user = [exists |-> FALSE, verified |-> FALSE, code |-> 0, attempts |-> 0,
               failed |-> 0, locked |-> FALSE]
    /\ link = [k \in Links |-> "unissued"]
    /\ req = [r \in Requests |-> NoRequest]
    /\ guesses = <<>> /\ strikes = 0 /\ crossed = FALSE

Lesser(a, b) == IF a < b THEN a ELSE b

-----------------------------------------------------------------------------
Goes(r, where) == req' = [req EXCEPT ![r].at = where]
Ends(r)        == req' = [req EXCEPT ![r] = NoRequest]
Reads(r, where) ==
    req' = [req EXCEPT ![r] = [NoRequest EXCEPT !.at = where, !.code = user.code,
                                           !.verified = user.verified]]

\* A reset holds the row of users from its UPDATE to its commit: no other
\* statement writes the row meanwhile.
Holding == {"changed", "burning"}
RowFree == \A r \in Requests : req[r].at \notin Holding

\* A code that was never issued, with an allowance of its own.
NewCode(row) == [row EXCEPT !.code = Len(guesses) + 1, !.attempts = 0]

-----------------------------------------------------------------------------
(* signup                                                                  *)

SignupRead(r) ==
    /\ req[r].at = "idle" /\ ~user.exists
    /\ Goes(r, "signingUp")
    /\ UNCHANGED <<user, link, guesses, strikes, crossed>>

\* The unique index on the address refuses the second of two.
SignupInsert(r) ==
    /\ req[r].at = "signingUp"
    /\ IF user.exists
         THEN UNCHANGED <<user, guesses>>
         ELSE user' = [NewCode(user) EXCEPT !.exists = TRUE] /\ guesses' = <<0>>
    /\ Ends(r)
    /\ UNCHANGED <<link, strikes, crossed>>

-----------------------------------------------------------------------------
(* resendCode                                                              *)

ResendRead(r) ==
    /\ req[r].at = "idle" /\ user.exists /\ ~user.verified
    /\ Reads(r, "resending")
    /\ UNCHANGED <<user, link, guesses, strikes, crossed>>

\* Whether or not the account was verified since.
ResendWrite(r) ==
    /\ req[r].at = "resending" /\ RowFree /\ Len(guesses) < MaxCodes
    /\ user' = NewCode(user) /\ guesses' = Append(guesses, 0)
    /\ Ends(r)
    /\ UNCHANGED <<link, strikes, crossed>>

-----------------------------------------------------------------------------
(* verify                                                                  *)

VerifyRead(r) ==
    /\ req[r].at = "idle" /\ user.exists /\ ~user.verified
    /\ Reads(r, "verifying")
    /\ UNCHANGED <<user, link, guesses, strikes, crossed>>

(* Mutant: the attempt is counted and never refused. *)
ClaimAttemptUnchecked(r) ==
    /\ req[r].at = "verifying" /\ RowFree
    /\ user' = [user EXCEPT !.attempts = Lesser(@ + 1, MaxAttempts)]
    /\ Goes(r, "comparing")
    /\ UNCHANGED <<link, guesses, strikes, crossed>>

\* One conditional UPDATE; without an attempt left the request is refused.
ClaimAttempt(r) ==
    /\ req[r].at = "verifying" /\ RowFree
    /\ IF user.attempts < MaxAttempts
         THEN user' = [user EXCEPT !.attempts = @ + 1] /\ Goes(r, "comparing")
         ELSE Ends(r) /\ UNCHANGED user
    /\ UNCHANGED <<link, guesses, strikes, crossed>>

\* The code compared is the one of the row read before the claim.  Only a
\* comparison with the code the row still has spends an attempt of its own.
CompareCode(r) ==
    LET c == req[r].code IN
    /\ req[r].at = "comparing"
    /\ guesses' = IF c # 0 /\ c = user.code THEN [guesses EXCEPT ![c] = @ + 1] ELSE guesses
    /\ Ends(r) \/ (c # 0 /\ Goes(r, "matched"))
    /\ UNCHANGED <<user, link, strikes, crossed>>

Verified(r) ==
    /\ req[r].at = "matched" /\ RowFree
    /\ user' = [user EXCEPT !.verified = TRUE, !.code = 0, !.attempts = 0]
    /\ Ends(r)
    /\ UNCHANGED <<link, guesses, strikes, crossed>>

-----------------------------------------------------------------------------
(* login                                                                   *)

\* assertNotLocked looks at the row read at the start.
LoginRead(r) ==
    /\ req[r].at = "idle" /\ user.exists /\ ~user.locked
    /\ Reads(r, "checking")
    /\ UNCHANGED <<user, link, guesses, strikes, crossed>>

\* A right password of an unverified account is refused and changes nothing.
ComparePassword(r) ==
    /\ req[r].at = "checking"
    /\ \/ Goes(r, "wrong") /\ strikes' = strikes + 1
       \/ req[r].verified /\ Goes(r, "right") /\ UNCHANGED strikes
       \/ ~req[r].verified /\ Ends(r) /\ UNCHANGED strikes
    /\ UNCHANGED <<user, link, guesses, crossed>>

\* One UPDATE counts and locks.  The count is kept at the limit, beyond which
\* it makes no difference.
RecordFailed(r) ==
    /\ req[r].at = "wrong" /\ RowFree
    /\ user' = [user EXCEPT !.failed = Lesser(@ + 1, MaxFailed),
                            !.locked = @ \/ user.failed + 1 >= MaxFailed]
    /\ Ends(r)
    /\ UNCHANGED <<link, guesses, strikes, crossed>>

\* A right password also lifts a lock that was set after its row was read.
ClearFailed(r) ==
    /\ req[r].at = "right" /\ RowFree
    /\ IF user.failed > 0
         THEN user' = [user EXCEPT !.failed = 0, !.locked = FALSE] /\ strikes' = 0
         ELSE UNCHANGED <<user, strikes>>
    /\ Ends(r)
    /\ UNCHANGED <<link, guesses, crossed>>

\* Fifteen minutes later.  The count stays: one more wrong password locks.
LockEnds ==
    /\ user.locked
    /\ user' = [user EXCEPT !.locked = FALSE]
    /\ strikes' = 0
    /\ UNCHANGED <<link, req, guesses, crossed>>

-----------------------------------------------------------------------------
(* requestPasswordReset: two statements                                    *)

LinkLive(k)   == link[k] = "live"
LinkFree(k, r) == \A q \in Requests \ {r} : req[q].link # k

Asking(q) == req[q].at \in {"burningOld", "asking"}

\* The links that are live when the statement starts; those a reset holds are
\* waited for.
AskForLink(r) ==
    /\ req[r].at = "idle" /\ user.exists
    /\ req' = [req EXCEPT ![r].at = "burningOld", ![r].rows = {k \in Links : LinkLive(k)}]
    /\ crossed' = (crossed \/ \E q \in Requests : Asking(q))
    /\ UNCHANGED <<user, link, guesses, strikes>>

(* Mutant: the earlier links are left as they are. *)
BurnOldKeep(r) ==
    /\ req[r].at = "burningOld" /\ \A k \in req[r].rows : LinkFree(k, r)
    /\ req' = [req EXCEPT ![r].at = "asking", ![r].rows = {}]
    /\ UNCHANGED <<user, link, guesses, strikes, crossed>>

BurnOld(r) ==
    /\ req[r].at = "burningOld" /\ \A k \in req[r].rows : LinkFree(k, r)
    /\ link' = [k \in Links |-> IF k \in req[r].rows THEN "used" ELSE link[k]]
    /\ req' = [req EXCEPT ![r].at = "asking", ![r].rows = {}]
    /\ UNCHANGED <<user, guesses, strikes, crossed>>

IssueLink(r, k) ==
    /\ req[r].at = "asking" /\ link[k] = "unissued"
    /\ link' = [link EXCEPT ![k] = "live"]
    /\ Ends(r)
    /\ UNCHANGED <<user, guesses, strikes, crossed>>

AskDies(r) ==
    /\ Asking(r) /\ Ends(r)
    /\ UNCHANGED <<user, link, guesses, strikes, crossed>>

-----------------------------------------------------------------------------
(* resetPassword: one transaction                                          *)

\* The claim: whoever comes second waits, and finds the link used or, after a
\* rollback, live.
ClaimLink(r, k) ==
    /\ req[r].at = "idle" /\ LinkLive(k) /\ LinkFree(k, r)
    /\ req' = [req EXCEPT ![r] = [NoRequest EXCEPT !.at = "claimed", !.link = k]]
    /\ UNCHANGED <<user, link, guesses, strikes, crossed>>

\* The new password, the lockout cleared, the row held.
ChangePassword(r) ==
    /\ req[r].at = "claimed" /\ RowFree
    /\ Goes(r, "changed")
    /\ UNCHANGED <<user, link, guesses, strikes, crossed>>

\* The other links, as committed when the statement starts.
BurnOthers(r) ==
    /\ req[r].at = "changed"
    /\ req' = [req EXCEPT ![r].at = "burning", ![r].rows = {k \in Links \ {req[r].link} : LinkLive(k)}]
    /\ UNCHANGED <<user, link, guesses, strikes, crossed>>

ResetCommits(r) ==
    /\ req[r].at = "burning" /\ \A k \in req[r].rows : LinkFree(k, r)
    /\ user' = [user EXCEPT !.failed = 0, !.locked = FALSE]
    /\ strikes' = 0
    /\ link' = [k \in Links |-> IF k \in req[r].rows \cup {req[r].link} THEN "used" ELSE link[k]]
    /\ Ends(r)
    /\ UNCHANGED <<guesses, crossed>>

\* Two resets with two links wait for each other, one for the row and one for
\* the link; or a statement fails.  The link is as before.
ResetFails(r) ==
    /\ req[r].at \in {"claimed", "changed", "burning"}
    /\ Ends(r)
    /\ UNCHANGED <<user, link, guesses, strikes, crossed>>

-----------------------------------------------------------------------------
CodeSteps(r) ==
    \/ SignupRead(r) \/ SignupInsert(r)
    \/ ResendRead(r) \/ ResendWrite(r)
    \/ VerifyRead(r) \/ ClaimAttempt(r) \/ CompareCode(r) \/ Verified(r)

LoginSteps(r) == LoginRead(r) \/ ComparePassword(r) \/ RecordFailed(r) \/ ClearFailed(r)

LinkSteps(r) ==
    \/ AskForLink(r) \/ BurnOld(r) \/ AskDies(r) \/ \E k \in Links : IssueLink(r, k) \/ ClaimLink(r, k)
    \/ ChangePassword(r) \/ BurnOthers(r) \/ ResetCommits(r) \/ ResetFails(r)

AccountsNext == LockEnds \/ \E r \in Requests : CodeSteps(r) \/ LoginSteps(r) \/ LinkSteps(r)

AccountsSpec == AccountsInit /\ [][AccountsNext]_accountVars

-----------------------------------------------------------------------------
(* However many requests guess at once, a verification code is compared at  *)
(* most MAX_VERIFY_ATTEMPTS times by requests that claimed from its own     *)
(* allowance, and a lockout lets no more wrong passwords through than       *)
(* MAX_FAILED_LOGINS and the requests that were past the check when the     *)
(* last of them was counted.                                               *)
GuessesBounded ==
    /\ \A c \in DOMAIN guesses : guesses[c] <= MaxAttempts
    /\ strikes <= MaxFailed + Cardinality(Requests) - 1

(* A user never has two live reset links unless two requests for a link     *)
(* overlapped between burning the old links and inserting the new one;      *)
(* resets that are rolled back, or that wait for each other, revive none.   *)
OneLiveLink == \A j, k \in Links : LinkLive(j) /\ LinkLive(k) /\ j # k => crossed
=============================================================================
