------------------------------ MODULE Accounts ------------------------------
(***************************************************************************)
(* One account of EduCBT and everything that changes how its owner signs   *)
(* in: src/lib/auth/ (credentials.ts, session-store.ts, index.ts,          *)
(* change-password.ts, recovery.ts, recovery-email.ts, recovery-codes.ts,  *)
(* totp-account.ts), and what the office does to it.  Accounts do not      *)
(* share rows, so one is enough.                                           *)
(*                                                                         *)
(* A request of the owner is a row of transactions with slow work between  *)
(* them (hashing runs outside any transaction), and other requests commit  *)
(* in between: req[r] holds what request r has read and is about to write. *)
(* A request may die at every such point.  A reset link travels by the     *)
(* email queue, here in the form of its contract.                          *)
(*                                                                         *)
(* A password is a version number, a secret of an authenticator and a      *)
(* recovery code are numbers; what the owner types is right or wrong.  The *)
(* throttle in front of the sign-in only refuses and keeps no state here.  *)
(***************************************************************************)
EXTENDS Integers, FiniteSets

CONSTANTS
    Requests,       \* requests of the owner that may be under way at once
    Allowed,        \* failures in a row that lock the account: 5
    CodeCount       \* recovery codes issued at once: 8

ASSUME AccountAssumption == Allowed \in Nat \ {0} /\ CodeCount \in Nat

(***************************************************************************)
(* Bounds of the model: requests and acts of the office, sessions, links,  *)
(* recovery codes, and requests that die.                                  *)
(***************************************************************************)
CONSTANTS MaxStarted, MaxSessions, MaxLinks, MaxCodes, MaxDeaths

ASSUME BoundAssumption ==
    /\ {MaxStarted, MaxSessions, MaxLinks, MaxCodes, MaxDeaths} \subseteq Nat
    /\ CodeCount <= MaxCodes

Sessions == 1..MaxSessions
Links == 1..MaxLinks
Codes == 1..MaxCodes

VARIABLES
    user,           \* the row of users
    sessions,       \* sessions: "none" before it is opened, "ended" once it is gone
    links,          \* password_reset_tokens
    mail, inbox,    \* the mails that carry the links, and those that have arrived
    codes,          \* totp_recovery_codes: "gone" once deleted
    req,            \* the requests under way
    secrets,        \* secrets made so far
    started, deaths \* counted against the bounds

vars == <<user, sessions, links, mail, inbox, codes, req, secrets, started, deaths>>

\* Only history: what no row says.
VARIABLES
    failures,       \* wrong passwords and codes since the counters were last reset
    uncounted,      \* those met while another was still to be written, or lost by a death
    effects,        \* passwords written by each link
    spent,          \* sign-ins each recovery code has let through
    passed,         \* sessions whose second step was accepted
    proven,         \* secrets a code has been given for
    swapped,        \* secrets written while a code for another was about to turn two-step on
    overlapped      \* two requests have been under way at once

history == <<failures, uncounted, effects, spent, passed, proven, swapped, overlapped>>
allVars == <<user, sessions, links, mail, inbox, codes, req, secrets, started, deaths,
             failures, uncounted, effects, spent, passed, proven, swapped, overlapped>>

Mail == INSTANCE EmailContract WITH Mails <- Links, status <- mail, handed <- inbox

User == [password : Nat, mustChange : BOOLEAN, active : BOOLEAN, failed : Nat,
         locked : BOOLEAN, secret : Nat, twoStep : BOOLEAN, email : BOOLEAN]

\* by: the password it was opened with; asked: two-step was on when that was checked.
Session == [state : {"none", "pending", "full", "ended"}, by : Nat, asked : BOOLEAN]

NoSession == [state |-> "none", by |-> 0, asked |-> FALSE]
Ended == [NoSession EXCEPT !.state = "ended"]

\* The transactions a request still has before it.
Steps == {"idle", "burn", "finalise", "open", "factor", "accept", "promote", "change",
          "relink", "revoke", "enrol", "confirm", "issue", "disable", "clear"}

\* What it has read: failures to be written, the password it was checked against, whether
\* two-step was on, whether the code given is right, the session, link or recovery code.
Request == [at : Steps, count : Nat, by : Nat, asked : BOOLEAN, right : BOOLEAN,
            session : Nat, link : Nat, code : Nat]

Idle == [at |-> "idle", count |-> 0, by |-> 0, asked |-> FALSE, right |-> FALSE,
         session |-> 0, link |-> 0, code |-> 0]

TypeOK ==
    /\ user \in User
    /\ sessions \in [Sessions -> Session]
    /\ links \in [Links -> {"none", "open", "used", "expired"}]
    /\ mail \in [Links -> {"none", "queued", "sent", "failed"}] /\ inbox \subseteq Links
    /\ codes \in [Codes -> {"none", "fresh", "used", "gone"}]
    /\ req \in [Requests -> Request]
    /\ secrets \in Nat
    /\ started \in 0..MaxStarted /\ deaths \in 0..MaxDeaths
    /\ failures \in Nat /\ uncounted \in Nat
    /\ effects \in [Links -> Nat]
    /\ spent \in [Codes -> Nat]
    /\ passed \subseteq Nat
    /\ proven \subseteq Nat /\ swapped \subseteq Nat
    /\ overlapped \in BOOLEAN

\* An account in use, with two-step sign-in or without.
Init ==
    /\ \E on \in BOOLEAN :
        /\ user = [password |-> 1, mustChange |-> FALSE, active |-> TRUE, failed |-> 0,
                   locked |-> FALSE, secret |-> IF on THEN 1 ELSE 0, twoStep |-> on,
                   email |-> TRUE]
        /\ codes = [c \in Codes |-> IF on /\ c <= CodeCount THEN "fresh" ELSE "none"]
        /\ secrets = user.secret
        /\ proven = {user.secret} \ {0}
    /\ sessions = [s \in Sessions |-> NoSession]
    /\ links = [l \in Links |-> "none"]
    /\ Mail!Init
    /\ req = [r \in Requests |-> Idle]
    /\ started = 0 /\ deaths = 0
    /\ failures = 0 /\ uncounted = 0
    /\ effects = [l \in Links |-> 0]
    /\ spent = [c \in Codes |-> 0]
    /\ passed = {} /\ swapped = {}
    /\ overlapped = FALSE

-----------------------------------------------------------------------------
(***************************************************************************)
(* Requests and sessions.                                                  *)
(***************************************************************************)
Busy(R) == \E r \in R : req[r].at # "idle"

\* A request or an act of the office begins beside those of R.
Begins(R) ==
    /\ started < MaxStarted
    /\ started' = started + 1
    /\ overlapped' = (overlapped \/ Busy(R))

\* The first transaction of request r, which leaves it with what it has read.
Start(r, read) ==
    /\ req[r].at = "idle"
    /\ Begins(Requests \ {r})
    /\ req' = [req EXCEPT ![r] = read]

Step(r, from, to) == req[r].at = from /\ req' = [req EXCEPT ![r].at = to]
Finish(r, from) == req[r].at = from /\ req' = [req EXCEPT ![r] = Idle]

\* Expired and deleted rows are alike: every reader asks for a later expiry.
Live(s) == sessions[s].state \in {"pending", "full"}

AllEnded == [s \in Sessions |-> IF Live(s) THEN Ended ELSE sessions[s]]

\* readSessionUser: the row of the user is read again on every request.
SignedIn == user.active /\ \E s \in Sessions : sessions[s].state = "full"

Locks(n) == n >= Allowed

\* A wrong password or code has been met, and has still to be written.
Guessing(r) == req[r].at = "burn" \/ (req[r].at = "accept" /\ ~req[r].right)

Guesses(r) ==
    /\ failures' = failures + 1
    /\ uncounted' = IF \E q \in Requests \ {r} : Guessing(q) THEN uncounted + 1 ELSE uncounted

Forgets == failures' = 0 /\ uncounted' = 0

-----------------------------------------------------------------------------
(***************************************************************************)
(* Signing in: authenticateCredentials, then createSession.                *)
(***************************************************************************)
\* A wrong password is counted in a transaction of its own, from the count that was read.
SignInWrong(r) ==
    /\ user.active /\ ~user.locked
    /\ Start(r, [Idle EXCEPT !.at = "burn", !.count = user.failed + 1])
    /\ Guesses(r)
    /\ UNCHANGED <<user, sessions, links, mail, inbox, codes, secrets, deaths, effects,
                   spent, passed, proven, swapped>>

\* With two-step on nothing is reset yet, and the session will be a pending one.
SignInRight(r) ==
    /\ user.active /\ ~user.locked
    /\ Start(r, [Idle EXCEPT !.at = IF user.twoStep THEN "open" ELSE "finalise",
                             !.by = user.password, !.asked = user.twoStep])
    /\ UNCHANGED <<user, sessions, links, mail, inbox, codes, secrets, deaths, failures,
                   uncounted, effects, spent, passed, proven, swapped>>

BurnLockout(r) ==
    /\ Finish(r, "burn")
    /\ user' = [user EXCEPT !.failed = req[r].count, !.locked = Locks(req[r].count)]
    /\ UNCHANGED <<sessions, links, mail, inbox, codes, secrets, started, deaths, history>>

Reset(u) == [u EXCEPT !.failed = 0, !.locked = FALSE]

FinaliseSuccess(r) ==
    /\ Step(r, "finalise", "open")
    /\ user' = Reset(user)
    /\ Forgets
    /\ UNCHANGED <<sessions, links, mail, inbox, codes, secrets, started, deaths, effects,
                   spent, passed, proven, swapped, overlapped>>

CreateSession(r) ==
    /\ Finish(r, "open")
    /\ \E s \in Sessions :
        /\ sessions[s].state = "none"
        /\ \A t \in Sessions : t < s => sessions[t].state # "none"
        /\ sessions' = [sessions EXCEPT ![s] =
                            [state |-> IF req[r].asked THEN "pending" ELSE "full",
                             by |-> req[r].by, asked |-> req[r].asked]]
    /\ UNCHANGED <<user, links, mail, inbox, codes, secrets, started, deaths, history>>

\* destroySession at sign-out, or the session runs out and is purged.
EndSession(s) ==
    /\ Live(s)
    /\ sessions' = [sessions EXCEPT ![s] = Ended]
    /\ UNCHANGED <<user, links, mail, inbox, codes, req, secrets, started, deaths, history>>

-----------------------------------------------------------------------------
(***************************************************************************)
(* The second step: readPendingUser, verifySecondFactor in one transaction *)
(* that reads and later writes, finalizePendingSession.                    *)
(***************************************************************************)
ReadPending(r, s) ==
    /\ user.active
    /\ sessions[s].state = "pending"
    /\ Start(r, [Idle EXCEPT !.at = "factor", !.session = s])
    /\ UNCHANGED <<user, sessions, links, mail, inbox, codes, secrets, deaths, failures,
                   uncounted, effects, spent, passed, proven, swapped>>

VerifyReadUsed(r, right, c) ==
    /\ req[r].at = "factor"
    /\ user.active /\ ~user.locked
    /\ ~right => c = 0
    /\ right => IF c = 0 THEN user.secret # 0 ELSE codes[c] \in {"fresh", "used"}
    /\ req' = [req EXCEPT ![r].at = "accept", ![r].right = right, ![r].code = c,
                          ![r].count = IF right THEN 0 ELSE user.failed + 1]
    /\ IF right THEN UNCHANGED <<failures, uncounted>> ELSE Guesses(r)
    /\ UNCHANGED <<user, sessions, links, mail, inbox, codes, secrets, started, deaths,
                   effects, spent, passed, proven, swapped, overlapped>>

\* The user and the code are read; c is a recovery code, or 0 for an authenticator's.
VerifyRead(r, right, c) ==
    /\ req[r].at = "factor"
    /\ user.active /\ ~user.locked
    /\ ~right => c = 0
    /\ right => IF c = 0 THEN user.secret # 0 ELSE codes[c] = "fresh"
    /\ req' = [req EXCEPT ![r].at = "accept", ![r].right = right, ![r].code = c,
                          ![r].count = IF right THEN 0 ELSE user.failed + 1]
    /\ IF right THEN UNCHANGED <<failures, uncounted>> ELSE Guesses(r)
    /\ UNCHANGED <<user, sessions, links, mail, inbox, codes, secrets, started, deaths,
                   effects, spent, passed, proven, swapped, overlapped>>

VerifyRefuses(r) ==
    /\ Finish(r, "factor")
    /\ ~user.active \/ user.locked
    /\ UNCHANGED <<user, sessions, links, mail, inbox, codes, secrets, started, deaths,
                   history>>

VerifyWrongRolledBack(r) ==
    /\ ~req[r].right
    /\ Finish(r, "accept")
    /\ UNCHANGED <<user, sessions, links, mail, inbox, codes, secrets, started, deaths,
                   history>>

VerifyWrong(r) ==
    /\ ~req[r].right
    /\ Finish(r, "accept")
    /\ user' = [user EXCEPT !.failed = req[r].count, !.locked = Locks(req[r].count)]
    /\ UNCHANGED <<sessions, links, mail, inbox, codes, secrets, started, deaths, history>>

\* A recovery code is marked by its id, whatever has become of it since it was read.
VerifyRight(r) ==
    LET c == req[r].code IN
    /\ req[r].right
    /\ Step(r, "accept", "promote")
    /\ codes' = [d \in Codes |-> IF d = c /\ codes[d] = "fresh" THEN "used" ELSE codes[d]]
    /\ spent' = [d \in Codes |-> IF d = c THEN spent[d] + 1 ELSE spent[d]]
    /\ passed' = passed \union {req[r].session}
    /\ user' = [Reset(user) EXCEPT !.mustChange = @ \/ c # 0]
    /\ Forgets
    /\ UNCHANGED <<sessions, links, mail, inbox, secrets, started, deaths, effects, proven,
                   swapped, overlapped>>

\* Only a row that is still pending is promoted.
FinalizePending(r) ==
    LET s == req[r].session IN
    /\ Finish(r, "promote")
    /\ sessions' = [t \in Sessions |->
                        IF t = s /\ sessions[t].state = "pending"
                        THEN [sessions[t] EXCEPT !.state = "full"]
                        ELSE sessions[t]]
    /\ UNCHANGED <<user, links, mail, inbox, codes, secrets, started, deaths, history>>

-----------------------------------------------------------------------------
(***************************************************************************)
(* The password: changed with the current one, set through a mailed link,  *)
(* or set by the office.  The office does it in one transaction; the owner *)
(* writes the password in one and ends the sessions in the next.           *)
(***************************************************************************)
\* The current password was right: hash the new one.
ChangeRead(r) ==
    /\ SignedIn
    /\ Start(r, [Idle EXCEPT !.at = "change"])
    /\ UNCHANGED <<user, sessions, links, mail, inbox, codes, secrets, deaths, failures,
                   uncounted, effects, spent, passed, proven, swapped>>

ChangeWrite(r) ==
    /\ Step(r, "change", "revoke")
    /\ user' = [user EXCEPT !.password = @ + 1, !.mustChange = FALSE]
    /\ UNCHANGED <<sessions, links, mail, inbox, codes, secrets, started, deaths, history>>

Revoke(r) ==
    /\ Finish(r, "revoke")
    /\ sessions' = AllEnded
    /\ UNCHANGED <<user, links, mail, inbox, codes, secrets, started, deaths, history>>

\* The token and the mail that carries it are one transaction.
RequestReset(l) ==
    /\ user.active /\ user.email
    /\ links[l] = "none"
    /\ links' = [links EXCEPT ![l] = "open"]
    /\ Mail!Queue(l)
    /\ UNCHANGED <<user, sessions, codes, req, secrets, started, deaths, history>>

Deliver(l) ==
    /\ l \notin inbox
    /\ Mail!HandOver(l)
    /\ UNCHANGED <<user, sessions, links, codes, req, secrets, started, deaths, history>>

\* Half an hour has passed.
LinkExpires(l) ==
    /\ links[l] = "open"
    /\ links' = [links EXCEPT ![l] = "expired"]
    /\ UNCHANGED <<user, sessions, mail, inbox, codes, req, secrets, started, deaths,
                   history>>

UseLinkUnclaimed(r, l) ==
    /\ l \in inbox
    /\ links[l] # "expired"
    /\ Start(r, [Idle EXCEPT !.at = "relink", !.link = l])
    /\ links' = [links EXCEPT ![l] = "used"]
    /\ UNCHANGED <<user, sessions, mail, inbox, codes, secrets, deaths, failures, uncounted,
                   effects, spent, passed, proven, swapped>>

\* One UPDATE claims the token: of two requests with one link the later finds it used.
UseLink(r, l) ==
    /\ l \in inbox
    /\ links[l] = "open"
    /\ Start(r, [Idle EXCEPT !.at = "relink", !.link = l])
    /\ links' = [links EXCEPT ![l] = "used"]
    /\ UNCHANGED <<user, sessions, mail, inbox, codes, secrets, deaths, failures, uncounted,
                   effects, spent, passed, proven, swapped>>

ResetWrite(r) ==
    LET l == req[r].link IN
    /\ Step(r, "relink", "revoke")
    /\ user' = [Reset(user) EXCEPT !.password = @ + 1, !.mustChange = FALSE]
    /\ effects' = [k \in Links |-> IF k = l THEN effects[k] + 1 ELSE effects[k]]
    /\ Forgets
    /\ UNCHANGED <<sessions, links, mail, inbox, codes, secrets, started, deaths, spent,
                   passed, proven, swapped, overlapped>>

OfficeResetOnly ==
    /\ Begins(Requests)
    /\ user' = [Reset(user) EXCEPT !.password = @ + 1, !.mustChange = TRUE]
    /\ Forgets
    /\ UNCHANGED <<sessions, links, mail, inbox, codes, req, secrets, deaths, effects,
                   spent, passed, proven, swapped>>

OfficeReset ==
    /\ Begins(Requests)
    /\ user' = [Reset(user) EXCEPT !.password = @ + 1, !.mustChange = TRUE]
    /\ sessions' = AllEnded
    /\ Forgets
    /\ UNCHANGED <<links, mail, inbox, codes, req, secrets, deaths, effects, spent, passed,
                   proven, swapped>>

-----------------------------------------------------------------------------
(***************************************************************************)
(* Two-step sign-in on and off: each reads the user in one transaction and *)
(* writes in the next, and the recovery codes in a third.                  *)
(***************************************************************************)
\* The row's secret becomes s, whatever a request about to turn two-step on has checked.
Swaps(s) == swapped' = IF \E q \in Requests : req[q].at = "confirm" THEN swapped \union {s}
                       ELSE swapped

EnrolRead(r) ==
    /\ SignedIn /\ ~user.twoStep
    /\ Start(r, [Idle EXCEPT !.at = "enrol"])
    /\ UNCHANGED <<user, sessions, links, mail, inbox, codes, secrets, deaths, failures,
                   uncounted, effects, spent, passed, proven, swapped>>

EnrolWrite(r) ==
    /\ Finish(r, "enrol")
    /\ secrets' = secrets + 1
    /\ user' = [user EXCEPT !.secret = secrets', !.twoStep = FALSE]
    /\ Swaps(secrets')
    /\ UNCHANGED <<sessions, links, mail, inbox, codes, started, deaths, failures,
                   uncounted, effects, spent, passed, proven, overlapped>>

\* The code was right for the secret that was read.
ConfirmRead(r) ==
    /\ SignedIn /\ ~user.twoStep /\ user.secret # 0
    /\ Start(r, [Idle EXCEPT !.at = "confirm"])
    /\ proven' = proven \union {user.secret}
    /\ UNCHANGED <<user, sessions, links, mail, inbox, codes, secrets, deaths, failures,
                   uncounted, effects, spent, passed, swapped>>

ConfirmWrite(r) ==
    /\ Step(r, "confirm", "issue")
    /\ user' = [user EXCEPT !.twoStep = TRUE]
    /\ UNCHANGED <<sessions, links, mail, inbox, codes, secrets, started, deaths, history>>

RegenerateRead(r) ==
    /\ SignedIn /\ user.twoStep /\ user.secret # 0
    /\ Start(r, [Idle EXCEPT !.at = "issue"])
    /\ UNCHANGED <<user, sessions, links, mail, inbox, codes, secrets, deaths, failures,
                   uncounted, effects, spent, passed, proven, swapped>>

Cleared == [c \in Codes |-> IF codes[c] = "none" THEN "none" ELSE "gone"]

\* Every code there was is deleted and CodeCount new ones take their place.
IssueRecoveryCodes(r) ==
    LET last == Cardinality({c \in Codes : codes[c] # "none"}) IN
    /\ Finish(r, "issue")
    /\ last + CodeCount <= MaxCodes
    /\ codes' = [c \in Codes |->
                    IF c \in last + 1 .. last + CodeCount THEN "fresh" ELSE Cleared[c]]
    /\ UNCHANGED <<user, sessions, links, mail, inbox, secrets, started, deaths, history>>

DisableRead(r) ==
    /\ SignedIn /\ user.twoStep /\ user.secret # 0
    /\ Start(r, [Idle EXCEPT !.at = "disable"])
    /\ UNCHANGED <<user, sessions, links, mail, inbox, codes, secrets, deaths, failures,
                   uncounted, effects, spent, passed, proven, swapped>>

DisableWriteOnly(r) ==
    /\ Finish(r, "disable")
    /\ user' = [user EXCEPT !.twoStep = FALSE, !.secret = 0]
    /\ Swaps(0)
    /\ UNCHANGED <<sessions, links, mail, inbox, codes, secrets, started, deaths, failures,
                   uncounted, effects, spent, passed, proven, overlapped>>

DisableWrite(r) ==
    /\ Step(r, "disable", "clear")
    /\ user' = [user EXCEPT !.twoStep = FALSE, !.secret = 0]
    /\ Swaps(0)
    /\ UNCHANGED <<sessions, links, mail, inbox, codes, secrets, started, deaths, failures,
                   uncounted, effects, spent, passed, proven, overlapped>>

ClearRecoveryCodes(r) ==
    /\ Finish(r, "clear")
    /\ codes' = Cleared
    /\ UNCHANGED <<user, sessions, links, mail, inbox, secrets, started, deaths, history>>

-----------------------------------------------------------------------------
(***************************************************************************)
(* The rest: the owner's address, standing, time, and requests that die.   *)
(***************************************************************************)
\* setRecoveryEmail asks for the password and writes in the same transaction.
SetRecoveryEmail ==
    /\ SignedIn
    /\ user' = [user EXCEPT !.email = ~@]
    /\ UNCHANGED <<sessions, links, mail, inbox, codes, req, secrets, started, deaths,
                   history>>

StandDown ==
    /\ user.active
    /\ Begins(Requests)
    /\ user' = [user EXCEPT !.active = FALSE]
    /\ sessions' = AllEnded
    /\ UNCHANGED <<links, mail, inbox, codes, req, secrets, deaths, failures, uncounted,
                   effects, spent, passed, proven, swapped>>

Reinstate ==
    /\ ~user.active
    /\ user' = [user EXCEPT !.active = TRUE]
    /\ UNCHANGED <<sessions, links, mail, inbox, codes, req, secrets, started, deaths,
                   history>>

\* locked_until passes; the count stays, so the next failure locks for longer.
LockEnds ==
    /\ user.locked
    /\ user' = [user EXCEPT !.locked = FALSE]
    /\ UNCHANGED <<sessions, links, mail, inbox, codes, req, secrets, started, deaths,
                   history>>

Dies(r) ==
    /\ deaths < MaxDeaths
    /\ deaths' = deaths + 1
    /\ req[r].at # "idle"
    /\ req' = [req EXCEPT ![r] = Idle]
    /\ uncounted' = IF Guessing(r) THEN uncounted + 1 ELSE uncounted
    /\ UNCHANGED <<user, sessions, links, mail, inbox, codes, secrets, started, failures,
                   effects, spent, passed, proven, swapped, overlapped>>

SignsIn(r) ==
    \/ SignInWrong(r) \/ SignInRight(r) \/ BurnLockout(r)
    \/ FinaliseSuccess(r) \/ CreateSession(r)

SecondStep(r) ==
    \/ \E s \in Sessions : ReadPending(r, s)
    \/ \E right \in BOOLEAN, c \in Codes \union {0} : VerifyRead(r, right, c)
    \/ VerifyRefuses(r) \/ VerifyWrong(r) \/ VerifyRight(r) \/ FinalizePending(r)

ChangesPassword(r) ==
    \/ ChangeRead(r) \/ ChangeWrite(r) \/ Revoke(r)
    \/ \E l \in Links : UseLink(r, l)
    \/ ResetWrite(r)

TurnsTwoStep(r) ==
    \/ EnrolRead(r) \/ EnrolWrite(r) \/ ConfirmRead(r) \/ ConfirmWrite(r)
    \/ RegenerateRead(r) \/ IssueRecoveryCodes(r)
    \/ DisableRead(r) \/ DisableWrite(r) \/ ClearRecoveryCodes(r)

Next ==
    \/ \E r \in Requests :
        SignsIn(r) \/ SecondStep(r) \/ ChangesPassword(r) \/ TurnsTwoStep(r) \/ Dies(r)
    \/ \E s \in Sessions : EndSession(s)
    \/ \E l \in Links : RequestReset(l) \/ Deliver(l) \/ LinkExpires(l)
    \/ OfficeReset \/ SetRecoveryEmail \/ StandDown \/ Reinstate \/ LockEnds

Spec == Init /\ [][Next]_allVars

-----------------------------------------------------------------------------
\* Nothing of a request is left to do, and none died or met another on the way.
Undisturbed == ~overlapped /\ deaths = 0
Settled == ~Busy(Requests)

(***************************************************************************)
(* A mailed link changes the password at most once, however many requests  *)
(* hold it (the claim in resetPasswordWithToken), and a link that is used  *)
(* has changed it, is about to, or was lost with a request that died.      *)
(***************************************************************************)
LinksWorkOnce ==
    \A l \in Links :
        /\ effects[l] <= 1
        /\ effects[l] = 1 => links[l] = "used"
        /\ links[l] = "used" /\ deaths = 0 =>
            effects[l] = 1 \/ \E r \in Requests : req[r].at = "relink" /\ req[r].link = l

(***************************************************************************)
(* A session opened while two-step was on opens the portal only after a    *)
(* code was accepted for that very session, and requests that take turns   *)
(* never get two sessions past one recovery code (verifySecondFactor).     *)
(***************************************************************************)
TwoStepsTaken ==
    /\ \A s \in Sessions :
        sessions[s].state = "full" /\ sessions[s].asked => s \in passed
    /\ ~overlapped => \A c \in Codes : spent[c] <= 1

(***************************************************************************)
(* Once a change of the password has run to its end, no session opened     *)
(* with an earlier password is left, if no other request came between      *)
(* (changeOwnPassword, resetPasswordWithToken, resetStaffPassword).        *)
(***************************************************************************)
OldPasswordsAreOut ==
    Undisturbed /\ Settled =>
        \A s \in Sessions : Live(s) => sessions[s].by = user.password

(***************************************************************************)
(* The same when requests meet: every other device must sign in again.     *)
(***************************************************************************)
OldPasswordsAreAlwaysOut ==
    deaths = 0 /\ Settled =>
        \A s \in Sessions : Live(s) => sessions[s].by = user.password

(***************************************************************************)
(* Two-step is on only with a secret its owner has shown to hold, so that  *)
(* nobody is shut out by a half-finished set-up, unless the secret was     *)
(* replaced between the check of a code and the write that turned two-step *)
(* on (confirmTotpEnrollment beside startTotpEnrollment).  Requests that   *)
(* take turns and do not die leave one set of recovery codes while it is   *)
(* on, and none while it is off.                                           *)
(***************************************************************************)
TwoStepIsProven ==
    /\ user.twoStep => user.secret \in proven \union swapped
    /\ Undisturbed /\ Settled =>
        Cardinality({c \in Codes : codes[c] \in {"fresh", "used"}})
            = IF user.twoStep THEN CodeCount ELSE 0

(***************************************************************************)
(* "The three-step flow keeps a half-finished enrollment harmless" (the    *)
(* head of totp-account.ts), whatever requests meet.  It is not so: a      *)
(* set-up started again beside a confirmation is turned on unproven.  In   *)
(* no configuration, like the next.                                        *)
(***************************************************************************)
TwoStepIsAlwaysProven == user.twoStep => user.secret \in proven

(***************************************************************************)
(* Wrong passwords and wrong codes at the sign-in count against the same   *)
(* budget, and only a full sign-in, a reset link or the office gives it    *)
(* back: half a sign-in does not (burnLockout, verifySecondFactor).  What  *)
(* is not counted was met while another was still to be written, or its    *)
(* request died.  Requests that take turns and do not die are counted to   *)
(* the number, and lock the account only when enough have failed.          *)
(***************************************************************************)
GuessesAreCounted ==
    /\ (\A r \in Requests : ~Guessing(r)) => failures <= user.failed + uncounted
    /\ Undisturbed /\ Settled =>
        /\ user.failed = failures
        /\ user.locked => failures >= Allowed

(***************************************************************************)
(* The same however the guesses meet: two at once would count twice.  They *)
(* count once, as each writes the number it had read plus one.             *)
(***************************************************************************)
GuessesAreAlwaysCounted == deaths = 0 /\ Settled => failures <= user.failed
=============================================================================
