--------------------------- MODULE AccountsProofs ---------------------------
(***************************************************************************)
(* What Accounts guarantees for any number of requests at once, any        *)
(* lockout, any number of recovery codes and every bound; and, at the end, *)
(* what Staffing guarantees of the staff those accounts are for.           *)
(***************************************************************************)
EXTENDS Accounts, Staffing, FiniteSetTheorems, TLAPS

LEMMA InitTyped == Init => TypeOK
<1> SUFFICES ASSUME Init PROVE TypeOK
  OBVIOUS
<1> USE DEF Init
<1>1. user \in User
  BY DEF User
<1>2. mail \in [Links -> {"none", "queued", "sent", "failed"}] /\ inbox \subseteq Links
  BY DEF Mail!Init
<1>3. req \in [Requests -> Request]
  BY DEF Idle, Request, Steps
<1>4. sessions \in [Sessions -> Session]
  BY DEF NoSession, Session
<1>5. codes \in [Codes -> {"none", "fresh", "used", "gone"}]
  BY DEF Codes
<1>6. secrets \in Nat /\ proven \subseteq Nat /\ swapped \subseteq Nat
  <2>1. user.secret \in Nat
    BY <1>1 DEF User
  <2> QED
    BY <2>1
<1>7. started \in 0..MaxStarted /\ deaths \in 0..MaxDeaths /\ failures \in Nat
        /\ uncounted \in Nat
  BY BoundAssumption
<1>8. effects \in [Links -> Nat] /\ spent \in [Codes -> Nat]
  OBVIOUS
<1>9. links \in [Links -> {"none", "open", "used", "expired"}]
  OBVIOUS
<1> QED
  BY <1>1, <1>2, <1>3, <1>4, <1>5, <1>6, <1>7, <1>8, <1>9 DEF TypeOK

-----------------------------------------------------------------------------
(***************************************************************************)
(* What a request and the row of the user are after a step.                *)
(***************************************************************************)
LEMMA Reads ==
  ASSUME NEW at \in Steps
  PROVE  [Idle EXCEPT !.at = at] \in Request /\ [Idle EXCEPT !.at = at].at = at
BY DEF Idle, Request, Steps

LEMMA ReadsCount ==
  ASSUME NEW at \in Steps, NEW n \in Nat
  PROVE  /\ [Idle EXCEPT !.at = at, !.count = n] \in Request
         /\ [Idle EXCEPT !.at = at, !.count = n].at = at
         /\ [Idle EXCEPT !.at = at, !.count = n].count = n
BY DEF Idle, Request, Steps

LEMMA ReadsSession ==
  ASSUME NEW at \in Steps, NEW n \in Nat
  PROVE  /\ [Idle EXCEPT !.at = at, !.session = n] \in Request
         /\ [Idle EXCEPT !.at = at, !.session = n].at = at
BY DEF Idle, Request, Steps

LEMMA ReadsLink ==
  ASSUME NEW at \in Steps, NEW n \in Nat
  PROVE  /\ [Idle EXCEPT !.at = at, !.link = n] \in Request
         /\ [Idle EXCEPT !.at = at, !.link = n].at = at
         /\ [Idle EXCEPT !.at = at, !.link = n].link = n
BY DEF Idle, Request, Steps

\* The two reads of a sign-in.
LEMMA SignInReads ==
  ASSUME TypeOK
  PROVE  LET wrong == [Idle EXCEPT !.at = "burn", !.count = user.failed + 1]
             at == IF user.twoStep THEN "open" ELSE "finalise"
             right == [Idle EXCEPT !.at = at, !.by = user.password, !.asked = user.twoStep]
         IN  /\ wrong \in Request /\ wrong.at = "burn" /\ wrong.count = user.failed + 1
             /\ right \in Request /\ right.at = at
             /\ right.by = user.password
<1> DEFINE n == user.failed + 1
<1> DEFINE at == IF user.twoStep THEN "open" ELSE "finalise"
<1> DEFINE by == user.password
<1> DEFINE asked == user.twoStep
<1>1. n \in Nat /\ by \in Nat /\ asked \in BOOLEAN
  BY DEF TypeOK, User
<1>2. "burn" \in Steps /\ at \in Steps
  BY DEF Steps
<1>3. /\ [Idle EXCEPT !.at = "burn", !.count = n] \in Request
      /\ [Idle EXCEPT !.at = "burn", !.count = n].at = "burn"
      /\ [Idle EXCEPT !.at = "burn", !.count = n].count = n
  <2> HIDE DEF n
  <2> QED
    BY <1>1, <1>2, ReadsCount
<1>4. /\ [Idle EXCEPT !.at = at, !.by = by, !.asked = asked] \in Request
      /\ [Idle EXCEPT !.at = at, !.by = by, !.asked = asked].at = at
      /\ [Idle EXCEPT !.at = at, !.by = by, !.asked = asked].by = by
  <2> HIDE DEF at, by, asked
  <2> QED
    BY <1>1, <1>2 DEF Idle, Request
<1> QED
  BY <1>3, <1>4

LEMMA IdleIsRequest == Idle \in Request
BY DEF Idle, Request, Steps

LEMMA StartFacts ==
  ASSUME TypeOK, NEW r \in Requests, NEW read \in Request, Start(r, read)
  PROVE  /\ req[r].at = "idle"
         /\ req' = [req EXCEPT ![r] = read]
         /\ req' \in [Requests -> Request]
         /\ req'[r] = read
         /\ started' \in 0..MaxStarted
         /\ overlapped' \in BOOLEAN
         /\ ~overlapped' => ~overlapped /\ \A q \in Requests \ {r} : req[q].at = "idle"
<1>1. req \in [Requests -> Request] /\ overlapped \in BOOLEAN
  BY DEF TypeOK
<1>2. started' \in 0..MaxStarted
  BY BoundAssumption DEF TypeOK, Start, Begins
<1> QED
  BY <1>1, <1>2 DEF Start, Begins, Busy

LEMMA StepFacts ==
  ASSUME TypeOK, NEW r \in Requests, NEW from, NEW to \in Steps, Step(r, from, to)
  PROVE  /\ req[r].at = from
         /\ req' \in [Requests -> Request]
         /\ req'[r].at = to
         /\ req'[r].by = req[r].by /\ req'[r].asked = req[r].asked
         /\ req'[r].session = req[r].session /\ req'[r].link = req[r].link
         /\ \A q \in Requests : q # r => req'[q] = req[q]
<1>1. req \in [Requests -> Request]
  BY DEF TypeOK
<1>2. req[r] \in Request
  BY <1>1
<1>3. [req[r] EXCEPT !.at = to] \in Request
  BY <1>2 DEF Request
<1>4. req' = [req EXCEPT ![r] = [req[r] EXCEPT !.at = to]]
  BY <1>1 DEF Step
<1>5. req'[r] = [req[r] EXCEPT !.at = to]
  BY <1>1, <1>4
<1> QED
  BY <1>1, <1>2, <1>3, <1>4, <1>5 DEF Step, Request

LEMMA FinishFacts ==
  ASSUME TypeOK, NEW r \in Requests, NEW from, Finish(r, from)
  PROVE  /\ req[r].at = from
         /\ req' \in [Requests -> Request]
         /\ req'[r] = Idle
         /\ \A q \in Requests : q # r => req'[q] = req[q]
BY IdleIsRequest DEF TypeOK, Finish

\* What a request holds.
LEMMA Held ==
  ASSUME TypeOK, NEW r \in Requests
  PROVE  /\ req[r].at \in Steps /\ req[r].count \in Nat /\ req[r].by \in Nat
         /\ req[r].asked \in BOOLEAN /\ req[r].right \in BOOLEAN
         /\ req[r].session \in Nat /\ req[r].link \in Nat /\ req[r].code \in Nat
<1>1. req[r] \in Request
  BY DEF TypeOK
<1> QED
  BY <1>1 DEF Request

LEMMA UserFields ==
  ASSUME TypeOK
  PROVE  /\ user.password \in Nat /\ user.mustChange \in BOOLEAN /\ user.active \in BOOLEAN
         /\ user.failed \in Nat /\ user.locked \in BOOLEAN /\ user.secret \in Nat
         /\ user.twoStep \in BOOLEAN /\ user.email \in BOOLEAN
BY DEF TypeOK, User

LEMMA UserEdits ==
  ASSUME NEW u \in User, NEW n \in Nat, NEW b \in BOOLEAN
  PROVE  /\ [u EXCEPT !.failed = n, !.locked = b] \in User
         /\ [u EXCEPT !.mustChange = b] \in User
         /\ [u EXCEPT !.password = n, !.mustChange = b] \in User
         /\ [u EXCEPT !.secret = n, !.twoStep = b] \in User
         /\ [u EXCEPT !.twoStep = b, !.secret = n] \in User
         /\ [u EXCEPT !.twoStep = b] \in User
         /\ [u EXCEPT !.email = b] \in User
         /\ [u EXCEPT !.active = b] \in User
         /\ [u EXCEPT !.locked = b] \in User
BY DEF User

LEMMA ResetFacts ==
  ASSUME NEW u \in User
  PROVE  /\ Reset(u) \in User
         /\ Reset(u).failed = 0 /\ Reset(u).locked = FALSE
         /\ Reset(u).password = u.password /\ Reset(u).mustChange = u.mustChange
         /\ Reset(u).active = u.active /\ Reset(u).secret = u.secret
         /\ Reset(u).twoStep = u.twoStep /\ Reset(u).email = u.email
BY DEF Reset, User

LEMMA SessionEdits ==
  ASSUME TypeOK
  PROVE  /\ Ended \in Session
         /\ AllEnded \in [Sessions -> Session]
         /\ \A s \in Sessions : AllEnded[s].state \in {"none", "ended"}
<1>1. Ended \in Session /\ Ended.state = "ended"
  BY DEF Ended, NoSession, Session
<1>2. \A s \in Sessions : sessions[s] \in Session /\ sessions[s].state \in {"none", "pending", "full", "ended"}
  BY DEF TypeOK, Session
<1> QED
  BY <1>1, <1>2 DEF AllEnded, Live

-----------------------------------------------------------------------------
LEMMA TypeStep == TypeOK /\ [Next]_allVars => TypeOK'
<1> SUFFICES ASSUME TypeOK, [Next]_allVars PROVE TypeOK'
  OBVIOUS
<1> USE DEF TypeOK, history, vars
<1>0. user \in User /\ user.password \in Nat /\ user.failed \in Nat /\ user.twoStep \in BOOLEAN
      /\ user.mustChange \in BOOLEAN /\ user.secret \in Nat /\ user.email \in BOOLEAN
      /\ user.password + 1 \in Nat /\ user.failed + 1 \in Nat /\ secrets + 1 \in Nat
      /\ failures + 1 \in Nat /\ uncounted + 1 \in Nat
  BY UserFields
<1>1. ASSUME NEW r \in Requests, SignInWrong(r) PROVE TypeOK'
  <2>1. [Idle EXCEPT !.at = "burn", !.count = user.failed + 1] \in Request
    BY SignInReads
  <2> QED
    BY <1>0, <1>1, <2>1, StartFacts DEF SignInWrong, Guesses
<1>2. ASSUME NEW r \in Requests, SignInRight(r) PROVE TypeOK'
  <2>1. [Idle EXCEPT !.at = IF user.twoStep THEN "open" ELSE "finalise",
                     !.by = user.password, !.asked = user.twoStep] \in Request
    BY SignInReads
  <2> QED
    BY <1>2, <2>1, StartFacts DEF SignInRight
<1>3. ASSUME NEW r \in Requests, BurnLockout(r) PROVE TypeOK'
  <2>1. Locks(req[r].count) \in BOOLEAN
    BY DEF Locks
  <2>2. user' \in User
    BY <1>0, <1>3, <2>1, Held, UserEdits DEF BurnLockout
  <2> QED
    BY <1>3, <2>2, FinishFacts DEF BurnLockout
<1>4. ASSUME NEW r \in Requests, FinaliseSuccess(r) PROVE TypeOK'
  BY <1>4, StepFacts, ResetFacts DEF FinaliseSuccess, Forgets, Steps
<1>5. ASSUME NEW r \in Requests, CreateSession(r) PROVE TypeOK'
  <2>1. [state |-> IF req[r].asked THEN "pending" ELSE "full",
         by |-> req[r].by, asked |-> req[r].asked] \in Session
    BY Held DEF Session
  <2>2. sessions' \in [Sessions -> Session]
    BY <1>5, <2>1 DEF CreateSession
  <2> QED
    BY <1>5, <2>2, FinishFacts DEF CreateSession
<1>6. ASSUME NEW r \in Requests, NEW s \in Sessions, ReadPending(r, s) PROVE TypeOK'
  <2>0. s \in Nat
    BY DEF Sessions
  <2>1. [Idle EXCEPT !.at = "factor", !.session = s] \in Request
    BY <2>0, ReadsSession DEF Steps
  <2> QED
    BY <1>6, <2>1, StartFacts DEF ReadPending
<1>7. ASSUME NEW r \in Requests, NEW right \in BOOLEAN, NEW c \in Codes \union {0},
             VerifyRead(r, right, c)
      PROVE  TypeOK'
  <2>1. req[r] \in Request /\ c \in Nat
    BY DEF Codes
  <2>2. [req[r] EXCEPT !.at = "accept", !.right = right, !.code = c,
                       !.count = IF right THEN 0 ELSE user.failed + 1] \in Request
    BY <1>0, <2>1 DEF Request, Steps
  <2>3. req' \in [Requests -> Request]
    BY <1>7, <2>2 DEF VerifyRead
  <2> QED
    BY <1>0, <1>7, <2>3 DEF VerifyRead, Guesses
<1>8. ASSUME NEW r \in Requests, VerifyRefuses(r) PROVE TypeOK'
  BY <1>8, FinishFacts DEF VerifyRefuses
<1>9. ASSUME NEW r \in Requests, VerifyWrong(r) PROVE TypeOK'
  <2>1. Locks(req[r].count) \in BOOLEAN
    BY DEF Locks
  <2>2. user' \in User
    BY <1>0, <1>9, <2>1, Held, UserEdits DEF VerifyWrong
  <2> QED
    BY <1>9, <2>2, FinishFacts DEF VerifyWrong
<1>10. ASSUME NEW r \in Requests, VerifyRight(r) PROVE TypeOK'
  <2>1. user' \in User
    <3>1. Reset(user) \in User /\ Reset(user).mustChange \in BOOLEAN
      BY <1>0, ResetFacts
    <3>2. (Reset(user).mustChange \/ req[r].code # 0) \in BOOLEAN
      OBVIOUS
    <3> QED
      BY <1>10, <3>1, <3>2, UserEdits DEF VerifyRight
  <2>2. codes' \in [Codes -> {"none", "fresh", "used", "gone"}] /\ spent' \in [Codes -> Nat]
    BY <1>10 DEF VerifyRight
  <2>3. req' \in [Requests -> Request]
    BY <1>10, StepFacts DEF VerifyRight, Steps
  <2>4. passed' \subseteq Nat
    BY <1>10, Held DEF VerifyRight
  <2> QED
    BY <1>10, <2>1, <2>2, <2>3, <2>4 DEF VerifyRight, Forgets
<1>11. ASSUME NEW r \in Requests, FinalizePending(r) PROVE TypeOK'
  <2>1. \A s \in Sessions : [sessions[s] EXCEPT !.state = "full"] \in Session
    BY DEF Session
  <2>2. sessions' \in [Sessions -> Session]
    BY <1>11, <2>1 DEF FinalizePending
  <2> QED
    BY <1>11, <2>2, FinishFacts DEF FinalizePending
<1>12. ASSUME NEW r \in Requests, ChangeRead(r) PROVE TypeOK'
  BY <1>12, Reads, StartFacts DEF ChangeRead, Steps
<1>13. ASSUME NEW r \in Requests, ChangeWrite(r) PROVE TypeOK'
  BY <1>0, <1>13, StepFacts, UserEdits DEF ChangeWrite, Steps
<1>14. ASSUME NEW r \in Requests, Revoke(r) PROVE TypeOK'
  BY <1>14, FinishFacts, SessionEdits DEF Revoke
<1>15. ASSUME NEW r \in Requests, NEW l \in Links, UseLink(r, l) PROVE TypeOK'
  <2>0. l \in Nat
    BY DEF Links
  <2>1. [Idle EXCEPT !.at = "relink", !.link = l] \in Request
    BY <2>0, ReadsLink DEF Steps
  <2> QED
    BY <1>15, <2>1, StartFacts DEF UseLink
<1>16. ASSUME NEW r \in Requests, ResetWrite(r) PROVE TypeOK'
  <2>1. user' \in User
    <3>1. Reset(user) \in User /\ Reset(user).password + 1 \in Nat
      BY <1>0, ResetFacts
    <3> QED
      BY <1>16, <3>1, UserEdits DEF ResetWrite
  <2>2. effects' \in [Links -> Nat]
    BY <1>16 DEF ResetWrite
  <2>3. req' \in [Requests -> Request]
    BY <1>16, StepFacts DEF ResetWrite, Steps
  <2> QED
    BY <1>16, <2>1, <2>2, <2>3 DEF ResetWrite, Forgets
<1>17. ASSUME NEW r \in Requests, EnrolRead(r) \/ RegenerateRead(r) \/ DisableRead(r)
       PROVE  TypeOK'
  BY <1>17, Reads, StartFacts DEF EnrolRead, RegenerateRead, DisableRead, Steps
<1>18. ASSUME NEW r \in Requests, EnrolWrite(r) PROVE TypeOK'
  BY <1>0, <1>18, FinishFacts, UserEdits DEF EnrolWrite, Swaps
<1>19. ASSUME NEW r \in Requests, ConfirmRead(r) PROVE TypeOK'
  BY <1>0, <1>19, Reads, StartFacts DEF ConfirmRead, Steps
<1>20. ASSUME NEW r \in Requests, ConfirmWrite(r) PROVE TypeOK'
  BY <1>0, <1>20, StepFacts, UserEdits DEF ConfirmWrite, Steps
<1>21. ASSUME NEW r \in Requests, IssueRecoveryCodes(r) \/ ClearRecoveryCodes(r) PROVE TypeOK'
  <2>1. codes' \in [Codes -> {"none", "fresh", "used", "gone"}]
    BY <1>21 DEF IssueRecoveryCodes, ClearRecoveryCodes, Cleared
  <2> QED
    BY <1>21, <2>1, FinishFacts DEF IssueRecoveryCodes, ClearRecoveryCodes
<1>22. ASSUME NEW r \in Requests, DisableWrite(r) PROVE TypeOK'
  <2>1. user' \in User /\ swapped' \subseteq Nat
    <3>1. user' = [user EXCEPT !.twoStep = FALSE, !.secret = 0] /\ Swaps(0)
      BY <1>22 DEF DisableWrite
    <3>2. user' \in User
      BY <1>0, <3>1, UserEdits
    <3>3. swapped' \subseteq Nat
      BY <3>1 DEF Swaps
    <3> QED
      BY <3>2, <3>3
  <2>2. req' \in [Requests -> Request]
    BY <1>22, StepFacts DEF DisableWrite, Steps
  <2> QED
    BY <1>22, <2>1, <2>2 DEF DisableWrite
<1>23. ASSUME NEW r \in Requests, Dies(r) PROVE TypeOK'
  <2>1. deaths' \in 0..MaxDeaths
    BY <1>23, BoundAssumption DEF Dies
  <2>2. uncounted' \in Nat
    BY <1>0, <1>23 DEF Dies
  <2> QED
    BY <1>23, <2>1, <2>2, IdleIsRequest DEF Dies
<1>24. ASSUME NEW s \in Sessions, EndSession(s) PROVE TypeOK'
  BY <1>24, SessionEdits DEF EndSession
<1>25. ASSUME NEW l \in Links, RequestReset(l) \/ Deliver(l) \/ LinkExpires(l) PROVE TypeOK'
  BY <1>25 DEF RequestReset, Deliver, LinkExpires, Mail!Queue, Mail!HandOver
<1>26. ASSUME NEW R, Begins(R) PROVE started' \in 0..MaxStarted /\ overlapped' \in BOOLEAN
  BY <1>26, BoundAssumption DEF Begins, Busy
<1>27. CASE OfficeReset
  <2>1. Reset(user) \in User /\ Reset(user).password + 1 \in Nat
    BY <1>0, ResetFacts
  <2>2. user' \in User
    BY <1>27, <2>1, UserEdits DEF OfficeReset
  <2>3. started' \in 0..MaxStarted /\ overlapped' \in BOOLEAN
    BY <1>26, <1>27 DEF OfficeReset
  <2> QED
    BY <1>27, <2>2, <2>3, SessionEdits DEF OfficeReset, Forgets
<1>28. CASE StandDown
  <2>1. user' \in User
    BY <1>28, UserEdits DEF StandDown
  <2>2. started' \in 0..MaxStarted /\ overlapped' \in BOOLEAN
    BY <1>26, <1>28 DEF StandDown
  <2> QED
    BY <1>28, <2>1, <2>2, SessionEdits DEF StandDown
<1>29. CASE SetRecoveryEmail \/ Reinstate \/ LockEnds
  BY <1>0, <1>29, UserEdits DEF SetRecoveryEmail, Reinstate, LockEnds
<1>30. CASE UNCHANGED allVars
  BY <1>30 DEF allVars
<1> QED
  BY <1>1, <1>2, <1>3, <1>4, <1>5, <1>6, <1>7, <1>8, <1>9, <1>10, <1>11, <1>12, <1>13, <1>14,
     <1>15, <1>16, <1>17, <1>18, <1>19, <1>20, <1>21, <1>22, <1>23, <1>24, <1>25, <1>27, <1>28,
     <1>29, <1>30
     DEF Next, SignsIn, SecondStep, ChangesPassword, TurnsTwoStep

(***************************************************************************)
(* Every variable keeps its type.                                          *)
(***************************************************************************)
THEOREM TypeCorrect == Spec => []TypeOK
<1>1. Init => TypeOK
  BY InitTyped
<1>2. TypeOK /\ [Next]_allVars => TypeOK'
  BY TypeStep
<1> QED
  BY <1>1, <1>2, PTL DEF Spec
-----------------------------------------------------------------------------
(***************************************************************************)
(* How each action moves its request, field by field.                      *)
(***************************************************************************)
Goes(r, from, to) ==
    /\ req[r].at = from
    /\ req'[r].at = to
    /\ \A q \in Requests : q # r => req'[q] = req[q]

LEMMA StartGoes ==
  ASSUME TypeOK, NEW r \in Requests, NEW read \in Request, Start(r, read)
  PROVE  Goes(r, "idle", read.at) /\ req'[r] = read
BY StartFacts DEF Goes, TypeOK

LEMMA StepGoes ==
  ASSUME TypeOK, NEW r \in Requests, NEW from, NEW to \in Steps, Step(r, from, to)
  PROVE  /\ Goes(r, from, to)
         /\ req'[r].by = req[r].by /\ req'[r].asked = req[r].asked
         /\ req'[r].session = req[r].session /\ req'[r].link = req[r].link
BY StepFacts DEF Goes

LEMMA FinishGoes ==
  ASSUME TypeOK, NEW r \in Requests, NEW from, Finish(r, from)
  PROVE  Goes(r, from, "idle")
BY FinishFacts DEF Goes, Idle

LEMMA SigningInMoves ==
  ASSUME TypeOK, NEW r \in Requests
  PROVE  /\ SignInWrong(r) =>
                Goes(r, "idle", "burn") /\ req'[r].count = user.failed + 1
         /\ SignInRight(r) =>
                /\ Goes(r, "idle", IF user.twoStep THEN "open" ELSE "finalise")
                /\ req'[r].by = user.password
         /\ BurnLockout(r) => Goes(r, "burn", "idle")
         /\ FinaliseSuccess(r) =>
                Goes(r, "finalise", "open") /\ req'[r].by = req[r].by
         /\ CreateSession(r) => Goes(r, "open", "idle")
<1>1. ASSUME SignInWrong(r) PROVE Goes(r, "idle", "burn") /\ req'[r].count = user.failed + 1
  <2> DEFINE read == [Idle EXCEPT !.at = "burn", !.count = user.failed + 1]
  <2>1. read \in Request /\ read.at = "burn" /\ read.count = user.failed + 1
    BY SignInReads
  <2>2. Start(r, read)
    BY <1>1 DEF SignInWrong
  <2> QED
    BY <2>1, <2>2, StartGoes
<1>2. ASSUME SignInRight(r)
      PROVE  /\ Goes(r, "idle", IF user.twoStep THEN "open" ELSE "finalise")
             /\ req'[r].by = user.password
  <2> DEFINE at == IF user.twoStep THEN "open" ELSE "finalise"
  <2> DEFINE read == [Idle EXCEPT !.at = at, !.by = user.password, !.asked = user.twoStep]
  <2>1. read \in Request /\ read.at = at /\ read.by = user.password
    BY SignInReads
  <2>2. Start(r, read)
    BY <1>2 DEF SignInRight
  <2> QED
    BY <2>1, <2>2, StartGoes
<1> QED
  BY <1>1, <1>2, StepGoes, FinishGoes DEF BurnLockout, FinaliseSuccess, CreateSession, Steps

LEMMA SecondStepMoves ==
  ASSUME TypeOK, NEW r \in Requests
  PROVE  /\ \A s \in Sessions : ReadPending(r, s) => Goes(r, "idle", "factor")
         /\ \A right \in BOOLEAN, c \in Codes \union {0} :
                VerifyRead(r, right, c) =>
                    /\ Goes(r, "factor", "accept")
                    /\ req'[r].right = right /\ req'[r].code = c
                    /\ ~right => req'[r].count = user.failed + 1
         /\ VerifyRefuses(r) => Goes(r, "factor", "idle")
         /\ VerifyWrong(r) => Goes(r, "accept", "idle")
         /\ VerifyRight(r) =>
                Goes(r, "accept", "promote") /\ req'[r].session = req[r].session
         /\ FinalizePending(r) => Goes(r, "promote", "idle")
<1>1. ASSUME NEW s \in Sessions, ReadPending(r, s) PROVE Goes(r, "idle", "factor")
  <2> DEFINE read == [Idle EXCEPT !.at = "factor", !.session = s]
  <2>1. s \in Nat
    BY DEF Sessions
  <2>2. read \in Request /\ read.at = "factor"
    BY <2>1, ReadsSession DEF Steps
  <2>3. Start(r, read)
    BY <1>1 DEF ReadPending
  <2> QED
    BY <2>2, <2>3, StartGoes
<1>2. ASSUME NEW right \in BOOLEAN, NEW c \in Codes \union {0}, VerifyRead(r, right, c)
      PROVE  /\ Goes(r, "factor", "accept")
             /\ req'[r].right = right /\ req'[r].code = c
             /\ ~right => req'[r].count = user.failed + 1
  <2>1. req[r] \in Request /\ req \in [Requests -> Request]
    BY DEF TypeOK
  <2>2. req'[r] = [req[r] EXCEPT !.at = "accept", !.right = right, !.code = c,
                                 !.count = IF right THEN 0 ELSE user.failed + 1]
    BY <1>2, <2>1 DEF VerifyRead
  <2>3. /\ req'[r].at = "accept" /\ req'[r].right = right /\ req'[r].code = c
        /\ ~right => req'[r].count = user.failed + 1
    BY <2>1, <2>2 DEF Request
  <2> QED
    BY <1>2, <2>1, <2>3 DEF VerifyRead, Goes
<1> QED
  BY <1>1, <1>2, StepGoes, FinishGoes
     DEF VerifyRefuses, VerifyWrong, VerifyRight, FinalizePending, Steps

LEMMA PasswordMoves ==
  ASSUME TypeOK, NEW r \in Requests
  PROVE  /\ ChangeRead(r) => Goes(r, "idle", "change")
         /\ ChangeWrite(r) => Goes(r, "change", "revoke")
         /\ Revoke(r) => Goes(r, "revoke", "idle")
         /\ \A l \in Links : UseLink(r, l) => Goes(r, "idle", "relink") /\ req'[r].link = l
         /\ ResetWrite(r) => Goes(r, "relink", "revoke")
<1>1. ASSUME NEW l \in Links, UseLink(r, l)
      PROVE  Goes(r, "idle", "relink") /\ req'[r].link = l
  <2> DEFINE read == [Idle EXCEPT !.at = "relink", !.link = l]
  <2>1. l \in Nat
    BY DEF Links
  <2>2. read \in Request /\ read.at = "relink" /\ read.link = l
    BY <2>1, ReadsLink DEF Steps
  <2>3. Start(r, read)
    BY <1>1 DEF UseLink
  <2> QED
    BY <2>2, <2>3, StartGoes
<1>2. ASSUME ChangeRead(r) PROVE Goes(r, "idle", "change")
  <2> DEFINE read == [Idle EXCEPT !.at = "change"]
  <2>1. read \in Request /\ read.at = "change"
    BY Reads DEF Steps
  <2>2. Start(r, read)
    BY <1>2 DEF ChangeRead
  <2> QED
    BY <2>1, <2>2, StartGoes
<1> QED
  BY <1>1, <1>2, StepGoes, FinishGoes DEF ChangeWrite, Revoke, ResetWrite, Steps

LEMMA TwoStepMoves ==
  ASSUME TypeOK, NEW r \in Requests
  PROVE  /\ EnrolRead(r) => Goes(r, "idle", "enrol")
         /\ EnrolWrite(r) => Goes(r, "enrol", "idle")
         /\ ConfirmRead(r) => Goes(r, "idle", "confirm")
         /\ ConfirmWrite(r) => Goes(r, "confirm", "issue")
         /\ RegenerateRead(r) => Goes(r, "idle", "issue")
         /\ IssueRecoveryCodes(r) => Goes(r, "issue", "idle")
         /\ DisableRead(r) => Goes(r, "idle", "disable")
         /\ DisableWrite(r) => Goes(r, "disable", "clear")
         /\ ClearRecoveryCodes(r) => Goes(r, "clear", "idle")
<1>1. ASSUME NEW at \in {"enrol", "confirm", "issue", "disable"},
             Start(r, [Idle EXCEPT !.at = at])
      PROVE  Goes(r, "idle", at)
  <2>1. at \in Steps
    BY DEF Steps
  <2> DEFINE read == [Idle EXCEPT !.at = at]
  <2>2. read \in Request /\ read.at = at
    BY <2>1, Reads
  <2> QED
    BY <1>1, <2>2, StartGoes
<1>2. EnrolRead(r) => Goes(r, "idle", "enrol")
  BY <1>1 DEF EnrolRead
<1>3. ConfirmRead(r) => Goes(r, "idle", "confirm")
  BY <1>1 DEF ConfirmRead
<1>4. RegenerateRead(r) => Goes(r, "idle", "issue")
  BY <1>1 DEF RegenerateRead
<1>5. DisableRead(r) => Goes(r, "idle", "disable")
  BY <1>1 DEF DisableRead
<1> QED
  BY <1>2, <1>3, <1>4, <1>5, StepGoes, FinishGoes
     DEF EnrolWrite, ConfirmWrite, IssueRecoveryCodes, DisableWrite, ClearRecoveryCodes, Steps
LEMMA DiesGoes ==
  ASSUME TypeOK, NEW r \in Requests, Dies(r)
  PROVE  /\ req[r].at # "idle" /\ req'[r].at = "idle"
         /\ \A q \in Requests : q # r => req'[q] = req[q]
BY DEF Dies, TypeOK, Idle

-----------------------------------------------------------------------------
(***************************************************************************)
(* One request at a time.                                                  *)
(***************************************************************************)
\* While no two requests have met, at most one is under way.
Alone ==
    ~overlapped =>
        \A r, q \in Requests : req[r].at # "idle" /\ req[q].at # "idle" => r = q

OfRequest(r) ==
    SignsIn(r) \/ SecondStep(r) \/ ChangesPassword(r) \/ TurnsTwoStep(r) \/ Dies(r)

\* An action of a request that begins it, or that goes on with it.
LEMMA BeginsOrGoesOn ==
  ASSUME TypeOK, NEW r \in Requests, OfRequest(r)
  PROVE  /\ \A q \in Requests : q # r => req'[q] = req[q]
         /\ \/ /\ req[r].at = "idle"
               /\ overlapped' = (overlapped \/ Busy(Requests \ {r}))
            \/ req[r].at # "idle" /\ overlapped' = overlapped
<1>1. CASE SignsIn(r)
  <2>1. CASE SignInWrong(r) \/ SignInRight(r)
    BY <2>1, SigningInMoves DEF SignInWrong, SignInRight, Start, Begins, Goes
  <2>2. CASE BurnLockout(r) \/ FinaliseSuccess(r) \/ CreateSession(r)
    BY <2>2, SigningInMoves DEF BurnLockout, FinaliseSuccess, CreateSession, Goes, history
  <2> QED
    BY <1>1, <2>1, <2>2 DEF SignsIn
<1>2. CASE SecondStep(r)
  <2>1. CASE \E s \in Sessions : ReadPending(r, s)
    BY <2>1, SecondStepMoves DEF ReadPending, Start, Begins, Goes
  <2>2. CASE \E right \in BOOLEAN, c \in Codes \union {0} : VerifyRead(r, right, c)
    <3>1. PICK right \in BOOLEAN, c \in Codes \union {0} : VerifyRead(r, right, c)
      BY <2>2
    <3>2. Goes(r, "factor", "accept")
      BY <3>1, SecondStepMoves
    <3> QED
      BY <3>1, <3>2 DEF VerifyRead, Goes
  <2>3. CASE VerifyRefuses(r) \/ VerifyWrong(r) \/ VerifyRight(r) \/ FinalizePending(r)
    BY <2>3, SecondStepMoves
       DEF VerifyRefuses, VerifyWrong, VerifyRight, FinalizePending, Goes, history
  <2> QED
    BY <1>2, <2>1, <2>2, <2>3 DEF SecondStep
<1>3. CASE ChangesPassword(r)
  <2>1. CASE ChangeRead(r) \/ \E l \in Links : UseLink(r, l)
    BY <2>1, PasswordMoves DEF ChangeRead, UseLink, Start, Begins, Goes
  <2>2. CASE ChangeWrite(r) \/ Revoke(r) \/ ResetWrite(r)
    BY <2>2, PasswordMoves DEF ChangeWrite, Revoke, ResetWrite, Goes, history
  <2> QED
    BY <1>3, <2>1, <2>2 DEF ChangesPassword
<1>4. CASE TurnsTwoStep(r)
  <2>1. CASE EnrolRead(r) \/ ConfirmRead(r) \/ RegenerateRead(r) \/ DisableRead(r)
    BY <2>1, TwoStepMoves DEF EnrolRead, ConfirmRead, RegenerateRead, DisableRead, Start, Begins,
       Goes
  <2>2. CASE EnrolWrite(r) \/ ConfirmWrite(r) \/ IssueRecoveryCodes(r) \/ DisableWrite(r)
             \/ ClearRecoveryCodes(r)
    BY <2>2, TwoStepMoves
       DEF EnrolWrite, ConfirmWrite, IssueRecoveryCodes, DisableWrite, ClearRecoveryCodes, Goes,
           history
  <2> QED
    BY <1>4, <2>1, <2>2 DEF TurnsTwoStep
<1>5. CASE Dies(r)
  BY <1>5, DiesGoes DEF Dies, history
<1> QED
  BY <1>1, <1>2, <1>3, <1>4, <1>5 DEF OfRequest

\* While no two have met, the others are idle.
LEMMA Sole ==
  ASSUME TypeOK, Alone, NEW r \in Requests, OfRequest(r)
  PROVE  /\ \A q \in Requests : q # r => req'[q] = req[q]
         /\ ~overlapped' => ~overlapped /\ \A q \in Requests : q # r => req[q].at = "idle"
BY BeginsOrGoesOn DEF Alone, Busy, TypeOK

\* What happens beside the requests leaves them alone.
LEMMA Beside ==
  ASSUME TypeOK,
         \/ \E s \in Sessions : EndSession(s)
         \/ \E l \in Links : RequestReset(l) \/ Deliver(l) \/ LinkExpires(l)
         \/ OfficeReset \/ SetRecoveryEmail \/ StandDown \/ Reinstate \/ LockEnds
         \/ UNCHANGED allVars
  PROVE  /\ UNCHANGED <<req, codes, spent, passed, proven, swapped, effects, deaths>>
         /\ ~overlapped' => ~overlapped
<1>1. CASE \E s \in Sessions : EndSession(s)
  BY <1>1 DEF EndSession, history
<1>2. CASE \E l \in Links : RequestReset(l) \/ Deliver(l) \/ LinkExpires(l)
  BY <1>2 DEF RequestReset, Deliver, LinkExpires, history
<1>3. CASE OfficeReset \/ StandDown
  BY <1>3 DEF OfficeReset, StandDown, Begins
<1>4. CASE SetRecoveryEmail \/ Reinstate \/ LockEnds
  BY <1>4 DEF SetRecoveryEmail, Reinstate, LockEnds, history
<1>5. CASE UNCHANGED allVars
  BY <1>5 DEF allVars
<1> QED
  BY <1>1, <1>2, <1>3, <1>4, <1>5

LEMMA OfficeMeetsNobody ==
  ASSUME OfficeReset \/ StandDown
  PROVE  ~overlapped' => \A q \in Requests : req[q].at = "idle"
<1>1. Begins(Requests)
  BY DEF OfficeReset, StandDown
<1> QED
  BY <1>1 DEF Begins, Busy

LEMMA AloneStep == TypeOK /\ Alone /\ [Next]_allVars => Alone'
<1> SUFFICES ASSUME TypeOK, Alone, [Next]_allVars PROVE Alone'
  OBVIOUS
<1>1. ASSUME NEW r \in Requests, OfRequest(r) PROVE Alone'
  <2>1. /\ \A q \in Requests : q # r => req'[q] = req[q]
        /\ ~overlapped' => \A q \in Requests : q # r => req[q].at = "idle"
    BY <1>1, Sole
  <2> QED
    BY <2>1 DEF Alone
<1>2. ASSUME ~\E r \in Requests : OfRequest(r) PROVE Alone'
  BY <1>2, Beside DEF Alone, Next, OfRequest
<1> QED
  BY <1>1, <1>2

-----------------------------------------------------------------------------
(***************************************************************************)
(* Reset links.                                                            *)
(***************************************************************************)
Relinks(r, l) == req[r].at = "relink" /\ req[r].link = l

\* A link that has been used is being used by one request, or has had its effect, or lost it.
LinkInv ==
    \A l \in Links :
        /\ effects[l] \in {0, 1}
        /\ effects[l] = 1 => links[l] = "used"
        /\ \A r \in Requests : Relinks(r, l) => links[l] = "used" /\ effects[l] = 0
        /\ \A r, q \in Requests : Relinks(r, l) /\ Relinks(q, l) => r = q
        /\ links[l] = "used" /\ deaths = 0 =>
               effects[l] = 1 \/ \E r \in Requests : Relinks(r, l)

LEMMA LinkInit == Init => LinkInv
BY DEF Init, LinkInv, Relinks, Idle

\* Most of what a request does has nothing to do with a link.
LEMMA NoLink ==
  ASSUME TypeOK, NEW r \in Requests,
         SignsIn(r) \/ SecondStep(r) \/ TurnsTwoStep(r)
             \/ ChangeRead(r) \/ ChangeWrite(r) \/ Revoke(r)
  PROVE  /\ UNCHANGED <<links, effects, deaths>>
         /\ req[r].at # "relink" /\ req'[r].at # "relink"
         /\ \A q \in Requests : q # r => req'[q] = req[q]
<1>1. CASE SignsIn(r)
  BY <1>1, SigningInMoves
     DEF SignsIn, SignInWrong, SignInRight, BurnLockout, FinaliseSuccess, CreateSession, Goes,
         history
<1>2. CASE SecondStep(r)
  <2>1. CASE \E s \in Sessions : ReadPending(r, s)
    BY <2>1, SecondStepMoves DEF ReadPending, Goes
  <2>2. CASE \E right \in BOOLEAN, c \in Codes \union {0} : VerifyRead(r, right, c)
    <3>1. PICK right \in BOOLEAN, c \in Codes \union {0} : VerifyRead(r, right, c)
      BY <2>2
    <3>2. Goes(r, "factor", "accept")
      BY <3>1, SecondStepMoves
    <3> QED
      BY <3>1, <3>2 DEF VerifyRead, Goes
  <2>3. CASE VerifyRefuses(r) \/ VerifyWrong(r) \/ VerifyRight(r) \/ FinalizePending(r)
    BY <2>3, SecondStepMoves
       DEF VerifyRefuses, VerifyWrong, VerifyRight, FinalizePending, Goes, history
  <2> QED
    BY <1>2, <2>1, <2>2, <2>3 DEF SecondStep
<1>3. CASE TurnsTwoStep(r)
  BY <1>3, TwoStepMoves
     DEF TurnsTwoStep, EnrolRead, ConfirmRead, RegenerateRead, DisableRead, EnrolWrite,
         ConfirmWrite, IssueRecoveryCodes, DisableWrite, ClearRecoveryCodes, Goes, history
<1>4. CASE ChangeRead(r) \/ ChangeWrite(r) \/ Revoke(r)
  BY <1>4, PasswordMoves DEF ChangeRead, ChangeWrite, Revoke, Goes, history
<1> QED
  BY <1>1, <1>2, <1>3, <1>4

LEMMA LinkStep == TypeOK /\ LinkInv /\ [Next]_allVars => LinkInv'
<1> SUFFICES ASSUME TypeOK, LinkInv, [Next]_allVars PROVE LinkInv'
  OBVIOUS
<1>0. /\ links \in [Links -> {"none", "open", "used", "expired"}]
      /\ effects \in [Links -> Nat] /\ deaths \in Nat
  BY BoundAssumption DEF TypeOK
<1>1. ASSUME NEW r \in Requests,
             SignsIn(r) \/ SecondStep(r) \/ TurnsTwoStep(r)
                 \/ ChangeRead(r) \/ ChangeWrite(r) \/ Revoke(r)
      PROVE  LinkInv'
  <2>1. /\ UNCHANGED <<links, effects, deaths>>
        /\ req[r].at # "relink" /\ req'[r].at # "relink"
        /\ \A q \in Requests : q # r => req'[q] = req[q]
    BY <1>1, NoLink
  <2>2. \A q \in Requests, l \in Links : Relinks(q, l)' <=> Relinks(q, l)
    BY <2>1 DEF Relinks
  <2> QED
    BY <2>1, <2>2 DEF LinkInv
<1>2. ASSUME NEW r \in Requests, NEW k \in Links, UseLink(r, k) PROVE LinkInv'
  <2>1. /\ Goes(r, "idle", "relink") /\ req'[r].link = k
        /\ links[k] = "open" /\ links' = [links EXCEPT ![k] = "used"]
        /\ UNCHANGED <<effects, deaths>>
    BY <1>2, PasswordMoves DEF UseLink
  <2>2. \A q \in Requests, l \in Links :
            Relinks(q, l)' <=> Relinks(q, l) \/ (q = r /\ l = k)
    BY <2>1 DEF Relinks, Goes
  <2>3. effects[k] = 0 /\ \A q \in Requests : ~Relinks(q, k)
    BY <2>1 DEF LinkInv
  <2> QED
    BY <1>0, <2>1, <2>2, <2>3 DEF LinkInv
<1>3. ASSUME NEW r \in Requests, ResetWrite(r) PROVE LinkInv'
  <2> DEFINE k == req[r].link
  <2>1. /\ Goes(r, "relink", "revoke")
        /\ effects' = [l \in Links |-> IF l = k THEN effects[l] + 1 ELSE effects[l]]
        /\ UNCHANGED <<links, deaths>>
    BY <1>3, PasswordMoves DEF ResetWrite
  <2>2. \A q \in Requests, l \in Links : Relinks(q, l)' <=> Relinks(q, l) /\ q # r
    BY <2>1 DEF Relinks, Goes
  <2>3. Relinks(r, k)
    BY <2>1 DEF Relinks, Goes
  <2>4. \A l \in Links : l # k => ~Relinks(r, l)
    BY DEF Relinks
  <2> QED
    BY <1>0, <2>1, <2>2, <2>3, <2>4 DEF LinkInv
<1>4. ASSUME NEW r \in Requests, Dies(r) PROVE LinkInv'
  <2>1. /\ req'[r].at = "idle" /\ \A q \in Requests : q # r => req'[q] = req[q]
        /\ deaths' = deaths + 1 /\ UNCHANGED <<links, effects>>
    BY <1>4, DiesGoes DEF Dies, history
  <2>2. \A q \in Requests, l \in Links : Relinks(q, l)' <=> Relinks(q, l) /\ q # r
    BY <2>1 DEF Relinks
  <2>3. deaths' # 0
    BY <1>0, <2>1
  <2> QED
    BY <2>1, <2>2, <2>3 DEF LinkInv
<1>5. ASSUME NEW k \in Links, RequestReset(k) \/ LinkExpires(k) PROVE LinkInv'
  <2>1. /\ links[k] # "used" /\ links'[k] # "used"
        /\ \A l \in Links : l # k => links'[l] = links[l]
        /\ UNCHANGED <<req, effects, deaths>>
    BY <1>0, <1>5 DEF RequestReset, LinkExpires, history
  <2>2. \A q \in Requests, l \in Links : Relinks(q, l)' <=> Relinks(q, l)
    BY <2>1 DEF Relinks
  <2> QED
    BY <2>1, <2>2 DEF LinkInv
<1>6. CASE \/ \E s \in Sessions : EndSession(s)
           \/ \E l \in Links : Deliver(l)
           \/ OfficeReset \/ SetRecoveryEmail \/ StandDown \/ Reinstate \/ LockEnds
           \/ UNCHANGED allVars
  <2>1. UNCHANGED <<req, effects, deaths>>
    BY <1>6, Beside
  <2>2. UNCHANGED links
    BY <1>6 DEF EndSession, Deliver, OfficeReset, SetRecoveryEmail, StandDown, Reinstate, LockEnds,
       allVars
  <2>3. \A q \in Requests, l \in Links : Relinks(q, l)' <=> Relinks(q, l)
    BY <2>1 DEF Relinks
  <2> QED
    BY <2>1, <2>2, <2>3 DEF LinkInv
<1> QED
  BY <1>1, <1>2, <1>3, <1>4, <1>5, <1>6 DEF Next, ChangesPassword

(***************************************************************************)
(* A mailed link changes the password at most once, whatever happens, and  *)
(* one that is used is not lost unless a request dies.                     *)
(***************************************************************************)
THEOREM LinksWork == Spec => []LinksWorkOnce
<1>1. LinkInv => LinksWorkOnce
  BY DEF LinkInv, LinksWorkOnce, Relinks
<1> QED
  BY InitTyped, TypeStep, LinkInit, LinkStep, <1>1, PTL DEF Spec

-----------------------------------------------------------------------------
(***************************************************************************)
(* The second step.                                                        *)
(***************************************************************************)
\* Only an accepted code lets a pending session through.
PassInv ==
    /\ \A s \in Sessions : sessions[s].state = "full" /\ sessions[s].asked => s \in passed
    /\ \A r \in Requests : req[r].at = "promote" => req[r].session \in passed

LEMMA PassInit == Init => PassInv
BY DEF Init, PassInv, NoSession, Idle

\* What neither writes a session nor takes a second step.
LEMMA NoPass ==
  ASSUME TypeOK, NEW r \in Requests,
         \/ SignInWrong(r) \/ SignInRight(r) \/ BurnLockout(r) \/ FinaliseSuccess(r)
         \/ \E s \in Sessions : ReadPending(r, s)
         \/ \E right \in BOOLEAN, c \in Codes \union {0} : VerifyRead(r, right, c)
         \/ VerifyRefuses(r) \/ VerifyWrong(r)
         \/ ChangeRead(r) \/ ChangeWrite(r)
         \/ \E l \in Links : UseLink(r, l)
         \/ ResetWrite(r) \/ TurnsTwoStep(r) \/ Dies(r)
  PROVE  /\ UNCHANGED <<sessions, passed>>
         /\ req'[r].at # "promote"
         /\ \A q \in Requests : q # r => req'[q] = req[q]
<1>1. CASE SignInWrong(r) \/ SignInRight(r) \/ BurnLockout(r) \/ FinaliseSuccess(r)
  BY <1>1, SigningInMoves
     DEF SignInWrong, SignInRight, BurnLockout, FinaliseSuccess, Goes, history
<1>2. CASE \E s \in Sessions : ReadPending(r, s)
  BY <1>2, SecondStepMoves DEF ReadPending, Goes
<1>3. CASE \E right \in BOOLEAN, c \in Codes \union {0} : VerifyRead(r, right, c)
  <2>1. PICK right \in BOOLEAN, c \in Codes \union {0} : VerifyRead(r, right, c)
    BY <1>3
  <2>2. Goes(r, "factor", "accept")
    BY <2>1, SecondStepMoves
  <2> QED
    BY <2>1, <2>2 DEF VerifyRead, Goes
<1>4. CASE VerifyRefuses(r) \/ VerifyWrong(r)
  BY <1>4, SecondStepMoves DEF VerifyRefuses, VerifyWrong, Goes, history
<1>5. CASE ChangeRead(r) \/ ChangeWrite(r) \/ ResetWrite(r)
  BY <1>5, PasswordMoves DEF ChangeRead, ChangeWrite, ResetWrite, Goes, history
<1>6. CASE \E l \in Links : UseLink(r, l)
  BY <1>6, PasswordMoves DEF UseLink, Goes
<1>7. CASE TurnsTwoStep(r)
  BY <1>7, TwoStepMoves
     DEF TurnsTwoStep, EnrolRead, ConfirmRead, RegenerateRead, DisableRead, EnrolWrite,
         ConfirmWrite, IssueRecoveryCodes, DisableWrite, ClearRecoveryCodes, Goes, history
<1>8. CASE Dies(r)
  BY <1>8, DiesGoes DEF Dies, history
<1> QED
  BY <1>1, <1>2, <1>3, <1>4, <1>5, <1>6, <1>7, <1>8

LEMMA PassStep == TypeOK /\ PassInv /\ [Next]_allVars => PassInv'
<1> SUFFICES ASSUME TypeOK, PassInv, [Next]_allVars PROVE PassInv'
  OBVIOUS
<1>0. sessions \in [Sessions -> Session]
  BY DEF TypeOK
<1>1. ASSUME NEW r \in Requests,
             \/ SignInWrong(r) \/ SignInRight(r) \/ BurnLockout(r) \/ FinaliseSuccess(r)
             \/ \E s \in Sessions : ReadPending(r, s)
             \/ \E right \in BOOLEAN, c \in Codes \union {0} : VerifyRead(r, right, c)
             \/ VerifyRefuses(r) \/ VerifyWrong(r)
             \/ ChangeRead(r) \/ ChangeWrite(r)
             \/ \E l \in Links : UseLink(r, l)
             \/ ResetWrite(r) \/ TurnsTwoStep(r) \/ Dies(r)
      PROVE  PassInv'
  BY <1>1, NoPass DEF PassInv
<1>2. ASSUME NEW r \in Requests, CreateSession(r) PROVE PassInv'
  <2>1. Goes(r, "open", "idle") /\ UNCHANGED passed
    BY <1>2, SigningInMoves DEF CreateSession, history
  <2>2. \A s \in Sessions :
            sessions'[s].state = "full" /\ sessions'[s].asked =>
                sessions[s].state = "full" /\ sessions[s].asked
    BY <1>0, <1>2, Held DEF CreateSession
  <2> QED
    BY <2>1, <2>2 DEF PassInv, Goes
<1>3. ASSUME NEW r \in Requests, VerifyRight(r) PROVE PassInv'
  <2>1. /\ Goes(r, "accept", "promote") /\ req'[r].session = req[r].session
        /\ passed' = passed \union {req[r].session} /\ UNCHANGED sessions
    BY <1>3, SecondStepMoves DEF VerifyRight
  <2> QED
    BY <2>1 DEF PassInv, Goes
<1>4. ASSUME NEW r \in Requests, FinalizePending(r) PROVE PassInv'
  <2>1. Goes(r, "promote", "idle") /\ UNCHANGED passed
    BY <1>4, SecondStepMoves DEF FinalizePending, history
  <2>2. \A s \in Sessions : s # req[r].session => sessions'[s] = sessions[s]
    BY <1>4 DEF FinalizePending
  <2>3. req[r].session \in passed
    BY <2>1 DEF PassInv, Goes
  <2> QED
    BY <2>1, <2>2, <2>3 DEF PassInv, Goes
<1>5. ASSUME NEW r \in Requests, Revoke(r) PROVE PassInv'
  <2>1. Goes(r, "revoke", "idle") /\ UNCHANGED passed /\ sessions' = AllEnded
    BY <1>5, PasswordMoves DEF Revoke, history
  <2> QED
    BY <2>1, SessionEdits DEF PassInv, Goes
<1>6. CASE \/ \E s \in Sessions : EndSession(s)
           \/ \E l \in Links : RequestReset(l) \/ Deliver(l) \/ LinkExpires(l)
           \/ OfficeReset \/ SetRecoveryEmail \/ StandDown \/ Reinstate \/ LockEnds
           \/ UNCHANGED allVars
  <2>1. UNCHANGED <<req, passed>>
    BY <1>6, Beside
  <2>2. \A s \in Sessions : sessions'[s] = sessions[s] \/ sessions'[s].state # "full"
    <3>1. CASE \E s \in Sessions : EndSession(s)
      BY <1>0, <3>1 DEF EndSession, Ended, NoSession
    <3>2. CASE OfficeReset \/ StandDown
      BY <3>2, SessionEdits DEF OfficeReset, StandDown
    <3>3. CASE \/ \E l \in Links : RequestReset(l) \/ Deliver(l) \/ LinkExpires(l)
               \/ SetRecoveryEmail \/ Reinstate \/ LockEnds \/ UNCHANGED allVars
      BY <3>3 DEF RequestReset, Deliver, LinkExpires, SetRecoveryEmail, Reinstate, LockEnds,
         allVars
    <3> QED
      BY <1>6, <3>1, <3>2, <3>3
  <2> QED
    BY <2>1, <2>2 DEF PassInv
<1> QED
  BY <1>1, <1>2, <1>3, <1>4, <1>5, <1>6 DEF Next, SignsIn, SecondStep, ChangesPassword

-----------------------------------------------------------------------------
(***************************************************************************)
(* Recovery codes.                                                         *)
(***************************************************************************)
Accepts(r, c) == req[r].at = "accept" /\ req[r].right /\ req[r].code = c

\* Codes are issued in the order of their numbers.
Issued(k) == \A c \in Codes : codes[c] = "none" <=> c > k

\* A fresh code has let nobody in, and no code lets two in while requests take turns.
CodeInv ==
    /\ \E k \in 0..MaxCodes : Issued(k)
    /\ \A c \in Codes :
        /\ codes[c] = "none" => spent[c] = 0
        /\ \A r \in Requests : Accepts(r, c) => codes[c] # "none"
        /\ ~overlapped =>
            /\ spent[c] <= 1
            /\ codes[c] = "fresh" => spent[c] = 0
            /\ \A r \in Requests : Accepts(r, c) => codes[c] = "fresh"

LEMMA Counted ==
  ASSUME NEW k \in 0..MaxCodes, Issued(k)
  PROVE  Cardinality({c \in Codes : codes[c] # "none"}) = k
<1>1. {c \in Codes : codes[c] # "none"} = 1..k
  BY BoundAssumption DEF Issued, Codes
<1>2. Cardinality(1..k) = k
  BY FS_Interval, BoundAssumption
<1> QED
  BY <1>1, <1>2

LEMMA CodeInit == Init => CodeInv
<1> SUFFICES ASSUME Init PROVE CodeInv
  OBVIOUS
<1>1. \A r \in Requests, c \in Codes : ~Accepts(r, c)
  BY DEF Init, Accepts, Idle
<1>2. \E k \in 0..MaxCodes : Issued(k)
  <2>1. PICK on \in BOOLEAN :
            codes = [c \in Codes |-> IF on /\ c <= CodeCount THEN "fresh" ELSE "none"]
    BY DEF Init
  <2> DEFINE k == IF on THEN (IF CodeCount <= MaxCodes THEN CodeCount ELSE MaxCodes) ELSE 0
  <2>2. k \in 0..MaxCodes
    BY AccountAssumption, BoundAssumption
  <2>3. \A c \in Codes : c <= CodeCount /\ on <=> ~(c > k)
    BY AccountAssumption, BoundAssumption DEF Codes
  <2>4. Issued(k)
    <3> HIDE DEF k
    <3> QED
      BY <2>1, <2>3 DEF Issued
  <2> QED
    BY <2>2, <2>4
<1>3. \A c \in Codes : spent[c] = 0
  BY DEF Init
<1> QED
  BY <1>1, <1>2, <1>3 DEF CodeInv

\* What leaves the codes alone and accepts none.
LEMMA NoCode ==
  ASSUME TypeOK, NEW r \in Requests,
         \/ SignsIn(r)
         \/ \E s \in Sessions : ReadPending(r, s)
         \/ VerifyRefuses(r) \/ VerifyWrong(r) \/ FinalizePending(r)
         \/ ChangesPassword(r)
         \/ EnrolRead(r) \/ EnrolWrite(r) \/ ConfirmRead(r) \/ ConfirmWrite(r)
         \/ RegenerateRead(r) \/ DisableRead(r) \/ DisableWrite(r)
         \/ Dies(r)
  PROVE  /\ UNCHANGED <<codes, spent>>
         /\ req'[r].at # "accept"
         /\ \A q \in Requests : q # r => req'[q] = req[q]
<1>1. CASE SignsIn(r)
  BY <1>1, SigningInMoves
     DEF SignsIn, SignInWrong, SignInRight, BurnLockout, FinaliseSuccess, CreateSession, Goes,
         history
<1>2. CASE \E s \in Sessions : ReadPending(r, s)
  BY <1>2, SecondStepMoves DEF ReadPending, Goes
<1>3. CASE VerifyRefuses(r) \/ VerifyWrong(r) \/ FinalizePending(r)
  BY <1>3, SecondStepMoves DEF VerifyRefuses, VerifyWrong, FinalizePending, Goes, history
<1>4. CASE ChangeRead(r) \/ ChangeWrite(r) \/ Revoke(r) \/ ResetWrite(r)
  BY <1>4, PasswordMoves DEF ChangeRead, ChangeWrite, Revoke, ResetWrite, Goes, history
<1>5. CASE \E l \in Links : UseLink(r, l)
  BY <1>5, PasswordMoves DEF UseLink, Goes
<1>6. CASE EnrolRead(r) \/ EnrolWrite(r) \/ ConfirmRead(r) \/ ConfirmWrite(r)
           \/ RegenerateRead(r) \/ DisableRead(r) \/ DisableWrite(r)
  BY <1>6, TwoStepMoves
     DEF EnrolRead, ConfirmRead, RegenerateRead, DisableRead, EnrolWrite, ConfirmWrite,
         DisableWrite, Goes, history
<1>7. CASE Dies(r)
  BY <1>7, DiesGoes DEF Dies, history
<1> QED
  BY <1>1, <1>2, <1>3, <1>4, <1>5, <1>6, <1>7 DEF ChangesPassword

LEMMA CodeStep == TypeOK /\ Alone /\ CodeInv /\ [Next]_allVars => CodeInv'
<1> SUFFICES ASSUME TypeOK, Alone, CodeInv, [Next]_allVars PROVE CodeInv'
  OBVIOUS
<1>0. /\ codes \in [Codes -> {"none", "fresh", "used", "gone"}]
      /\ spent \in [Codes -> Nat]
  BY DEF TypeOK
<1>1. ASSUME NEW r \in Requests,
             \/ SignsIn(r)
             \/ \E s \in Sessions : ReadPending(r, s)
             \/ VerifyRefuses(r) \/ VerifyWrong(r) \/ FinalizePending(r)
             \/ ChangesPassword(r)
             \/ EnrolRead(r) \/ EnrolWrite(r) \/ ConfirmRead(r) \/ ConfirmWrite(r)
             \/ RegenerateRead(r) \/ DisableRead(r) \/ DisableWrite(r)
             \/ Dies(r)
      PROVE  CodeInv'
  <2>1. /\ UNCHANGED <<codes, spent>>
        /\ \A q \in Requests, c \in Codes : Accepts(q, c)' => Accepts(q, c)
    BY <1>1, NoCode DEF Accepts
  <2>2. ~overlapped' => ~overlapped
    BY <1>1, Sole DEF OfRequest, SecondStep, TurnsTwoStep
  <2> QED
    BY <2>1, <2>2 DEF CodeInv, Issued
<1>2. ASSUME NEW r \in Requests, NEW right \in BOOLEAN, NEW d \in Codes \union {0},
             VerifyRead(r, right, d)
      PROVE  CodeInv'
  <2>1. /\ Goes(r, "factor", "accept") /\ req'[r].right = right /\ req'[r].code = d
        /\ UNCHANGED <<codes, spent, overlapped>>
    BY <1>2, SecondStepMoves DEF VerifyRead
  <2>2. \A c \in Codes : Accepts(r, c)' => codes[c] = "fresh"
    <3>1. \A c \in Codes : c # 0
      BY DEF Codes
    <3> QED
      BY <1>2, <2>1, <3>1 DEF VerifyRead, Accepts
  <2>3. \A q \in Requests, c \in Codes : q # r => (Accepts(q, c)' <=> Accepts(q, c))
    BY <2>1 DEF Goes, Accepts
  <2> QED
    BY <2>1, <2>2, <2>3 DEF CodeInv, Issued
<1>3. ASSUME NEW r \in Requests, VerifyRight(r) PROVE CodeInv'
  <2> DEFINE d == req[r].code
  <2>1. /\ Goes(r, "accept", "promote") /\ UNCHANGED overlapped
        /\ codes' = [c \in Codes |->
                        IF c = d /\ codes[c] = "fresh" THEN "used" ELSE codes[c]]
        /\ spent' = [c \in Codes |-> IF c = d THEN spent[c] + 1 ELSE spent[c]]
        /\ Accepts(r, d)
    BY <1>3, SecondStepMoves DEF VerifyRight, Goes, Accepts
  <2> HIDE DEF d
  <2>2. \A c \in Codes : codes'[c] = "none" <=> codes[c] = "none"
    BY <1>0, <2>1
  <2>3. \A q \in Requests, c \in Codes : Accepts(q, c)' => q # r /\ Accepts(q, c)
    BY <2>1 DEF Goes, Accepts
  <2>4. ~overlapped => \A q \in Requests, c \in Codes : ~Accepts(q, c)'
    BY <2>1, <2>3 DEF Alone, Goes, Accepts
  <2>5. \E k \in 0..MaxCodes : Issued(k)'
    BY <2>2 DEF CodeInv, Issued
  <2>6. ASSUME NEW c \in Codes
        PROVE  /\ codes'[c] = "none" => spent'[c] = 0
               /\ \A q \in Requests : Accepts(q, c)' => codes'[c] # "none"
               /\ ~overlapped =>
                    spent'[c] <= 1 /\ (codes'[c] = "fresh" => spent'[c] = 0)
    <3>1. CASE c = d
      BY <1>0, <2>1, <2>2, <3>1 DEF CodeInv
    <3>2. CASE c # d
      BY <1>0, <2>1, <2>2, <2>3, <3>2 DEF CodeInv
    <3> QED
      BY <3>1, <3>2
  <2> QED
    BY <2>1, <2>4, <2>5, <2>6 DEF CodeInv
<1>4. ASSUME NEW r \in Requests, IssueRecoveryCodes(r) PROVE CodeInv'
  <2>1. PICK k \in 0..MaxCodes : Issued(k)
    BY DEF CodeInv
  <2>2. /\ Goes(r, "issue", "idle") /\ UNCHANGED <<spent, overlapped>>
        /\ k + CodeCount <= MaxCodes
        /\ codes' = [c \in Codes |-> IF c \in k + 1 .. k + CodeCount
                                     THEN "fresh" ELSE Cleared[c]]
    BY <1>4, <2>1, Counted, TwoStepMoves DEF IssueRecoveryCodes, history
  <2>3. ASSUME NEW c \in Codes
        PROVE  /\ c <= k => codes'[c] = "gone"
               /\ c > k /\ c <= k + CodeCount =>
                    codes[c] = "none" /\ codes'[c] = "fresh"
               /\ c > k + CodeCount => codes[c] = "none" /\ codes'[c] = "none"
    BY <2>1, <2>2, AccountAssumption DEF Issued, Cleared, Codes
  <2>4. Issued(k + CodeCount)' /\ k + CodeCount \in 0..MaxCodes
    <3>1. \A c \in Codes : codes'[c] = "none" <=> c > k + CodeCount
      BY <2>1, <2>3, AccountAssumption DEF Codes
    <3> QED
      BY <2>2, <3>1, AccountAssumption DEF Issued
  <2>5. \A q \in Requests, c \in Codes : Accepts(q, c)' => q # r /\ Accepts(q, c)
    BY <2>2 DEF Goes, Accepts
  <2>6. ~overlapped => \A q \in Requests, c \in Codes : ~Accepts(q, c)'
    BY <2>2, <2>5 DEF Alone, Goes, Accepts
  <2>7. ASSUME NEW c \in Codes
        PROVE  /\ codes'[c] = "none" => spent[c] = 0
               /\ \A q \in Requests : Accepts(q, c)' => codes'[c] # "none"
               /\ codes'[c] = "fresh" => spent[c] = 0
    <3>1. c \in Nat /\ k \in Nat /\ CodeCount \in Nat
      BY AccountAssumption DEF Codes
    <3>2. codes[c] = "none" => spent[c] = 0
      BY DEF CodeInv
    <3>3. \A q \in Requests : Accepts(q, c)' => codes[c] # "none"
      BY <2>5 DEF CodeInv
    <3> QED
      BY <2>3, <3>1, <3>2, <3>3
  <2> QED
    BY <2>2, <2>4, <2>6, <2>7 DEF CodeInv
<1>5. ASSUME NEW r \in Requests, ClearRecoveryCodes(r) PROVE CodeInv'
  <2>1. /\ Goes(r, "clear", "idle") /\ UNCHANGED <<spent, overlapped>> /\ codes' = Cleared
    BY <1>5, TwoStepMoves DEF ClearRecoveryCodes, history
  <2>2. \A c \in Codes : codes'[c] # "fresh" /\ (codes'[c] = "none" <=> codes[c] = "none")
    BY <2>1 DEF Cleared
  <2>3. \A q \in Requests, c \in Codes : Accepts(q, c)' => q # r /\ Accepts(q, c)
    BY <2>1 DEF Goes, Accepts
  <2>4. ~overlapped => \A q \in Requests, c \in Codes : ~Accepts(q, c)'
    BY <2>1, <2>3 DEF Alone, Goes, Accepts
  <2> QED
    BY <2>1, <2>2, <2>3, <2>4 DEF CodeInv, Issued
<1>6. CASE \/ \E s \in Sessions : EndSession(s)
           \/ \E l \in Links : RequestReset(l) \/ Deliver(l) \/ LinkExpires(l)
           \/ OfficeReset \/ SetRecoveryEmail \/ StandDown \/ Reinstate \/ LockEnds
           \/ UNCHANGED allVars
  BY <1>6, Beside DEF CodeInv, Issued, Accepts
<1> QED
  BY <1>1, <1>2, <1>3, <1>4, <1>5, <1>6 DEF Next, SecondStep, TurnsTwoStep

(***************************************************************************)
(* A session opened with two-step on opens the portal only after a code    *)
(* was accepted for it, however requests meet or die; and while they take  *)
(* turns a recovery code lets in one session at most.                      *)
(***************************************************************************)
THEOREM SecondStepsAreTaken == Spec => []TwoStepsTaken
<1>1. Init => Alone
  BY DEF Init, Alone, Idle
<1>2. PassInv /\ CodeInv => TwoStepsTaken
  BY DEF PassInv, CodeInv, TwoStepsTaken
<1> QED
  BY InitTyped, TypeStep, <1>1, AloneStep, PassInit, PassStep, CodeInit, CodeStep, <1>2, PTL
     DEF Spec

-----------------------------------------------------------------------------
(***************************************************************************)
(* What is written to the row of the user.                                 *)
(***************************************************************************)
Keeps(f) == user'[f] = user[f]

LEMMA UserWrites ==
  ASSUME TypeOK
  PROVE  /\ \A r \in Requests : BurnLockout(r) \/ VerifyWrong(r) =>
                /\ user'.failed = req[r].count /\ user'.locked = Locks(req[r].count)
                /\ Keeps("password") /\ Keeps("secret") /\ Keeps("twoStep")
         /\ \A r \in Requests : FinaliseSuccess(r) \/ VerifyRight(r) =>
                /\ user'.failed = 0 /\ user'.locked = FALSE
                /\ Keeps("password") /\ Keeps("secret") /\ Keeps("twoStep")
         /\ \A r \in Requests : ChangeWrite(r) =>
                Keeps("failed") /\ Keeps("locked") /\ Keeps("secret") /\ Keeps("twoStep")
         /\ \A r \in Requests : ResetWrite(r) =>
                /\ user'.failed = 0 /\ user'.locked = FALSE
                /\ Keeps("secret") /\ Keeps("twoStep")
         /\ \A r \in Requests : EnrolWrite(r) \/ DisableWrite(r) =>
                /\ user'.twoStep = FALSE
                /\ user'.secret = IF EnrolWrite(r) THEN secrets' ELSE 0
                /\ Keeps("password") /\ Keeps("failed") /\ Keeps("locked")
         /\ \A r \in Requests : ConfirmWrite(r) =>
                /\ user'.twoStep = TRUE
                /\ Keeps("password") /\ Keeps("failed") /\ Keeps("locked") /\ Keeps("secret")
         /\ OfficeReset =>
                /\ user'.failed = 0 /\ user'.locked = FALSE
                /\ Keeps("secret") /\ Keeps("twoStep")
         /\ SetRecoveryEmail \/ StandDown \/ Reinstate =>
                /\ Keeps("password") /\ Keeps("failed") /\ Keeps("locked") /\ Keeps("secret")
                /\ Keeps("twoStep")
         /\ LockEnds =>
                /\ user'.locked = FALSE
                /\ Keeps("password") /\ Keeps("failed") /\ Keeps("secret") /\ Keeps("twoStep")
<1>1. user \in User
  BY DEF TypeOK
<1>2. ASSUME NEW r \in Requests, BurnLockout(r) \/ VerifyWrong(r)
      PROVE  /\ user'.failed = req[r].count /\ user'.locked = Locks(req[r].count)
             /\ Keeps("password") /\ Keeps("secret") /\ Keeps("twoStep")
  BY <1>1, <1>2 DEF BurnLockout, VerifyWrong, Keeps, User
<1>3. ASSUME NEW r \in Requests, FinaliseSuccess(r) \/ VerifyRight(r)
      PROVE  /\ user'.failed = 0 /\ user'.locked = FALSE
             /\ Keeps("password") /\ Keeps("secret") /\ Keeps("twoStep")
  <2> DEFINE u == Reset(user)
  <2>1. /\ u \in User /\ u.failed = 0 /\ u.locked = FALSE
        /\ u.password = user.password /\ u.secret = user.secret /\ u.twoStep = user.twoStep
    BY <1>1, ResetFacts
  <2>2. user' = u \/ \E b : user' = [u EXCEPT !.mustChange = b]
    BY <1>3 DEF FinaliseSuccess, VerifyRight
  <2> HIDE DEF u
  <2> QED
    BY <2>1, <2>2 DEF Keeps, User
<1>4. ASSUME NEW r \in Requests, ChangeWrite(r)
      PROVE  Keeps("failed") /\ Keeps("locked") /\ Keeps("secret") /\ Keeps("twoStep")
  BY <1>1, <1>4 DEF ChangeWrite, Keeps, User
<1>5. ASSUME OfficeReset \/ \E r \in Requests : ResetWrite(r)
      PROVE  /\ user'.failed = 0 /\ user'.locked = FALSE
             /\ Keeps("secret") /\ Keeps("twoStep")
  <2> DEFINE u == Reset(user)
  <2>1. /\ u \in User /\ u.failed = 0 /\ u.locked = FALSE
        /\ u.secret = user.secret /\ u.twoStep = user.twoStep
    BY <1>1, ResetFacts
  <2>2. \E n, b : user' = [u EXCEPT !.password = n, !.mustChange = b]
    BY <1>5 DEF OfficeReset, ResetWrite
  <2> HIDE DEF u
  <2> QED
    BY <2>1, <2>2 DEF Keeps, User
<1>6. ASSUME NEW r \in Requests, EnrolWrite(r) \/ DisableWrite(r)
      PROVE  /\ user'.twoStep = FALSE
             /\ user'.secret = IF EnrolWrite(r) THEN secrets' ELSE 0
             /\ Keeps("password") /\ Keeps("failed") /\ Keeps("locked")
  BY <1>1, <1>6 DEF EnrolWrite, DisableWrite, Keeps, User
<1>7. ASSUME NEW r \in Requests, ConfirmWrite(r)
      PROVE  /\ user'.twoStep = TRUE
             /\ Keeps("password") /\ Keeps("failed") /\ Keeps("locked") /\ Keeps("secret")
  BY <1>1, <1>7 DEF ConfirmWrite, Keeps, User
<1>8. ASSUME SetRecoveryEmail \/ StandDown \/ Reinstate
      PROVE  /\ Keeps("password") /\ Keeps("failed") /\ Keeps("locked") /\ Keeps("secret")
             /\ Keeps("twoStep")
  BY <1>1, <1>8 DEF SetRecoveryEmail, StandDown, Reinstate, Keeps, User
<1>9. ASSUME LockEnds
      PROVE  /\ user'.locked = FALSE
             /\ Keeps("password") /\ Keeps("failed") /\ Keeps("secret") /\ Keeps("twoStep")
  BY <1>1, <1>9 DEF LockEnds, Keeps, User
<1> QED
  BY <1>2, <1>3, <1>4, <1>5, <1>6, <1>7, <1>8, <1>9

-----------------------------------------------------------------------------
(***************************************************************************)
(* Passwords and sessions.                                                 *)
(***************************************************************************)
\* A session has the password of the row, unless a request has still to end it.
PasswordInv ==
    Undisturbed =>
        /\ \A r \in Requests : req[r].at \in {"finalise", "open"} => req[r].by = user.password
        /\ \A s \in Sessions : Live(s) =>
            sessions[s].by = user.password \/ \E r \in Requests : req[r].at = "revoke"

LEMMA PasswordInit == Init => PasswordInv
BY DEF Init, PasswordInv, Live, NoSession, Idle

\* What writes neither a password nor a session, and is not about to.
LEMMA NoPassword ==
  ASSUME TypeOK, NEW r \in Requests,
         \/ SignInWrong(r) \/ BurnLockout(r)
         \/ \E s \in Sessions : ReadPending(r, s)
         \/ \E right \in BOOLEAN, c \in Codes \union {0} : VerifyRead(r, right, c)
         \/ VerifyRefuses(r) \/ VerifyWrong(r) \/ VerifyRight(r)
         \/ ChangeRead(r) \/ (\E l \in Links : UseLink(r, l))
         \/ TurnsTwoStep(r)
  PROVE  /\ UNCHANGED <<sessions, deaths>> /\ user'.password = user.password
         /\ req[r].at # "revoke" /\ req'[r].at \notin {"finalise", "open"}
         /\ \A q \in Requests : q # r => req'[q] = req[q]
<1>1. CASE SignInWrong(r) \/ BurnLockout(r)
  BY <1>1, SigningInMoves, UserWrites DEF SignInWrong, BurnLockout, Goes, Keeps
<1>2. CASE \E s \in Sessions : ReadPending(r, s)
  BY <1>2, SecondStepMoves DEF ReadPending, Goes
<1>3. CASE \E right \in BOOLEAN, c \in Codes \union {0} : VerifyRead(r, right, c)
  <2>1. PICK right \in BOOLEAN, c \in Codes \union {0} : VerifyRead(r, right, c)
    BY <1>3
  <2>2. Goes(r, "factor", "accept")
    BY <2>1, SecondStepMoves
  <2> QED
    BY <2>1, <2>2 DEF VerifyRead, Goes
<1>4. CASE VerifyRefuses(r)
  BY <1>4, SecondStepMoves DEF VerifyRefuses, Goes
<1>5. CASE VerifyWrong(r) \/ VerifyRight(r)
  <2>1. Keeps("password")
    BY <1>5, UserWrites
  <2> QED
    BY <1>5, <2>1, SecondStepMoves DEF VerifyWrong, VerifyRight, Goes, Keeps
<1>6. CASE ChangeRead(r) \/ \E l \in Links : UseLink(r, l)
  BY <1>6, PasswordMoves DEF ChangeRead, UseLink, Goes
<1>7. CASE TurnsTwoStep(r)
  <2>1. CASE EnrolRead(r) \/ ConfirmRead(r) \/ RegenerateRead(r) \/ DisableRead(r)
             \/ IssueRecoveryCodes(r) \/ ClearRecoveryCodes(r)
    BY <2>1, TwoStepMoves
       DEF EnrolRead, ConfirmRead, RegenerateRead, DisableRead, IssueRecoveryCodes,
           ClearRecoveryCodes, Goes
  <2>2. CASE EnrolWrite(r) \/ ConfirmWrite(r) \/ DisableWrite(r)
    <3>1. Keeps("password")
      BY <2>2, UserWrites
    <3> QED
      BY <2>2, <3>1, TwoStepMoves DEF EnrolWrite, ConfirmWrite, DisableWrite, Goes, Keeps
  <2> QED
    BY <1>7, <2>1, <2>2 DEF TurnsTwoStep
<1> QED
  BY <1>1, <1>2, <1>3, <1>4, <1>5, <1>6, <1>7

LEMMA PasswordStep == TypeOK /\ Alone /\ PasswordInv /\ [Next]_allVars => PasswordInv'
<1> SUFFICES ASSUME TypeOK, Alone, PasswordInv, [Next]_allVars, Undisturbed' PROVE PasswordInv'
  BY DEF PasswordInv
<1>0. sessions \in [Sessions -> Session] /\ deaths \in Nat
  BY BoundAssumption DEF TypeOK
<1>1. ASSUME NEW r \in Requests, OfRequest(r)
      PROVE  /\ \A q \in Requests : q # r => req'[q] = req[q]
             /\ ~overlapped /\ \A q \in Requests : q # r => req[q].at = "idle"
  BY <1>1, Sole DEF Undisturbed
<1>2. ASSUME NEW r \in Requests,
             \/ SignInWrong(r) \/ BurnLockout(r)
             \/ \E s \in Sessions : ReadPending(r, s)
             \/ \E right \in BOOLEAN, c \in Codes \union {0} : VerifyRead(r, right, c)
             \/ VerifyRefuses(r) \/ VerifyWrong(r) \/ VerifyRight(r)
             \/ ChangeRead(r) \/ (\E l \in Links : UseLink(r, l))
             \/ TurnsTwoStep(r)
      PROVE  PasswordInv'
  <2>1. /\ UNCHANGED <<sessions, deaths>> /\ user'.password = user.password
        /\ req[r].at # "revoke" /\ req'[r].at \notin {"finalise", "open"}
        /\ \A q \in Requests : q # r => req'[q] = req[q]
    BY <1>2, NoPassword
  <2>2. Undisturbed
    BY <1>1, <1>2, <2>1 DEF Undisturbed, OfRequest, SignsIn, SecondStep, ChangesPassword
  <2> QED
    BY <2>1, <2>2 DEF PasswordInv, Live
<1>3. ASSUME NEW r \in Requests, SignInRight(r) PROVE PasswordInv'
  <2>1. /\ req[r].at = "idle" /\ req'[r].by = user.password
        /\ UNCHANGED <<user, sessions, deaths>>
        /\ \A q \in Requests : q # r => req'[q] = req[q]
    BY <1>3, SigningInMoves DEF SignInRight, Goes
  <2>2. Undisturbed
    BY <1>1, <1>3, <2>1 DEF Undisturbed, OfRequest, SignsIn
  <2> QED
    BY <2>1, <2>2 DEF PasswordInv, Live
<1>4. ASSUME NEW r \in Requests, FinaliseSuccess(r) PROVE PasswordInv'
  <2>1. /\ Goes(r, "finalise", "open") /\ req'[r].by = req[r].by
        /\ user'.password = user.password /\ UNCHANGED <<sessions, deaths>>
    BY <1>4, SigningInMoves, UserWrites DEF FinaliseSuccess, Keeps
  <2>2. Undisturbed
    BY <1>1, <1>4, <2>1 DEF Undisturbed, OfRequest, SignsIn
  <2> QED
    BY <2>1, <2>2 DEF PasswordInv, Live, Goes
<1>5. ASSUME NEW r \in Requests, CreateSession(r) PROVE PasswordInv'
  <2>1. /\ Goes(r, "open", "idle") /\ UNCHANGED <<user, deaths>>
    BY <1>5, SigningInMoves DEF CreateSession, history
  <2>2. Undisturbed
    BY <1>1, <1>5, <2>1 DEF Undisturbed, OfRequest, SignsIn
  <2>3. req[r].by = user.password
    BY <2>1, <2>2 DEF PasswordInv, Goes
  <2>4. \A s \in Sessions : sessions'[s] = sessions[s] \/ sessions'[s].by = user.password
    BY <1>0, <1>5, <2>3 DEF CreateSession
  <2> QED
    BY <2>1, <2>2, <2>4 DEF PasswordInv, Live, Goes
<1>6. ASSUME NEW r \in Requests, FinalizePending(r) PROVE PasswordInv'
  <2>1. /\ Goes(r, "promote", "idle") /\ UNCHANGED <<user, deaths>>
    BY <1>6, SecondStepMoves DEF FinalizePending, history
  <2>2. \A s \in Sessions : Live(s)' => Live(s) /\ sessions'[s].by = sessions[s].by
    BY <1>0, <1>6 DEF FinalizePending, Live, Session
  <2>3. Undisturbed
    BY <1>1, <1>6, <2>1 DEF Undisturbed, OfRequest, SecondStep
  <2> QED
    BY <2>1, <2>2, <2>3 DEF PasswordInv, Goes
<1>7. ASSUME NEW r \in Requests, ChangeWrite(r) \/ ResetWrite(r) PROVE PasswordInv'
  <2>1. req'[r].at = "revoke" /\ \A q \in Requests : q # r => req'[q] = req[q]
    BY <1>7, PasswordMoves DEF Goes
  <2>2. \A q \in Requests : q # r => req[q].at = "idle"
    BY <1>1, <1>7 DEF OfRequest, ChangesPassword
  <2> QED
    BY <2>1, <2>2 DEF PasswordInv
<1>8. ASSUME NEW r \in Requests, Revoke(r) PROVE PasswordInv'
  <2>1. Goes(r, "revoke", "idle") /\ UNCHANGED <<user, deaths>> /\ sessions' = AllEnded
    BY <1>8, PasswordMoves DEF Revoke, history
  <2>2. Undisturbed
    BY <1>1, <1>8, <2>1 DEF Undisturbed, OfRequest, ChangesPassword
  <2> QED
    BY <2>1, <2>2, SessionEdits DEF PasswordInv, Live, Goes
<1>9. ASSUME NEW r \in Requests, Dies(r) PROVE PasswordInv'
  BY <1>0, <1>9 DEF Dies, Undisturbed
<1>10. CASE OfficeReset \/ StandDown
  <2>1. UNCHANGED req /\ sessions' = AllEnded /\ \A q \in Requests : req[q].at = "idle"
    BY <1>10, OfficeMeetsNobody DEF OfficeReset, StandDown, Undisturbed
  <2> QED
    BY <2>1, SessionEdits DEF PasswordInv, Live
<1>11. CASE \/ \E s \in Sessions : EndSession(s)
            \/ \E l \in Links : RequestReset(l) \/ Deliver(l) \/ LinkExpires(l)
            \/ SetRecoveryEmail \/ Reinstate \/ LockEnds \/ UNCHANGED allVars
  <2>1. UNCHANGED <<req, deaths>> /\ ~overlapped
    BY <1>11, Beside DEF Undisturbed
  <2>2. \A s \in Sessions : Live(s)' => Live(s) /\ sessions'[s].by = sessions[s].by
    <3>1. CASE \E s \in Sessions : EndSession(s)
      BY <1>0, <3>1 DEF EndSession, Ended, NoSession, Live
    <3>2. CASE UNCHANGED sessions
      BY <3>2 DEF Live
    <3> QED
      BY <1>11, <3>1, <3>2 DEF RequestReset, Deliver, LinkExpires, SetRecoveryEmail, Reinstate,
         LockEnds, allVars
  <2>3. user'.password = user.password
    <3>1. CASE SetRecoveryEmail \/ Reinstate \/ LockEnds
      BY <3>1, UserWrites DEF Keeps
    <3>2. CASE UNCHANGED user
      BY <3>2
    <3> QED
      BY <1>11, <3>1, <3>2 DEF EndSession, RequestReset, Deliver, LinkExpires, allVars
  <2>4. Undisturbed
    BY <2>1 DEF Undisturbed
  <2> QED
    BY <2>1, <2>2, <2>3, <2>4 DEF PasswordInv
<1> QED
  BY <1>2, <1>3, <1>4, <1>5, <1>6, <1>7, <1>8, <1>9, <1>10, <1>11
     DEF Next, SignsIn, SecondStep, ChangesPassword

(***************************************************************************)
(* A change of the password that runs to its end alone leaves no session   *)
(* that was opened with an earlier one.                                    *)
(***************************************************************************)
THEOREM OldPasswordsGo == Spec => []OldPasswordsAreOut
<1>1. Init => Alone
  BY DEF Init, Alone, Idle
<1>2. PasswordInv => OldPasswordsAreOut
  BY DEF PasswordInv, OldPasswordsAreOut, Settled, Busy
<1> QED
  BY InitTyped, TypeStep, <1>1, AloneStep, PasswordInit, PasswordStep, <1>2, PTL DEF Spec

-----------------------------------------------------------------------------
(***************************************************************************)
(* The budget of wrong guesses.                                            *)
(***************************************************************************)
\* What counts is in the row or in what a request will write, and the row is at most one
\* behind: the guess met with no other still to be written.
CountInv ==
    /\ \A r \in Requests : Guessing(r) => failures <= req[r].count + uncounted
    /\ failures <= user.failed + 1 + uncounted
    /\ (\A r \in Requests : ~Guessing(r)) => failures <= user.failed + uncounted

\* A failure is counted, or about to be by the request that met it.
GuessInv ==
    Undisturbed =>
        /\ \A r \in Requests : Guessing(r) =>
            req[r].count = failures /\ failures = user.failed + 1
        /\ (\A r \in Requests : ~Guessing(r)) => user.failed = failures
        /\ user.locked => failures >= Allowed

LEMMA CountInit == Init => CountInv
BY DEF Init, CountInv, Guessing, Idle

LEMMA GuessInit == Init => GuessInv
BY DEF Init, GuessInv, Guessing, Idle

\* What neither makes nor counts a guess.
LEMMA NoGuess ==
  ASSUME TypeOK, NEW r \in Requests,
         \/ SignInRight(r) \/ CreateSession(r)
         \/ \E s \in Sessions : ReadPending(r, s)
         \/ VerifyRefuses(r) \/ FinalizePending(r)
         \/ ChangeRead(r) \/ ChangeWrite(r) \/ Revoke(r) \/ (\E l \in Links : UseLink(r, l))
         \/ TurnsTwoStep(r)
  PROVE  /\ UNCHANGED <<failures, uncounted, deaths>>
         /\ user'.failed = user.failed /\ user'.locked = user.locked
         /\ ~Guessing(r) /\ ~Guessing(r)'
         /\ \A q \in Requests : q # r => req'[q] = req[q]
<1>1. CASE SignInRight(r) \/ CreateSession(r)
  BY <1>1, SigningInMoves DEF SignInRight, CreateSession, Goes, Guessing, history
<1>2. CASE \E s \in Sessions : ReadPending(r, s)
  BY <1>2, SecondStepMoves DEF ReadPending, Goes, Guessing
<1>3. CASE VerifyRefuses(r) \/ FinalizePending(r)
  BY <1>3, SecondStepMoves DEF VerifyRefuses, FinalizePending, Goes, Guessing, history
<1>4. CASE ChangeRead(r) \/ Revoke(r) \/ \E l \in Links : UseLink(r, l)
  BY <1>4, PasswordMoves DEF ChangeRead, Revoke, UseLink, Goes, Guessing, history
<1>5. CASE ChangeWrite(r)
  <2>1. Keeps("failed") /\ Keeps("locked")
    BY <1>5, UserWrites
  <2> QED
    BY <1>5, <2>1, PasswordMoves DEF ChangeWrite, Goes, Guessing, Keeps, history
<1>6. CASE EnrolRead(r) \/ ConfirmRead(r) \/ RegenerateRead(r) \/ DisableRead(r)
           \/ IssueRecoveryCodes(r) \/ ClearRecoveryCodes(r)
  BY <1>6, TwoStepMoves
     DEF EnrolRead, ConfirmRead, RegenerateRead, DisableRead, IssueRecoveryCodes,
         ClearRecoveryCodes, Goes, Guessing, history
<1>7. CASE EnrolWrite(r) \/ ConfirmWrite(r) \/ DisableWrite(r)
  <2>1. Keeps("failed") /\ Keeps("locked")
    BY <1>7, UserWrites
  <2> QED
    BY <1>7, <2>1, TwoStepMoves
       DEF EnrolWrite, ConfirmWrite, DisableWrite, Goes, Guessing, Keeps, history
<1> QED
  BY <1>1, <1>2, <1>3, <1>4, <1>5, <1>6, <1>7 DEF TurnsTwoStep

\* A guess, met beside another or not.
LEMMA GuessMeets ==
  ASSUME TypeOK, NEW r \in Requests, Guesses(r)
  PROVE  /\ failures' = failures + 1
         /\ (\E q \in Requests \ {r} : Guessing(q)) => uncounted' = uncounted + 1
         /\ ~(\E q \in Requests \ {r} : Guessing(q)) => uncounted' = uncounted
BY DEF Guesses

LEMMA GuessCounted ==
  ASSUME TypeOK, CountInv, NEW r \in Requests, ~Guessing(r), Guesses(r), Guessing(r)',
         req'[r].count = user.failed + 1, UNCHANGED user,
         \A q \in Requests : q # r => req'[q] = req[q]
  PROVE  CountInv'
<1>0. /\ failures \in Nat /\ uncounted \in Nat /\ user.failed \in Nat
      /\ \A q \in Requests : req[q].count \in Nat
  BY UserFields, Held DEF TypeOK
<1>1. failures' = failures + 1
  BY GuessMeets
<1>2. CASE \E q \in Requests \ {r} : Guessing(q)
  <2>1. uncounted' = uncounted + 1
    BY <1>2, GuessMeets
  <2> QED
    BY <1>0, <1>1, <2>1 DEF CountInv, Guessing
<1>3. CASE ~\E q \in Requests \ {r} : Guessing(q)
  <2>1. uncounted' = uncounted
    BY <1>3, GuessMeets
  <2>2. failures <= user.failed + uncounted
    BY <1>3 DEF CountInv
  <2>3. \A q \in Requests : Guessing(q)' => q = r
    BY <1>3 DEF Guessing
  <2> QED
    BY <1>0, <1>1, <2>1, <2>2, <2>3 DEF CountInv
<1> QED
  BY <1>2, <1>3

LEMMA CountStep == TypeOK /\ CountInv /\ [Next]_allVars => CountInv'
<1> SUFFICES ASSUME TypeOK, CountInv, [Next]_allVars PROVE CountInv'
  OBVIOUS
<1>0. /\ failures \in Nat /\ uncounted \in Nat /\ user.failed \in Nat
      /\ \A q \in Requests : req[q].count \in Nat
  BY UserFields, Held DEF TypeOK
<1>1. ASSUME NEW r \in Requests, OfRequest(r)
      PROVE  \A q \in Requests : q # r => req'[q] = req[q]
  BY <1>1, BeginsOrGoesOn
<1>2. ASSUME NEW r \in Requests,
             \/ SignInRight(r) \/ CreateSession(r)
             \/ \E s \in Sessions : ReadPending(r, s)
             \/ VerifyRefuses(r) \/ FinalizePending(r)
             \/ ChangeRead(r) \/ ChangeWrite(r) \/ Revoke(r) \/ (\E l \in Links : UseLink(r, l))
             \/ TurnsTwoStep(r)
      PROVE  CountInv'
  <2>1. /\ UNCHANGED <<failures, uncounted>> /\ user'.failed = user.failed
        /\ ~Guessing(r) /\ ~Guessing(r)' /\ \A q \in Requests : q # r => req'[q] = req[q]
    BY <1>2, NoGuess
  <2> QED
    BY <2>1 DEF CountInv, Guessing
<1>3. ASSUME NEW r \in Requests, SignInWrong(r) PROVE CountInv'
  <2>1. /\ Goes(r, "idle", "burn") /\ req'[r].count = user.failed + 1
        /\ Guesses(r) /\ UNCHANGED user
    BY <1>3, SigningInMoves DEF SignInWrong
  <2>2. ~Guessing(r) /\ Guessing(r)'
    BY <2>1 DEF Guessing, Goes
  <2> QED
    BY <2>1, <2>2, GuessCounted DEF Goes
<1>4. ASSUME NEW r \in Requests, NEW right \in BOOLEAN, NEW c \in Codes \union {0},
             VerifyRead(r, right, c)
      PROVE  CountInv'
  <2>1. /\ Goes(r, "factor", "accept") /\ req'[r].right = right /\ UNCHANGED user
        /\ ~right => req'[r].count = user.failed + 1
        /\ IF right THEN UNCHANGED <<failures, uncounted>> ELSE Guesses(r)
    BY <1>4, SecondStepMoves DEF VerifyRead
  <2>2. ~Guessing(r) /\ (Guessing(r)' <=> ~right)
    BY <2>1 DEF Guessing, Goes
  <2>3. CASE right
    BY <2>1, <2>2, <2>3 DEF CountInv, Guessing, Goes
  <2>4. CASE ~right
    BY <2>1, <2>2, <2>4, GuessCounted DEF Goes
  <2> QED
    BY <2>3, <2>4
<1>5. ASSUME NEW r \in Requests, BurnLockout(r) \/ VerifyWrong(r) PROVE CountInv'
  <2>1. /\ Guessing(r) /\ ~Guessing(r)' /\ user'.failed = req[r].count
        /\ UNCHANGED <<failures, uncounted>>
    BY <1>5, SigningInMoves, SecondStepMoves, UserWrites
       DEF BurnLockout, VerifyWrong, Goes, Guessing, history
  <2>2. \A q \in Requests : q # r => req'[q] = req[q]
    BY <1>1, <1>5 DEF OfRequest, SignsIn, SecondStep
  <2> QED
    BY <1>0, <2>1, <2>2 DEF CountInv, Guessing
<1>6. ASSUME NEW r \in Requests, FinaliseSuccess(r) \/ VerifyRight(r) \/ ResetWrite(r)
      PROVE  CountInv'
  <2>1. user'.failed = 0 /\ failures' = 0 /\ uncounted' = 0
    BY <1>6, UserWrites DEF FinaliseSuccess, VerifyRight, ResetWrite, Forgets
  <2>2. ~Guessing(r)'
    BY <1>6, SigningInMoves, SecondStepMoves, PasswordMoves DEF Goes, Guessing
  <2>3. \A q \in Requests : q # r => req'[q] = req[q]
    BY <1>1, <1>6 DEF OfRequest, SignsIn, SecondStep, ChangesPassword
  <2> QED
    BY <1>0, <2>1, <2>2, <2>3 DEF CountInv, Guessing
<1>7. ASSUME NEW r \in Requests, Dies(r) PROVE CountInv'
  <2>1. /\ UNCHANGED <<user, failures>>
        /\ uncounted' = IF Guessing(r) THEN uncounted + 1 ELSE uncounted
    BY <1>7 DEF Dies
  <2>2. req'[r].at = "idle" /\ \A q \in Requests : q # r => req'[q] = req[q]
    BY <1>7, DiesGoes
  <2>3. ~Guessing(r)'
    BY <2>2 DEF Guessing
  <2> QED
    BY <1>0, <2>1, <2>2, <2>3 DEF CountInv, Guessing
<1>8. CASE OfficeReset
  <2>1. UNCHANGED req
    BY <1>8 DEF OfficeReset
  <2>2. user'.failed = 0 /\ failures' = 0 /\ uncounted' = 0
    BY <1>8, UserWrites DEF OfficeReset, Forgets
  <2> QED
    BY <1>0, <2>1, <2>2 DEF CountInv
<1>9. CASE \/ \E s \in Sessions : EndSession(s)
           \/ \E l \in Links : RequestReset(l) \/ Deliver(l) \/ LinkExpires(l)
           \/ SetRecoveryEmail \/ StandDown \/ Reinstate \/ LockEnds \/ UNCHANGED allVars
  <2>1. UNCHANGED <<req, failures, uncounted>>
    BY <1>9 DEF EndSession, RequestReset, Deliver, LinkExpires, SetRecoveryEmail, StandDown,
       Reinstate, LockEnds, allVars, history
  <2>2. user'.failed = user.failed
    <3>1. CASE SetRecoveryEmail \/ StandDown \/ Reinstate \/ LockEnds
      BY <3>1, UserWrites DEF Keeps
    <3>2. CASE UNCHANGED user
      BY <3>2
    <3> QED
      BY <1>9, <3>1, <3>2 DEF EndSession, RequestReset, Deliver, LinkExpires, allVars
  <2> QED
    BY <2>1, <2>2 DEF CountInv, Guessing
<1> QED
  BY <1>2, <1>3, <1>4, <1>5, <1>6, <1>7, <1>8, <1>9
     DEF Next, SignsIn, SecondStep, ChangesPassword

LEMMA GuessStep == TypeOK /\ Alone /\ GuessInv /\ [Next]_allVars => GuessInv'
<1> SUFFICES ASSUME TypeOK, Alone, GuessInv, [Next]_allVars, Undisturbed' PROVE GuessInv'
  BY DEF GuessInv
<1>0. deaths \in Nat /\ failures \in Nat /\ user.failed \in Nat /\ Allowed \in Nat
  BY BoundAssumption, AccountAssumption, UserFields DEF TypeOK
<1>1. ASSUME NEW r \in Requests, OfRequest(r)
      PROVE  /\ \A q \in Requests : q # r => req'[q] = req[q]
             /\ ~overlapped /\ \A q \in Requests : q # r => req[q].at = "idle"
  BY <1>1, Sole DEF Undisturbed
<1>a. ASSUME NEW r \in Requests, OfRequest(r)
      PROVE  \A q \in Requests : q # r => ~Guessing(q) /\ ~Guessing(q)'
  BY <1>1, <1>a DEF Guessing
<1>2. ASSUME NEW r \in Requests,
             \/ SignInRight(r) \/ CreateSession(r)
             \/ \E s \in Sessions : ReadPending(r, s)
             \/ VerifyRefuses(r) \/ FinalizePending(r)
             \/ ChangeRead(r) \/ ChangeWrite(r) \/ Revoke(r) \/ (\E l \in Links : UseLink(r, l))
             \/ TurnsTwoStep(r)
      PROVE  GuessInv'
  <2>1. /\ UNCHANGED <<failures, deaths>>
        /\ user'.failed = user.failed /\ user'.locked = user.locked
        /\ ~Guessing(r) /\ ~Guessing(r)'
    BY <1>2, NoGuess
  <2>2. OfRequest(r)
    BY <1>2 DEF OfRequest, SignsIn, SecondStep, ChangesPassword
  <2>3. Undisturbed
    BY <1>1, <2>1, <2>2 DEF Undisturbed
  <2>4. \A q \in Requests : ~Guessing(q) /\ ~Guessing(q)'
    BY <1>a, <2>1, <2>2
  <2> QED
    BY <2>1, <2>3, <2>4 DEF GuessInv
<1>3. ASSUME NEW r \in Requests, SignInWrong(r) PROVE GuessInv'
  <2>1. /\ Goes(r, "idle", "burn") /\ req'[r].count = user.failed + 1
        /\ failures' = failures + 1 /\ UNCHANGED <<user, deaths>> /\ ~user.locked
    BY <1>3, SigningInMoves DEF SignInWrong, Guesses
  <2>2. OfRequest(r)
    BY <1>3 DEF OfRequest, SignsIn
  <2>3. Undisturbed
    BY <1>1, <2>1, <2>2 DEF Undisturbed
  <2>4. ~Guessing(r) /\ Guessing(r)'
    BY <2>1 DEF Guessing, Goes
  <2>5. user.failed = failures
    BY <1>a, <2>2, <2>3, <2>4 DEF GuessInv
  <2> QED
    BY <1>0, <1>a, <2>1, <2>2, <2>4, <2>5 DEF GuessInv
<1>4. ASSUME NEW r \in Requests, NEW right \in BOOLEAN, NEW c \in Codes \union {0},
             VerifyRead(r, right, c)
      PROVE  GuessInv'
  <2>1. /\ Goes(r, "factor", "accept") /\ req'[r].right = right
        /\ ~right => req'[r].count = user.failed + 1
        /\ failures' = IF right THEN failures ELSE failures + 1
        /\ UNCHANGED <<user, deaths>> /\ ~user.locked
    BY <1>4, SecondStepMoves DEF VerifyRead, Guesses
  <2>2. OfRequest(r)
    BY <1>4 DEF OfRequest, SecondStep
  <2>3. Undisturbed
    BY <1>1, <2>1, <2>2 DEF Undisturbed
  <2>4. ~Guessing(r) /\ (Guessing(r)' <=> ~right)
    BY <2>1 DEF Guessing, Goes
  <2>5. user.failed = failures
    BY <1>a, <2>2, <2>3, <2>4 DEF GuessInv
  <2> QED
    BY <1>0, <1>a, <2>1, <2>2, <2>4, <2>5 DEF GuessInv
<1>5. ASSUME NEW r \in Requests, BurnLockout(r) \/ VerifyWrong(r) PROVE GuessInv'
  <2>1. /\ Guessing(r) /\ ~Guessing(r)'
        /\ user'.failed = req[r].count /\ user'.locked = Locks(req[r].count)
        /\ UNCHANGED <<failures, deaths>>
    BY <1>5, SigningInMoves, SecondStepMoves, UserWrites
       DEF BurnLockout, VerifyWrong, Goes, Guessing, history
  <2>2. OfRequest(r)
    BY <1>5 DEF OfRequest, SignsIn, SecondStep
  <2>3. Undisturbed
    BY <1>1, <2>1, <2>2 DEF Undisturbed
  <2>4. req[r].count = failures
    BY <2>1, <2>3 DEF GuessInv
  <2>5. \A q \in Requests : ~Guessing(q)'
    BY <1>a, <2>1, <2>2
  <2> QED
    BY <2>1, <2>4, <2>5 DEF GuessInv, Locks
<1>6. ASSUME NEW r \in Requests, FinaliseSuccess(r) \/ VerifyRight(r) \/ ResetWrite(r)
      PROVE  GuessInv'
  <2>1. user'.failed = 0 /\ user'.locked = FALSE /\ failures' = 0
    BY <1>6, UserWrites DEF FinaliseSuccess, VerifyRight, ResetWrite, Forgets
  <2>2. ~Guessing(r)'
    BY <1>6, SigningInMoves, SecondStepMoves, PasswordMoves DEF Goes, Guessing
  <2>3. OfRequest(r)
    BY <1>6 DEF OfRequest, SignsIn, SecondStep, ChangesPassword
  <2>4. \A q \in Requests : ~Guessing(q)'
    BY <1>a, <2>2, <2>3
  <2> QED
    BY <2>1, <2>4 DEF GuessInv
<1>7. ASSUME NEW r \in Requests, Dies(r) PROVE GuessInv'
  BY <1>0, <1>7 DEF Dies, Undisturbed
<1>8. CASE OfficeReset
  <2>1. UNCHANGED req /\ \A q \in Requests : req[q].at = "idle"
    BY <1>8, OfficeMeetsNobody DEF OfficeReset, Undisturbed
  <2>2. user'.failed = 0 /\ user'.locked = FALSE /\ failures' = 0
    BY <1>8, UserWrites DEF OfficeReset, Forgets
  <2> QED
    BY <2>1, <2>2 DEF GuessInv, Guessing
<1>9. CASE \/ \E s \in Sessions : EndSession(s)
           \/ \E l \in Links : RequestReset(l) \/ Deliver(l) \/ LinkExpires(l)
           \/ SetRecoveryEmail \/ StandDown \/ Reinstate \/ LockEnds \/ UNCHANGED allVars
  <2>1. UNCHANGED <<req, deaths>> /\ ~overlapped
    BY <1>9, Beside DEF Undisturbed
  <2>2. UNCHANGED failures
    BY <1>9 DEF EndSession, RequestReset, Deliver, LinkExpires, SetRecoveryEmail, StandDown,
       Reinstate, LockEnds, allVars, history
  <2>3. user'.failed = user.failed /\ (user'.locked => user.locked)
    <3>1. CASE SetRecoveryEmail \/ StandDown \/ Reinstate
      BY <3>1, UserWrites DEF Keeps
    <3>2. CASE LockEnds
      BY <3>2, UserWrites DEF Keeps
    <3>3. CASE UNCHANGED user
      BY <3>3
    <3> QED
      BY <1>9, <3>1, <3>2, <3>3 DEF EndSession, RequestReset, Deliver, LinkExpires, allVars
  <2>4. Undisturbed
    BY <2>1 DEF Undisturbed
  <2>5. \A q \in Requests : Guessing(q)' <=> Guessing(q)
    BY <2>1 DEF Guessing
  <2> QED
    BY <2>1, <2>2, <2>3, <2>4, <2>5 DEF GuessInv
<1> QED
  BY <1>2, <1>3, <1>4, <1>5, <1>6, <1>7, <1>8, <1>9
     DEF Next, SignsIn, SecondStep, ChangesPassword

(***************************************************************************)
(* Wrong passwords and wrong codes at the sign-in count against one        *)
(* budget, and half a sign-in does not give it back: whatever overlaps or  *)
(* dies, the row misses no more of them than met another that was still to *)
(* be written or were lost with a request; and none if requests take       *)
(* turns and do not die.                                                   *)
(***************************************************************************)
THEOREM GuessesCount == Spec => []GuessesAreCounted
<1>1. Init => Alone
  BY DEF Init, Alone, Idle
<1>2. CountInv /\ GuessInv => GuessesAreCounted
  BY DEF CountInv, GuessInv, GuessesAreCounted, Guessing, Settled, Busy
<1> QED
  BY InitTyped, TypeStep, <1>1, AloneStep, CountInit, CountStep, GuessInit, GuessStep, <1>2, PTL
     DEF Spec

-----------------------------------------------------------------------------
(***************************************************************************)
(* Two-step sign-in on and off.                                            *)
(***************************************************************************)
InForce == {c \in Codes : codes[c] \in {"fresh", "used"}}

\* A secret is shown before it counts, or replaced in between; the codes come and go with it.
SecretInv ==
    /\ user.twoStep \/ (\E r \in Requests : req[r].at = "confirm") =>
        user.secret \in proven \union swapped
    /\ Undisturbed =>
        /\ \A r \in Requests :
            /\ req[r].at = "issue" => user.twoStep
            /\ req[r].at \in {"enrol", "clear"} => ~user.twoStep
        /\ (\A r \in Requests : req[r].at \notin {"issue", "clear"}) =>
            Cardinality(InForce) = IF user.twoStep THEN CodeCount ELSE 0

LEMMA OneSet ==
  ASSUME NEW k \in Nat
  PROVE  Cardinality(k + 1 .. k + CodeCount) = CodeCount
BY FS_Interval, AccountAssumption

LEMMA SecretInit == Init => SecretInv
<1> SUFFICES ASSUME Init PROVE SecretInv
  OBVIOUS
<1>1. PICK on \in BOOLEAN :
        /\ user = [password |-> 1, mustChange |-> FALSE, active |-> TRUE, failed |-> 0,
                   locked |-> FALSE, secret |-> IF on THEN 1 ELSE 0, twoStep |-> on,
                   email |-> TRUE]
        /\ codes = [c \in Codes |-> IF on /\ c <= CodeCount THEN "fresh" ELSE "none"]
        /\ proven = {user.secret} \ {0}
  BY DEF Init
<1>2. user.twoStep = on
  BY <1>1
<1>3. user.twoStep => user.secret \in proven
  BY <1>1
<1>4. Cardinality(InForce) = IF user.twoStep THEN CodeCount ELSE 0
  <2>1. CASE on
    <3>1. InForce = 0 + 1 .. 0 + CodeCount
      BY <1>1, <2>1, AccountAssumption, BoundAssumption DEF InForce, Codes
    <3> QED
      BY <1>2, <2>1, <3>1, OneSet
  <2>2. CASE ~on
    <3>1. InForce = {}
      BY <1>1, <2>2 DEF InForce
    <3> QED
      BY <1>2, <2>2, <3>1, FS_EmptySet
  <2> QED
    BY <2>1, <2>2
<1>5. \A r \in Requests : req[r].at = "idle"
  BY DEF Init, Idle
<1> QED
  BY <1>3, <1>4, <1>5 DEF SecretInv

\* What has nothing to do with secrets, nor with what codes there are.
LEMMA NoSecret ==
  ASSUME TypeOK, NEW r \in Requests, SignsIn(r) \/ SecondStep(r) \/ ChangesPassword(r)
  PROVE  /\ UNCHANGED <<proven, swapped, deaths>>
         /\ user'.secret = user.secret /\ user'.twoStep = user.twoStep
         /\ InForce' = InForce
         /\ req[r].at \notin {"confirm", "clear", "issue", "enrol"}
         /\ req'[r].at \notin {"confirm", "clear", "issue", "enrol"}
<1>1. CASE SignsIn(r)
  <2>1. CASE SignInWrong(r) \/ SignInRight(r) \/ CreateSession(r)
    BY <2>1, SigningInMoves DEF SignInWrong, SignInRight, CreateSession, Goes, InForce, history
  <2>2. CASE BurnLockout(r) \/ FinaliseSuccess(r)
    <3>1. Keeps("secret") /\ Keeps("twoStep")
      BY <2>2, UserWrites
    <3> QED
      BY <2>2, <3>1, SigningInMoves DEF BurnLockout, FinaliseSuccess, Goes, InForce, Keeps, history
  <2> QED
    BY <1>1, <2>1, <2>2 DEF SignsIn
<1>2. CASE SecondStep(r)
  <2>1. CASE \E s \in Sessions : ReadPending(r, s)
    BY <2>1, SecondStepMoves DEF ReadPending, Goes, InForce
  <2>2. CASE \E right \in BOOLEAN, c \in Codes \union {0} : VerifyRead(r, right, c)
    <3>1. PICK right \in BOOLEAN, c \in Codes \union {0} : VerifyRead(r, right, c)
      BY <2>2
    <3>2. Goes(r, "factor", "accept")
      BY <3>1, SecondStepMoves
    <3> QED
      BY <3>1, <3>2 DEF VerifyRead, Goes, InForce
  <2>3. CASE VerifyRefuses(r) \/ FinalizePending(r)
    BY <2>3, SecondStepMoves DEF VerifyRefuses, FinalizePending, Goes, InForce, history
  <2>4. CASE VerifyWrong(r)
    <3>1. Keeps("secret") /\ Keeps("twoStep")
      BY <2>4, UserWrites
    <3> QED
      BY <2>4, <3>1, SecondStepMoves DEF VerifyWrong, Goes, InForce, Keeps, history
  <2>5. CASE VerifyRight(r)
    <3>1. Keeps("secret") /\ Keeps("twoStep")
      BY <2>5, UserWrites
    <3>2. InForce' = InForce
      BY <2>5 DEF VerifyRight, InForce
    <3>3. Goes(r, "accept", "promote") /\ UNCHANGED <<proven, swapped, deaths>>
      BY <2>5, SecondStepMoves DEF VerifyRight
    <3> QED
      BY <3>1, <3>2, <3>3 DEF Goes, Keeps
  <2> QED
    BY <1>2, <2>1, <2>2, <2>3, <2>4, <2>5 DEF SecondStep
<1>3. CASE ChangesPassword(r)
  <2>1. CASE ChangeRead(r) \/ Revoke(r) \/ \E l \in Links : UseLink(r, l)
    BY <2>1, PasswordMoves DEF ChangeRead, Revoke, UseLink, Goes, InForce, history
  <2>2. CASE ChangeWrite(r) \/ ResetWrite(r)
    <3>1. Keeps("secret") /\ Keeps("twoStep")
      BY <2>2, UserWrites
    <3> QED
      BY <2>2, <3>1, PasswordMoves DEF ChangeWrite, ResetWrite, Goes, InForce, Keeps, history
  <2> QED
    BY <1>3, <2>1, <2>2 DEF ChangesPassword
<1> QED
  BY <1>1, <1>2, <1>3

LEMMA SecretStep ==
  TypeOK /\ Alone /\ CodeInv /\ SecretInv /\ [Next]_allVars => SecretInv'
<1> SUFFICES ASSUME TypeOK, Alone, CodeInv, SecretInv, [Next]_allVars PROVE SecretInv'
  OBVIOUS
<1>0. deaths \in Nat
  BY BoundAssumption DEF TypeOK
<1>1. ASSUME NEW r \in Requests, OfRequest(r)
      PROVE  /\ \A q \in Requests : q # r => req'[q] = req[q]
             /\ ~overlapped' => ~overlapped /\ \A q \in Requests : q # r => req[q].at = "idle"
  BY <1>1, Sole
<1>2. ASSUME NEW r \in Requests, SignsIn(r) \/ SecondStep(r) \/ ChangesPassword(r)
      PROVE  SecretInv'
  <2>1. /\ UNCHANGED <<proven, swapped, deaths>>
        /\ user'.secret = user.secret /\ user'.twoStep = user.twoStep
        /\ InForce' = InForce
        /\ req[r].at \notin {"confirm", "clear", "issue", "enrol"}
        /\ req'[r].at \notin {"confirm", "clear", "issue", "enrol"}
    BY <1>2, NoSecret
  <2>2. /\ \A q \in Requests : q # r => req'[q] = req[q]
        /\ ~overlapped' => ~overlapped
    BY <1>1, <1>2 DEF OfRequest
  <2>3. Undisturbed' => Undisturbed
    BY <2>1, <2>2 DEF Undisturbed
  <2> QED
    BY <2>1, <2>2, <2>3 DEF SecretInv
<1>3. ASSUME NEW r \in Requests, Dies(r) PROVE SecretInv'
  <2>1. deaths' = deaths + 1 /\ UNCHANGED <<user, proven, swapped>>
    BY <1>3 DEF Dies
  <2>2. req'[r].at = "idle" /\ \A q \in Requests : q # r => req'[q] = req[q]
    BY <1>3, DiesGoes
  <2>3. ~Undisturbed'
    BY <1>0, <2>1 DEF Undisturbed
  <2> QED
    BY <2>1, <2>2, <2>3 DEF SecretInv
<1>4. ASSUME NEW r \in Requests, EnrolRead(r) \/ RegenerateRead(r) \/ DisableRead(r)
      PROVE  SecretInv'
  <2>1. /\ UNCHANGED <<user, proven, swapped, deaths>> /\ InForce' = InForce
        /\ req[r].at = "idle" /\ req'[r].at \notin {"confirm", "clear"}
        /\ req'[r].at = "issue" => user.twoStep
        /\ req'[r].at = "enrol" => ~user.twoStep
    BY <1>4, TwoStepMoves DEF EnrolRead, RegenerateRead, DisableRead, Goes, InForce
  <2>2. /\ \A q \in Requests : q # r => req'[q] = req[q]
        /\ ~overlapped' => ~overlapped /\ \A q \in Requests : q # r => req[q].at = "idle"
    BY <1>1, <1>4 DEF OfRequest, TurnsTwoStep
  <2>3. Undisturbed' =>
            Undisturbed /\ Cardinality(InForce) = IF user.twoStep THEN CodeCount ELSE 0
    BY <2>1, <2>2 DEF SecretInv, Undisturbed
  <2> QED
    BY <2>1, <2>2, <2>3 DEF SecretInv
<1>5. ASSUME NEW r \in Requests, ConfirmRead(r) PROVE SecretInv'
  <2>1. /\ UNCHANGED <<user, swapped, deaths>> /\ InForce' = InForce
        /\ proven' = proven \union {user.secret}
        /\ Goes(r, "idle", "confirm")
    BY <1>5, TwoStepMoves DEF ConfirmRead, InForce
  <2>2. ~overlapped' => ~overlapped
    BY <1>1, <1>5 DEF OfRequest, TurnsTwoStep
  <2>3. Undisturbed' => Undisturbed
    BY <2>1, <2>2 DEF Undisturbed
  <2> QED
    BY <2>1, <2>2, <2>3 DEF SecretInv, Goes
<1>6. ASSUME NEW r \in Requests, EnrolWrite(r) PROVE SecretInv'
  <2>1. /\ Goes(r, "enrol", "idle") /\ user'.twoStep = FALSE /\ user'.secret = secrets'
        /\ InForce' = InForce /\ UNCHANGED <<deaths, overlapped>> /\ Swaps(secrets')
    BY <1>6, TwoStepMoves, UserWrites DEF EnrolWrite, InForce
  <2>2. ~overlapped => \A q \in Requests : q # r => req[q].at = "idle"
    BY <2>1 DEF Alone, Goes
  <2>3. Undisturbed => Cardinality(InForce) = 0 /\ ~user.twoStep
    BY <2>1, <2>2 DEF SecretInv, Undisturbed, Goes
  <2>4. ~overlapped' => \A q \in Requests : req'[q].at = "idle"
    BY <2>1, <2>2 DEF Goes
  <2>5. (\E q \in Requests : req'[q].at = "confirm") => user'.secret \in swapped'
    BY <2>1 DEF Swaps, Goes
  <2> QED
    BY <2>1, <2>3, <2>4, <2>5 DEF SecretInv, Undisturbed
<1>7. ASSUME NEW r \in Requests, ConfirmWrite(r) PROVE SecretInv'
  <2>1. /\ Goes(r, "confirm", "issue") /\ user'.twoStep = TRUE /\ user'.secret = user.secret
        /\ UNCHANGED <<proven, swapped, deaths, overlapped>>
    BY <1>7, TwoStepMoves, UserWrites DEF ConfirmWrite, Keeps, history
  <2>2. ~overlapped => \A q \in Requests : q # r => req[q].at = "idle"
    BY <2>1 DEF Alone, Goes
  <2>3. ~overlapped => \A q \in Requests : q # r => req'[q].at = "idle"
    BY <2>1, <2>2 DEF Goes
  <2>4. user.secret \in proven \union swapped
    BY <2>1 DEF SecretInv, Goes
  <2>5. req'[r].at = "issue"
    BY <2>1 DEF Goes
  <2> QED
    BY <2>1, <2>3, <2>4, <2>5 DEF SecretInv, Undisturbed
<1>8. ASSUME NEW r \in Requests, DisableWrite(r) PROVE SecretInv'
  <2>1. /\ Goes(r, "disable", "clear") /\ user'.twoStep = FALSE /\ user'.secret = 0
        /\ UNCHANGED <<deaths, overlapped>> /\ Swaps(0)
    <3>1. Goes(r, "disable", "clear")
      BY <1>8, TwoStepMoves
    <3>2. ~EnrolWrite(r)
      BY <3>1, TwoStepMoves DEF Goes
    <3> QED
      BY <1>8, <3>1, <3>2, UserWrites DEF DisableWrite
  <2>2. ~overlapped => \A q \in Requests : q # r => req[q].at = "idle"
    BY <2>1 DEF Alone, Goes
  <2>3. ~overlapped => \A q \in Requests : q # r => req'[q].at = "idle"
    BY <2>1, <2>2 DEF Goes
  <2>4. req'[r].at = "clear"
    BY <2>1 DEF Goes
  <2>5. (\E q \in Requests : req'[q].at = "confirm") => user'.secret \in swapped'
    BY <2>1 DEF Swaps, Goes
  <2> QED
    BY <2>1, <2>3, <2>4, <2>5 DEF SecretInv, Undisturbed
<1>9. ASSUME NEW r \in Requests, IssueRecoveryCodes(r) PROVE SecretInv'
  <2>1. PICK k \in 0..MaxCodes : Issued(k)
    BY DEF CodeInv
  <2>2. /\ Goes(r, "issue", "idle") /\ UNCHANGED <<user, proven, swapped, deaths, overlapped>>
        /\ k + CodeCount <= MaxCodes
        /\ codes' = [c \in Codes |-> IF c \in k + 1 .. k + CodeCount
                                     THEN "fresh" ELSE Cleared[c]]
    BY <1>9, <2>1, Counted, TwoStepMoves DEF IssueRecoveryCodes, history
  <2>3. InForce' = k + 1 .. k + CodeCount
    BY <2>1, <2>2, AccountAssumption, BoundAssumption DEF InForce, Cleared, Codes
  <2>4. Cardinality(InForce') = CodeCount
    <3> DEFINE S == InForce'
    <3>1. S = k + 1 .. k + CodeCount /\ k \in Nat
      BY <2>3, BoundAssumption
    <3> HIDE DEF S
    <3>2. Cardinality(S) = CodeCount
      BY <3>1, OneSet
    <3> QED
      BY <3>2 DEF S
  <2>5. Undisturbed => user.twoStep
    BY <2>2 DEF SecretInv, Goes
  <2> QED
    BY <2>2, <2>4, <2>5 DEF SecretInv, Undisturbed, Goes
<1>10. ASSUME NEW r \in Requests, ClearRecoveryCodes(r) PROVE SecretInv'
  <2>1. /\ Goes(r, "clear", "idle") /\ UNCHANGED <<user, proven, swapped, deaths, overlapped>>
        /\ InForce' = {}
    BY <1>10, TwoStepMoves DEF ClearRecoveryCodes, Cleared, InForce, history
  <2>2. Cardinality(InForce') = 0
    BY <2>1, FS_EmptySet
  <2>3. Undisturbed => ~user.twoStep
    BY <2>1 DEF SecretInv, Goes
  <2> QED
    BY <2>1, <2>2, <2>3 DEF SecretInv, Undisturbed, Goes
<1>11. CASE \/ \E s \in Sessions : EndSession(s)
            \/ \E l \in Links : RequestReset(l) \/ Deliver(l) \/ LinkExpires(l)
            \/ OfficeReset \/ SetRecoveryEmail \/ StandDown \/ Reinstate \/ LockEnds
            \/ UNCHANGED allVars
  <2>1. /\ UNCHANGED <<req, codes, proven, swapped, deaths>>
        /\ ~overlapped' => ~overlapped
    BY <1>11, Beside
  <2>2. user'.secret = user.secret /\ user'.twoStep = user.twoStep
    <3>1. CASE OfficeReset \/ SetRecoveryEmail \/ StandDown \/ Reinstate \/ LockEnds
      BY <3>1, UserWrites DEF Keeps
    <3>2. CASE UNCHANGED user
      BY <3>2
    <3> QED
      BY <1>11, <3>1, <3>2 DEF EndSession, RequestReset, Deliver, LinkExpires, allVars
  <2>3. InForce' = InForce /\ (Undisturbed' => Undisturbed)
    BY <2>1 DEF InForce, Undisturbed
  <2> QED
    BY <2>1, <2>2, <2>3 DEF SecretInv
<1> QED
  BY <1>2, <1>3, <1>4, <1>5, <1>6, <1>7, <1>8, <1>9, <1>10, <1>11 DEF Next, TurnsTwoStep

(***************************************************************************)
(* Two-step is on only with a secret its owner has shown to hold, or one   *)
(* that replaced it between the check of a code and the write that turned  *)
(* two-step on; and requests that take turns and do not die leave one set  *)
(* of recovery codes while it is on, and none while it is off.             *)
(***************************************************************************)
THEOREM TwoStepProven == Spec => []TwoStepIsProven
<1>1. Init => Alone
  BY DEF Init, Alone, Idle
<1>2. SecretInv => TwoStepIsProven
  BY DEF SecretInv, TwoStepIsProven, InForce, Settled, Busy
<1> QED
  BY InitTyped, TypeStep, <1>1, AloneStep, CodeInit, CodeStep, SecretInit, SecretStep, <1>2, PTL
     DEF Spec

-----------------------------------------------------------------------------
(***************************************************************************)
(* The staff, for any number of people, units and transactions at once.    *)
(* What a transaction has read holds when it writes, unless another has    *)
(* committed since.                                                        *)
(***************************************************************************)
\* The account of a member of staff says what the row of staff says.
AccountFollowsStaff ==
    \A s \in Staff : userRole[s] = role[s] /\ (login[s] <=> status[s] = "active")

\* What a transaction is about, whatever others have done since.
StaffingTxnShape(w) ==
    /\ w.op = "none" => w = Closed
    /\ w.op # "none" => w.staff \in Staff
    /\ w.op = "head" => w.on \in Classes
    /\ w.op = "teach" => w.on \in Posts
    /\ w.op = "update" => Known(w.staff)
    /\ w.op = "update" /\ w.role # "principal" => w.seen = {}

\* What a transaction has checked, as long as no other has committed.
StaffingReadHolds(w) ==
    /\ w.op = "register" => ~Known(w.staff) /\ (w.role = "principal" => Principals = {})
    /\ w.op = "update" =>
        /\ role[w.staff] # w.role
        /\ role[w.staff] = "principal" => Principals \ {w.staff} # {}
        /\ w.role = "principal" =>
            \/ Principals \ {w.staff} = {} /\ w.seen = {}
            \/ \E i \in Principals \ {w.staff} : w.seen = {i}
    /\ w.op = "stand_down" => role[w.staff] # "principal"
    /\ w.op = "reactivate" /\ role[w.staff] = "principal" => Principals = {}
    /\ w.op = "head" => status[w.staff] = "active" /\ w.seen = Heads(w.on) \ {w.staff}
    /\ w.op = "teach" => status[w.staff] = "active"

StaffingTxnOK(w) == StaffingTxnShape(w) /\ (w.stale \/ StaffingReadHolds(w))

AtMostOnePrincipal == met \/ \A a, b \in Principals : a = b

OneHeadEach == \A c \in Classes \ raced : \A a, b \in Heads(c) : a = b

LeaversHoldNothing ==
    \A s \in Staff \ raced : status[s] = "left" => ~Holds(s)

StaffingInv ==
    /\ StaffingTypeOK
    /\ AccountFollowsStaff
    /\ \A t \in Slots : StaffingTxnOK(txn[t])
    /\ AtMostOnePrincipal
    /\ met \/ abandoned \/ Principals # {}
    /\ OneHeadEach
    /\ LeaversHoldNothing

-----------------------------------------------------------------------------
(***************************************************************************)
(* Types, and transactions that are opened, set aside or overtaken.        *)
(***************************************************************************)
LEMMA ClosedStaffingTxn == Closed \in Txn /\ StaffingTxnOK(Closed)
BY DEF Closed, Txn, Roles, StaffingTxnOK, StaffingTxnShape, StaffingReadHolds

\* Nothing is written when a transaction opens.
LEMMA OpensKeepsStaffing ==
  ASSUME StaffingInv, NEW t \in Slots, NEW w \in Txn, Opens(t, w), StaffingTxnOK(w)
  PROVE  StaffingInv'
<1>1. UNCHANGED <<status, role, login, userRole, heads, teaches, raced, met, abandoned>>
  BY DEF Opens, staffingHistory
<1>2. StaffingTypeOK'
  BY <1>1, StaffingBounds DEF Opens, StaffingInv, StaffingTypeOK
<1>3. \A u \in Slots : txn'[u] = txn[u] \/ txn'[u] = w
  BY DEF Opens, StaffingInv, StaffingTypeOK
<1>4. ASSUME NEW u \in Slots PROVE StaffingTxnOK(txn[u])'
  <2>1. StaffingTxnOK(txn'[u])
    BY <1>3 DEF StaffingInv
  <2> QED
    BY <2>1, <1>1 DEF StaffingTxnOK, StaffingTxnShape, StaffingReadHolds, Known, Principals, Heads
<1>5. AccountFollowsStaff' /\ AtMostOnePrincipal' /\ (met \/ abandoned \/ Principals # {})'
        /\ OneHeadEach' /\ LeaversHoldNothing'
  BY <1>1 DEF StaffingInv, AccountFollowsStaff, AtMostOnePrincipal, Principals, OneHeadEach,
     Heads, LeaversHoldNothing, Holds
<1> QED
  BY <1>2, <1>4, <1>5 DEF StaffingInv

LEMMA RollsBackKeepsStaffing ==
  ASSUME StaffingInv, NEW t \in Slots, RollsBack(t)
  PROVE  StaffingInv'
<1>1. UNCHANGED <<status, role, login, userRole, heads, teaches, transactions, raced, met, abandoned>>
  BY DEF RollsBack, staffingHistory
<1>2. StaffingTypeOK'
  BY <1>1, ClosedStaffingTxn DEF RollsBack, StaffingInv, StaffingTypeOK
<1>3. \A u \in Slots : txn'[u] = txn[u] \/ txn'[u] = Closed
  BY DEF RollsBack, StaffingInv, StaffingTypeOK
<1>4. ASSUME NEW u \in Slots PROVE StaffingTxnOK(txn[u])'
  <2>1. StaffingTxnOK(txn'[u])
    BY <1>3, ClosedStaffingTxn DEF StaffingInv
  <2> QED
    BY <2>1, <1>1 DEF StaffingTxnOK, StaffingTxnShape, StaffingReadHolds, Known, Principals, Heads
<1>5. AccountFollowsStaff' /\ AtMostOnePrincipal' /\ (met \/ abandoned \/ Principals # {})'
        /\ OneHeadEach' /\ LeaversHoldNothing'
  BY <1>1 DEF StaffingInv, AccountFollowsStaff, AtMostOnePrincipal, Principals, OneHeadEach,
     Heads, LeaversHoldNothing, Holds
<1> QED
  BY <1>2, <1>4, <1>5 DEF StaffingInv

\* Whatever is written, the other transactions are then out of date.
LEMMA OvertakenStaffing ==
  ASSUME StaffingInv,
         txn' = [u \in Slots |-> txn'[u]],
         \A u \in Slots : \/ txn'[u] = Closed
                          \/ txn'[u] = [txn[u] EXCEPT !.stale = TRUE] /\ txn[u].op # "none",
         \A s \in Staff : Known(s) => Known(s)'
  PROVE  txn' \in [Slots -> Txn] /\ \A u \in Slots : StaffingTxnOK(txn[u])'
<1>1. ASSUME NEW u \in Slots PROVE txn'[u] \in Txn /\ StaffingTxnOK(txn[u])'
  <2>1. CASE txn'[u] = Closed
    BY <2>1, ClosedStaffingTxn
       DEF Closed, StaffingTxnOK, StaffingTxnShape, StaffingReadHolds
  <2>2. CASE txn'[u] = [txn[u] EXCEPT !.stale = TRUE] /\ txn[u].op # "none"
    <3>1. txn[u] \in Txn /\ StaffingTxnShape(txn[u])
      BY DEF StaffingInv, StaffingTypeOK, StaffingTxnOK
    <3>2. txn'[u] \in Txn /\ txn'[u].stale /\ txn'[u].op = txn[u].op
            /\ txn'[u].staff = txn[u].staff /\ txn'[u].on = txn[u].on
            /\ txn'[u].role = txn[u].role /\ txn'[u].seen = txn[u].seen
      BY <2>2, <3>1 DEF Txn
    <3>3. StaffingTxnShape(txn[u])'
      BY <2>2, <3>1, <3>2 DEF StaffingTxnShape
    <3> QED
      BY <3>2, <3>3 DEF StaffingTxnOK
  <2> QED
    BY <2>1, <2>2
<1> QED
  BY <1>1

LEMMA CommitsStaffing ==
  ASSUME StaffingInv, NEW t \in Slots, NEW op, op # "none", Commits(t, op),
         \A s \in Staff : Known(s) => Known(s)'
  PROVE  /\ txn' \in [Slots -> Txn] /\ \A u \in Slots : StaffingTxnOK(txn[u])'
         /\ transactions' \in 0..MaxTransactions
         /\ raced' \subseteq Staff \union Classes /\ raced \subseteq raced'
         /\ met' \in BOOLEAN /\ (met => met')
         /\ txn[t] \in Txn /\ StaffingTxnOK(txn[t]) /\ txn[t].op = op /\ txn[t].staff \in Staff
         /\ txn[t].stale => /\ txn[t].staff \in raced'
                            /\ txn[t].on \in Classes => txn[t].on \in raced'
                            /\ OfThePrincipal(txn[t]) => met'
<1>1. txn' \in [Slots -> Txn] /\ \A u \in Slots : StaffingTxnOK(txn[u])'
  BY OvertakenStaffing DEF Commits
<1>2. txn[t] \in Txn /\ StaffingTxnOK(txn[t]) /\ txn[t].op = op /\ txn[t].staff \in Staff
  BY DEF Commits, StaffingInv, StaffingTypeOK, StaffingTxnOK, StaffingTxnShape
<1>3. met' \in BOOLEAN /\ (met => met') /\ (txn[t].stale /\ OfThePrincipal(txn[t]) => met')
  BY DEF Commits
<1> QED
  BY <1>1, <1>2, <1>3 DEF Commits, StaffingInv, StaffingTypeOK
-----------------------------------------------------------------------------
(***************************************************************************)
(* Opening a transaction: what it has checked holds.                       *)
(***************************************************************************)
LEMMA RegisterStaffOpens ==
  ASSUME StaffingInv, NEW t \in Slots, NEW s \in Staff, NEW r \in Roles, RegisterStaff(t, s, r)
  PROVE  StaffingInv'
<1> DEFINE w == [Closed EXCEPT !.op = "register", !.staff = s, !.role = r]
<1>1. w \in Txn
  BY DEF Closed, Txn
<1>2. StaffingTxnOK(w)
  BY DEF RegisterStaff, Closed, StaffingTxnOK, StaffingTxnShape, StaffingReadHolds
<1> QED
  BY <1>1, <1>2, OpensKeepsStaffing DEF RegisterStaff

LEMMA UpdateStaffOpens ==
  ASSUME StaffingInv, NEW t \in Slots, NEW s \in Staff, NEW r \in Roles, NEW yes,
         UpdateStaff(t, s, r, yes)
  PROVE  StaffingInv'
<1> DEFINE others == Principals \ {s}
           choices == IF r = "principal" /\ others # {} THEN {{i} : i \in others} ELSE {{}}
           w(seen) == [Closed EXCEPT !.op = "update", !.staff = s, !.role = r, !.seen = seen]
<1>1. PICK seen \in choices : Opens(t, w(seen))
  BY DEF UpdateStaff
<1>2. seen \in SUBSET Staff
  BY DEF Principals
<1>3. w(seen) \in Txn
  BY <1>2 DEF Closed, Txn
<1>4. \/ r = "principal" /\ \E i \in others : seen = {i}
      \/ seen = {} /\ (r = "principal" => others = {})
  OBVIOUS
<1>5. StaffingTxnOK(w(seen))
  BY <1>4 DEF UpdateStaff, Closed, StaffingTxnOK, StaffingTxnShape, StaffingReadHolds
<1> HIDE DEF w
<1> QED
  BY <1>1, <1>3, <1>5, OpensKeepsStaffing

LEMMA StandDownStaffOpens ==
  ASSUME StaffingInv, NEW t \in Slots, NEW s \in Staff, NEW yes, StandDownStaff(t, s, yes)
  PROVE  StaffingInv'
<1> DEFINE w == [Closed EXCEPT !.op = "stand_down", !.staff = s]
<1>1. w \in Txn
  BY DEF Closed, Txn, Roles
<1>2. StaffingTxnOK(w)
  BY DEF StandDownStaff, Closed, StaffingTxnOK, StaffingTxnShape, StaffingReadHolds
<1> QED
  BY <1>1, <1>2, OpensKeepsStaffing DEF StandDownStaff

LEMMA ReactivateStaffOpens ==
  ASSUME StaffingInv, NEW t \in Slots, NEW s \in Staff, ReactivateStaff(t, s)
  PROVE  StaffingInv'
<1> DEFINE w == [Closed EXCEPT !.op = "reactivate", !.staff = s]
<1>1. w \in Txn
  BY DEF Closed, Txn, Roles
<1>2. StaffingTxnOK(w)
  BY DEF ReactivateStaff, Closed, StaffingTxnOK, StaffingTxnShape, StaffingReadHolds
<1> QED
  BY <1>1, <1>2, OpensKeepsStaffing DEF ReactivateStaff

LEMMA AssignHeadOpens ==
  ASSUME StaffingInv, NEW t \in Slots, NEW s \in Staff, NEW c \in Classes, AssignHead(t, s, c)
  PROVE  StaffingInv'
<1> DEFINE w == [Closed EXCEPT !.op = "head", !.staff = s, !.on = c, !.seen = Heads(c) \ {s}]
<1>1. w \in Txn
  BY DEF Closed, Txn, Roles, Heads
<1>2. StaffingTxnOK(w)
  BY DEF AssignHead, Closed, StaffingTxnOK, StaffingTxnShape, StaffingReadHolds
<1> QED
  BY <1>1, <1>2, OpensKeepsStaffing DEF AssignHead

LEMMA AssignPostOpens ==
  ASSUME StaffingInv, NEW t \in Slots, NEW s \in Staff, NEW x \in Posts, AssignPost(t, s, x)
  PROVE  StaffingInv'
<1> DEFINE w == [Closed EXCEPT !.op = "teach", !.staff = s, !.on = x]
<1>1. w \in Txn
  BY DEF Closed, Txn, Roles
<1>2. StaffingTxnOK(w)
  BY DEF AssignPost, Closed, StaffingTxnOK, StaffingTxnShape, StaffingReadHolds
<1> QED
  BY <1>1, <1>2, OpensKeepsStaffing DEF AssignPost

-----------------------------------------------------------------------------
(***************************************************************************)
(* Committing.                                                             *)
(***************************************************************************)
\* A registration makes a principal only of a school that has none, or was overtaken.
LEMMA RegisterKeepsStaffing ==
  ASSUME StaffingInv, NEW t \in Slots, RegisterCommits(t)
  PROVE  StaffingInv'
<1> DEFINE w == txn[t]
<1>0. Commits(t, "register") /\ UNCHANGED <<heads, teaches, abandoned>>
        /\ status' = [status EXCEPT ![w.staff] = "active"]
        /\ role' = [role EXCEPT ![w.staff] = w.role]
        /\ login' = [login EXCEPT ![w.staff] = TRUE]
        /\ userRole' = [userRole EXCEPT ![w.staff] = w.role]
  BY DEF RegisterCommits
<1>1. \A s \in Staff : Known(s) => Known(s)'
  BY <1>0 DEF Known, StaffingInv, StaffingTypeOK
<1>2. /\ txn' \in [Slots -> Txn] /\ \A u \in Slots : StaffingTxnOK(txn[u])'
      /\ transactions' \in 0..MaxTransactions
      /\ raced' \subseteq Staff \union Classes /\ raced \subseteq raced'
      /\ met' \in BOOLEAN /\ (met => met')
      /\ w \in Txn /\ StaffingTxnOK(w) /\ w.op = "register" /\ w.staff \in Staff
      /\ w.stale => w.staff \in raced' /\ (OfThePrincipal(w) => met')
  BY <1>0, <1>1, CommitsStaffing
<1>3. w.role \in Roles
  BY <1>2 DEF Txn
<1>4. StaffingTypeOK'
  BY <1>0, <1>2, <1>3 DEF StaffingInv, StaffingTypeOK
<1>5. AccountFollowsStaff'
  BY <1>0, <1>2 DEF StaffingInv, StaffingTypeOK, AccountFollowsStaff
<1>6. Principals' = IF w.role = "principal" THEN Principals \union {w.staff}
                    ELSE Principals \ {w.staff}
  BY <1>0, <1>2 DEF StaffingInv, StaffingTypeOK, Principals
<1>7. AtMostOnePrincipal'
  <2>1. CASE met'
    BY <2>1 DEF AtMostOnePrincipal
  <2>2. CASE ~met' /\ w.role # "principal"
    BY <2>2, <1>2, <1>6 DEF StaffingInv, AtMostOnePrincipal
  <2>3. CASE ~met' /\ w.role = "principal"
    <3>1. Principals = {}
      BY <2>3, <1>2 DEF OfThePrincipal, StaffingTxnOK, StaffingReadHolds
    <3> QED
      BY <3>1, <2>3, <1>6 DEF AtMostOnePrincipal
  <2> QED
    BY <2>1, <2>2, <2>3
<1>8. (met \/ abandoned \/ Principals # {})'
  <2>1. CASE w.stale /\ role[w.staff] = "principal"
    BY <2>1, <1>2 DEF OfThePrincipal
  <2>2. CASE w.stale /\ role[w.staff] # "principal"
    BY <2>2, <1>0, <1>2, <1>6 DEF StaffingInv, Principals
  <2>3. CASE ~w.stale
    <3>1. w.staff \notin Principals
      BY <2>3, <1>2 DEF StaffingTxnOK, StaffingReadHolds, Known, Principals
    <3> QED
      BY <3>1, <1>0, <1>2, <1>6 DEF StaffingInv
  <2> QED
    BY <2>1, <2>2, <2>3, <1>2 DEF Txn
<1>9. OneHeadEach' /\ LeaversHoldNothing'
  BY <1>0, <1>2 DEF StaffingInv, StaffingTypeOK, OneHeadEach, Heads, LeaversHoldNothing, Holds
<1> QED
  BY <1>2, <1>4, <1>5, <1>7, <1>8, <1>9 DEF StaffingInv

\* A change of role gives the principal's only to whom it is taken for, and never takes
\* the last one's.
LEMMA UpdateKeepsStaffing ==
  ASSUME StaffingInv, NEW t \in Slots, UpdateCommits(t)
  PROVE  StaffingInv'
<1> DEFINE w == txn[t]
           Now(before) == [s \in Staff |-> IF s = w.staff THEN w.role
                                           ELSE IF s \in w.seen THEN "vice_principal"
                                           ELSE before[s]]
<1>0. Commits(t, "update") /\ UNCHANGED <<status, login, heads, teaches>>
        /\ role' = Now(role) /\ userRole' = Now(userRole)
        /\ abandoned' = (abandoned \/ (w.seen # {} /\ status[w.staff] = "left"))
  BY DEF UpdateCommits
<1>1. \A s \in Staff : Known(s) => Known(s)'
  BY <1>0 DEF Known
<1>2. /\ txn' \in [Slots -> Txn] /\ \A u \in Slots : StaffingTxnOK(txn[u])'
      /\ transactions' \in 0..MaxTransactions
      /\ raced' \subseteq Staff \union Classes /\ raced \subseteq raced'
      /\ met' \in BOOLEAN /\ (met => met')
      /\ w \in Txn /\ StaffingTxnOK(w) /\ w.op = "update" /\ w.staff \in Staff
      /\ w.stale => w.staff \in raced' /\ (OfThePrincipal(w) => met')
  BY <1>0, <1>1, CommitsStaffing
<1>3. w.role \in Roles /\ w.seen \subseteq Staff /\ w.stale \in BOOLEAN
  BY <1>2 DEF Txn
<1>4. Now(role) \in [Staff -> Roles] /\ Now(userRole) \in [Staff -> Roles]
  BY <1>3 DEF StaffingInv, StaffingTypeOK, Roles
<1>5. StaffingTypeOK'
  BY <1>0, <1>2, <1>4 DEF StaffingInv, StaffingTypeOK
<1>6. AccountFollowsStaff'
  BY <1>0 DEF StaffingInv, AccountFollowsStaff
<1>7. Principals' = {s \in Staff : status[s] = "active" /\ Now(role)[s] = "principal"}
  BY <1>0 DEF Principals
<1>8. AtMostOnePrincipal' /\ (met \/ abandoned \/ Principals # {})'
  <2>1. CASE w.role # "principal" /\ role[w.staff] # "principal"
    <3>1. w.seen = {}
      BY <2>1, <1>2 DEF StaffingTxnOK, StaffingTxnShape
    <3>2. Principals' = Principals
      BY <1>7, <2>1, <3>1 DEF Principals
    <3> QED
      BY <3>2, <1>0, <1>2 DEF StaffingInv, AtMostOnePrincipal
  <2>2. CASE w.role # "principal" /\ role[w.staff] = "principal"
    <3>1. w.seen = {}
      BY <2>2, <1>2 DEF StaffingTxnOK, StaffingTxnShape
    <3>2. Principals' = Principals \ {w.staff}
      BY <1>7, <2>2, <3>1 DEF Principals
    <3>3. CASE w.stale
      BY <3>3, <2>2, <1>2 DEF OfThePrincipal, AtMostOnePrincipal
    <3>4. CASE ~w.stale
      <4>1. Principals \ {w.staff} # {}
        BY <3>4, <2>2, <1>2 DEF StaffingTxnOK, StaffingReadHolds
      <4> QED
        BY <4>1, <3>2, <1>2 DEF StaffingInv, AtMostOnePrincipal
    <3> QED
      BY <3>3, <3>4
  <2>3. CASE w.role = "principal" /\ w.stale
    BY <2>3, <1>2 DEF OfThePrincipal, AtMostOnePrincipal
  <2>4. CASE w.role = "principal" /\ ~w.stale
    <3>0. role[w.staff] # "principal"
            /\ (\/ Principals \ {w.staff} = {} /\ w.seen = {}
                \/ \E i \in Principals \ {w.staff} : w.seen = {i})
      BY <2>4, <1>2 DEF StaffingTxnOK, StaffingReadHolds
    <3>1. w.staff \notin Principals
      BY <3>0 DEF Principals
    <3>2. CASE Principals = {} /\ w.seen = {}
      <4>1. \A s \in Principals' : s = w.staff
        BY <3>2, <1>7 DEF Principals
      <4>2. abandoned' = abandoned
        BY <3>2, <1>0 DEF StaffingInv, StaffingTypeOK
      <4>3. met' \/ abandoned'
        BY <3>2, <4>2, <1>2 DEF StaffingInv
      <4> QED
        BY <4>1, <4>3 DEF AtMostOnePrincipal
    <3>3. CASE \E i \in Principals : w.seen = {i}
      <4>1. PICK i \in Principals : w.seen = {i}
        BY <3>3
      <4>2. met' \/ \A s \in Principals' : s = w.staff
        <5> SUFFICES ASSUME ~met', NEW s \in Principals' PROVE s = w.staff
          OBVIOUS
        <5>1. \A a \in Principals : a = i
          BY <1>2, <4>1 DEF StaffingInv, AtMostOnePrincipal
        <5> QED
          BY <5>1, <4>1, <1>7 DEF Principals
      <4>3. met' \/ abandoned' \/ Principals' # {}
        <5>1. CASE status[w.staff] = "active"
          BY <5>1, <1>2, <1>7, <2>4
        <5>2. CASE status[w.staff] # "active"
          <6>1. status[w.staff] = "left"
            BY <5>2, <1>2 DEF StaffingTxnOK, StaffingTxnShape, Known, StaffingInv, StaffingTypeOK
          <6> QED
            BY <6>1, <4>1, <1>0
        <5> QED
          BY <5>1, <5>2
      <4> QED
        BY <4>2, <4>3 DEF AtMostOnePrincipal
    <3> QED
      BY <3>0, <3>1, <3>2, <3>3
  <2> QED
    BY <2>1, <2>2, <2>3, <2>4, <1>3
<1>9. OneHeadEach' /\ LeaversHoldNothing'
  BY <1>0, <1>2 DEF StaffingInv, OneHeadEach, Heads, LeaversHoldNothing, Holds
<1> QED
  BY <1>2, <1>5, <1>6, <1>8, <1>9 DEF StaffingInv

\* Whoever leaves is not the principal, and gives up what is held.
LEMMA StandDownKeepsStaffing ==
  ASSUME StaffingInv, NEW t \in Slots, StandDownCommits(t)
  PROVE  StaffingInv'
<1> DEFINE w == txn[t]
<1>0. Commits(t, "stand_down") /\ UNCHANGED <<role, userRole, abandoned>>
        /\ status' = [status EXCEPT ![w.staff] = "left"]
        /\ heads' = [heads EXCEPT ![w.staff] = [c \in Classes |-> 0]]
        /\ teaches' = [teaches EXCEPT ![w.staff] = {}]
        /\ login' = [login EXCEPT ![w.staff] = FALSE]
  BY DEF StandDownCommits
<1>1. \A s \in Staff : Known(s) => Known(s)'
  BY <1>0 DEF Known, StaffingInv, StaffingTypeOK
<1>2. /\ txn' \in [Slots -> Txn] /\ \A u \in Slots : StaffingTxnOK(txn[u])'
      /\ transactions' \in 0..MaxTransactions
      /\ raced' \subseteq Staff \union Classes /\ raced \subseteq raced'
      /\ met' \in BOOLEAN /\ (met => met')
      /\ w \in Txn /\ StaffingTxnOK(w) /\ w.op = "stand_down" /\ w.staff \in Staff
      /\ w.stale => w.staff \in raced' /\ (OfThePrincipal(w) => met')
  BY <1>0, <1>1, CommitsStaffing
<1>3. [c \in Classes |-> 0] \in [Classes -> 0..MaxRows]
  BY StaffingBounds
<1>4. StaffingTypeOK'
  BY <1>0, <1>2, <1>3 DEF StaffingInv, StaffingTypeOK
<1>5. AccountFollowsStaff'
  BY <1>0, <1>2 DEF StaffingInv, StaffingTypeOK, AccountFollowsStaff
<1>6. met' \/ role[w.staff] # "principal"
  <2>1. CASE w.stale
    BY <2>1, <1>2 DEF OfThePrincipal
  <2>2. CASE ~w.stale
    BY <2>2, <1>2 DEF StaffingTxnOK, StaffingReadHolds
  <2> QED
    BY <2>1, <2>2
<1>7. met' \/ Principals' = Principals
  BY <1>0, <1>2, <1>6 DEF StaffingInv, StaffingTypeOK, Principals
<1>8. AtMostOnePrincipal' /\ (met \/ abandoned \/ Principals # {})'
  BY <1>0, <1>2, <1>7 DEF StaffingInv, AtMostOnePrincipal
<1>9. OneHeadEach'
  <2>1. \A c \in Classes : Heads(c)' \subseteq Heads(c)
    BY <1>0 DEF Heads, StaffingInv, StaffingTypeOK
  <2> QED
    BY <2>1, <1>2 DEF StaffingInv, OneHeadEach
<1>10. LeaversHoldNothing'
  <2> SUFFICES ASSUME NEW s \in Staff \ raced', status'[s] = "left" PROVE ~Holds(s)'
    BY DEF LeaversHoldNothing
  <2>1. CASE s = w.staff
    <3>1. heads'[s] = [c \in Classes |-> 0] /\ teaches'[s] = {}
      BY <2>1, <1>0 DEF StaffingInv, StaffingTypeOK
    <3> QED
      BY <3>1 DEF Holds
  <2>2. CASE s # w.staff
    <3>1. status[s] = "left" /\ s \notin raced /\ heads'[s] = heads[s] /\ teaches'[s] = teaches[s]
      BY <2>2, <1>0, <1>2 DEF StaffingInv, StaffingTypeOK
    <3> QED
      BY <3>1 DEF StaffingInv, LeaversHoldNothing, Holds
  <2> QED
    BY <2>1, <2>2
<1> QED
  BY <1>2, <1>4, <1>5, <1>8, <1>9, <1>10 DEF StaffingInv

\* Whoever comes back holds nothing, and is the principal only of a school that has none.
LEMMA ReactivateKeepsStaffing ==
  ASSUME StaffingInv, NEW t \in Slots, ReactivateCommits(t)
  PROVE  StaffingInv'
<1> DEFINE w == txn[t]
<1>0. Commits(t, "reactivate") /\ UNCHANGED <<role, userRole, heads, teaches, abandoned>>
        /\ status' = [status EXCEPT ![w.staff] = "active"]
        /\ login' = [login EXCEPT ![w.staff] = TRUE]
  BY DEF ReactivateCommits
<1>1. \A s \in Staff : Known(s) => Known(s)'
  BY <1>0 DEF Known, StaffingInv, StaffingTypeOK
<1>2. /\ txn' \in [Slots -> Txn] /\ \A u \in Slots : StaffingTxnOK(txn[u])'
      /\ transactions' \in 0..MaxTransactions
      /\ raced' \subseteq Staff \union Classes /\ raced \subseteq raced'
      /\ met' \in BOOLEAN /\ (met => met')
      /\ w \in Txn /\ StaffingTxnOK(w) /\ w.op = "reactivate" /\ w.staff \in Staff
      /\ w.stale => w.staff \in raced' /\ (OfThePrincipal(w) => met')
  BY <1>0, <1>1, CommitsStaffing
<1>4. StaffingTypeOK'
  BY <1>0, <1>2 DEF StaffingInv, StaffingTypeOK
<1>5. AccountFollowsStaff'
  BY <1>0, <1>2 DEF StaffingInv, StaffingTypeOK, AccountFollowsStaff
<1>6. met' \/ role[w.staff] # "principal" \/ Principals = {}
  <2>1. CASE w.stale
    BY <2>1, <1>2 DEF OfThePrincipal
  <2>2. CASE ~w.stale
    BY <2>2, <1>2 DEF StaffingTxnOK, StaffingReadHolds
  <2> QED
    BY <2>1, <2>2
<1>7. Principals' = IF role[w.staff] = "principal" THEN Principals \union {w.staff} ELSE Principals
  BY <1>0, <1>2 DEF StaffingInv, StaffingTypeOK, Principals
<1>8. AtMostOnePrincipal' /\ (met \/ abandoned \/ Principals # {})'
  BY <1>0, <1>2, <1>6, <1>7 DEF StaffingInv, AtMostOnePrincipal
<1>9. OneHeadEach' /\ LeaversHoldNothing'
  BY <1>0, <1>2 DEF StaffingInv, StaffingTypeOK, OneHeadEach, Heads, LeaversHoldNothing, Holds
<1> QED
  BY <1>2, <1>4, <1>5, <1>8, <1>9 DEF StaffingInv

\* The class teachers that were found are replaced; if they were others, the class is raced.
LEMMA AssignHeadKeepsStaffing ==
  ASSUME StaffingInv, NEW t \in Slots, AssignHeadCommits(t)
  PROVE  StaffingInv'
<1> DEFINE w == txn[t]
<1>0. Commits(t, "head") /\ UNCHANGED <<status, role, login, userRole, teaches, abandoned>>
        /\ heads[w.staff][w.on] < MaxRows
        /\ heads' = [s \in Staff |->
                        IF s = w.staff THEN [heads[s] EXCEPT ![w.on] = @ + 1]
                        ELSE IF s \in w.seen THEN [heads[s] EXCEPT ![w.on] = 0]
                        ELSE heads[s]]
  BY DEF AssignHeadCommits
<1>1. \A s \in Staff : Known(s) => Known(s)'
  BY <1>0 DEF Known
<1>2. /\ txn' \in [Slots -> Txn] /\ \A u \in Slots : StaffingTxnOK(txn[u])'
      /\ transactions' \in 0..MaxTransactions
      /\ raced' \subseteq Staff \union Classes /\ raced \subseteq raced'
      /\ met' \in BOOLEAN /\ (met => met')
      /\ w \in Txn /\ StaffingTxnOK(w) /\ w.op = "head" /\ w.staff \in Staff
      /\ w.stale => w.staff \in raced' /\ (w.on \in Classes => w.on \in raced')
  BY <1>0, <1>1, CommitsStaffing
<1>3. w.on \in Classes
  BY <1>2 DEF StaffingTxnOK, StaffingTxnShape
<1>4. heads' \in [Staff -> [Classes -> 0..MaxRows]]
  <2> SUFFICES ASSUME NEW s \in Staff PROVE heads'[s] \in [Classes -> 0..MaxRows]
    BY <1>0
  <2>1. heads[s] \in [Classes -> 0..MaxRows]
    BY DEF StaffingInv, StaffingTypeOK
  <2>2. CASE s = w.staff
    <3>1. heads[s][w.on] \in Nat /\ heads[s][w.on] < MaxRows
      BY <2>1, <2>2, <1>0, <1>3, StaffingBounds
    <3>2. heads'[s] = [heads[s] EXCEPT ![w.on] = @ + 1]
      BY <2>2, <1>0
    <3>3. heads[s][w.on] + 1 \in 0..MaxRows
      BY <3>1, StaffingBounds
    <3> QED
      BY <2>1, <3>2, <3>3
  <2>3. CASE s # w.staff
    <3>1. 0 \in 0..MaxRows
      BY StaffingBounds
    <3>2. heads'[s] = IF s \in w.seen THEN [heads[s] EXCEPT ![w.on] = 0] ELSE heads[s]
      BY <2>3, <1>0
    <3> QED
      BY <2>1, <3>1, <3>2
  <2> QED
    BY <2>2, <2>3
<1>5. StaffingTypeOK'
  BY <1>0, <1>2, <1>4 DEF StaffingInv, StaffingTypeOK
<1>6. AccountFollowsStaff'
  BY <1>0 DEF StaffingInv, AccountFollowsStaff
<1>7. AtMostOnePrincipal' /\ (met \/ abandoned \/ Principals # {})'
  BY <1>0, <1>2 DEF StaffingInv, AtMostOnePrincipal, Principals
<1>8. OneHeadEach'
  <2> SUFFICES ASSUME NEW c \in Classes \ raced', NEW a \in Heads(c)', NEW b \in Heads(c)'
               PROVE  a = b
    BY DEF OneHeadEach
  <2>1. CASE c = w.on
    <3>1. ~w.stale
      BY <2>1, <1>2
    <3>2. w.seen = Heads(c) \ {w.staff}
      BY <3>1, <2>1, <1>2 DEF StaffingTxnOK, StaffingReadHolds
    <3>3. ASSUME NEW s \in Staff, s # w.staff PROVE s \notin Heads(c)'
      <4>1. CASE s \in w.seen
        <5>1. heads'[s][c] = 0
          BY <4>1, <3>3, <2>1, <1>0 DEF StaffingInv, StaffingTypeOK
        <5> QED
          BY <5>1 DEF Heads
      <4>2. CASE s \notin w.seen
        <5>1. s \notin Heads(c) /\ heads'[s] = heads[s]
          BY <4>2, <3>2, <3>3, <1>0
        <5> QED
          BY <5>1 DEF Heads
      <4> QED
        BY <4>1, <4>2
    <3> QED
      BY <3>3 DEF Heads
  <2>2. CASE c # w.on
    <3>1. \A s \in Staff : heads'[s][c] = heads[s][c]
      BY <2>2, <1>0 DEF StaffingInv, StaffingTypeOK
    <3> QED
      BY <3>1, <1>2 DEF Heads, StaffingInv, OneHeadEach
  <2> QED
    BY <2>1, <2>2
<1>9. LeaversHoldNothing'
  <2> SUFFICES ASSUME NEW s \in Staff \ raced', status'[s] = "left" PROVE ~Holds(s)'
    BY DEF LeaversHoldNothing
  <2>1. s # w.staff
    BY <1>0, <1>2 DEF StaffingTxnOK, StaffingReadHolds
  <2>2. ~Holds(s)
    BY <1>0, <1>2 DEF StaffingInv, LeaversHoldNothing
  <2>3. \A c \in Classes : heads'[s][c] = heads[s][c] \/ heads'[s][c] = 0
    BY <2>1, <1>0 DEF StaffingInv, StaffingTypeOK
  <2>4. teaches' = teaches
    BY <1>0
  <2> QED
    BY <2>2, <2>3, <2>4 DEF Holds
<1> QED
  BY <1>2, <1>5, <1>6, <1>7, <1>8, <1>9 DEF StaffingInv

\* A subject is given to somebody in service, or the person is raced.
LEMMA AssignPostKeepsStaffing ==
  ASSUME StaffingInv, NEW t \in Slots, AssignPostCommits(t)
  PROVE  StaffingInv'
<1> DEFINE w == txn[t]
<1>0. Commits(t, "teach") /\ UNCHANGED <<status, role, login, userRole, heads, abandoned>>
        /\ teaches' = [teaches EXCEPT ![w.staff] = @ \union {w.on}]
  BY DEF AssignPostCommits
<1>1. \A s \in Staff : Known(s) => Known(s)'
  BY <1>0 DEF Known
<1>2. /\ txn' \in [Slots -> Txn] /\ \A u \in Slots : StaffingTxnOK(txn[u])'
      /\ transactions' \in 0..MaxTransactions
      /\ raced' \subseteq Staff \union Classes /\ raced \subseteq raced'
      /\ met' \in BOOLEAN /\ (met => met')
      /\ w \in Txn /\ StaffingTxnOK(w) /\ w.op = "teach" /\ w.staff \in Staff
      /\ w.stale => w.staff \in raced'
  BY <1>0, <1>1, CommitsStaffing
<1>3. w.on \in Posts
  BY <1>2 DEF StaffingTxnOK, StaffingTxnShape
<1>4. StaffingTypeOK'
  BY <1>0, <1>2, <1>3 DEF StaffingInv, StaffingTypeOK
<1>5. AccountFollowsStaff' /\ AtMostOnePrincipal' /\ (met \/ abandoned \/ Principals # {})'
        /\ OneHeadEach'
  BY <1>0, <1>2 DEF StaffingInv, AccountFollowsStaff, AtMostOnePrincipal, Principals,
     OneHeadEach, Heads
<1>6. LeaversHoldNothing'
  <2> SUFFICES ASSUME NEW s \in Staff \ raced', status'[s] = "left" PROVE ~Holds(s)'
    BY DEF LeaversHoldNothing
  <2>1. s # w.staff
    BY <1>0, <1>2 DEF StaffingTxnOK, StaffingReadHolds
  <2>2. teaches'[s] = teaches[s] /\ ~Holds(s)
    BY <2>1, <1>0, <1>2 DEF StaffingInv, LeaversHoldNothing, StaffingTypeOK
  <2> QED
    BY <2>2, <1>0 DEF Holds
<1> QED
  BY <1>2, <1>4, <1>5, <1>6 DEF StaffingInv

LEMMA DropKeepsStaffing ==
  ASSUME StaffingInv, NEW s \in Staff, DropAssignment(s)
  PROVE  StaffingInv'
<1>0. /\ UNCHANGED <<status, role, login, userRole, transactions, raced, met, abandoned>>
      /\ txn' = [u \in Slots |-> IF txn[u].op = "none" THEN Closed
                                 ELSE [txn[u] EXCEPT !.stale = TRUE]]
  BY DEF DropAssignment, staffingHistory
<1>1. \A x \in Staff : Known(x) => Known(x)'
  BY <1>0 DEF Known
<1>2. txn' \in [Slots -> Txn] /\ \A u \in Slots : StaffingTxnOK(txn[u])'
  BY <1>0, <1>1, OvertakenStaffing
<1>3. /\ heads' \in [Staff -> [Classes -> 0..MaxRows]] /\ teaches' \in [Staff -> SUBSET Posts]
      /\ \A x \in Staff : teaches'[x] \subseteq teaches[x]
      /\ \A x \in Staff, c \in Classes : heads'[x][c] > 0 => heads[x][c] > 0
  <2>1. CASE \E c \in Classes : /\ heads[s][c] > 0
                                /\ heads' = [heads EXCEPT ![s][c] = @ - 1] /\ UNCHANGED teaches
    <3>1. PICK c \in Classes : /\ heads[s][c] > 0
                               /\ heads' = [heads EXCEPT ![s][c] = @ - 1] /\ UNCHANGED teaches
      BY <2>1
    <3>2. heads[s] \in [Classes -> 0..MaxRows] /\ heads[s][c] - 1 \in 0..MaxRows
      BY <3>1, StaffingBounds DEF StaffingInv, StaffingTypeOK
    <3>3. heads'[s] = [heads[s] EXCEPT ![c] = @ - 1] /\ \A x \in Staff \ {s} : heads'[x] = heads[x]
      BY <3>1 DEF StaffingInv, StaffingTypeOK
    <3>4. heads' \in [Staff -> [Classes -> 0..MaxRows]]
      BY <3>1, <3>2 DEF StaffingInv, StaffingTypeOK
    <3> QED
      BY <3>1, <3>2, <3>3, <3>4 DEF StaffingInv, StaffingTypeOK
  <2>2. CASE \E x \in teaches[s] : teaches' = [teaches EXCEPT ![s] = @ \ {x}] /\ UNCHANGED heads
    BY <2>2 DEF StaffingInv, StaffingTypeOK
  <2> QED
    BY <2>1, <2>2 DEF DropAssignment
<1>4. StaffingTypeOK'
  BY <1>0, <1>2, <1>3 DEF StaffingInv, StaffingTypeOK
<1>5. AccountFollowsStaff' /\ AtMostOnePrincipal' /\ (met \/ abandoned \/ Principals # {})'
  BY <1>0 DEF StaffingInv, AccountFollowsStaff, AtMostOnePrincipal, Principals
<1>6. OneHeadEach' /\ LeaversHoldNothing'
  <2>1. \A c \in Classes : Heads(c)' \subseteq Heads(c)
    BY <1>3 DEF Heads
  <2>2. \A x \in Staff : Holds(x)' => Holds(x)
    BY <1>3 DEF Holds
  <2> QED
    BY <2>1, <2>2, <1>0 DEF StaffingInv, OneHeadEach, LeaversHoldNothing
<1> QED
  BY <1>2, <1>4, <1>5, <1>6 DEF StaffingInv

-----------------------------------------------------------------------------
LEMMA StaffingInitInv == StaffingInit => StaffingInv
<1> SUFFICES ASSUME StaffingInit PROVE StaffingInv
  OBVIOUS
<1>1. StaffingTypeOK
  <2>1. [s \in Staff |-> [c \in Classes |-> 0]] \in [Staff -> [Classes -> 0..MaxRows]]
    BY StaffingBounds
  <2>2. 0 \in 0..MaxTransactions
    BY StaffingBounds
  <2> QED
    BY <2>1, <2>2, StaffingAssumption, ClosedStaffingTxn
       DEF StaffingInit, StaffingTypeOK, Roles
<1>2. AccountFollowsStaff
  BY DEF StaffingInit, AccountFollowsStaff
<1>3. \A t \in Slots : StaffingTxnOK(txn[t])
  BY ClosedStaffingTxn DEF StaffingInit
<1>4. Principals = {First}
  BY StaffingAssumption DEF StaffingInit, Principals
<1>5. OneHeadEach /\ LeaversHoldNothing
  BY DEF StaffingInit, OneHeadEach, Heads, LeaversHoldNothing
<1> QED
  BY <1>1, <1>2, <1>3, <1>4, <1>5 DEF StaffingInv, AtMostOnePrincipal

LEMMA StaffingStep == StaffingInv /\ [StaffingNext]_staffingVars => StaffingInv'
<1> SUFFICES ASSUME StaffingInv, [StaffingNext]_staffingVars PROVE StaffingInv'
  OBVIOUS
<1>1. ASSUME NEW t \in Slots, StaffingBegins(t) PROVE StaffingInv'
  BY <1>1, RegisterStaffOpens, UpdateStaffOpens, StandDownStaffOpens, ReactivateStaffOpens,
     AssignHeadOpens, AssignPostOpens DEF StaffingBegins
<1>2. ASSUME NEW t \in Slots, StaffingEnds(t) PROVE StaffingInv'
  BY <1>2, RegisterKeepsStaffing, UpdateKeepsStaffing, StandDownKeepsStaffing,
     ReactivateKeepsStaffing, AssignHeadKeepsStaffing, AssignPostKeepsStaffing,
     RollsBackKeepsStaffing DEF StaffingEnds
<1>3. CASE UNCHANGED staffingVars
  BY <1>3 DEF staffingVars, StaffingInv, StaffingTypeOK, AccountFollowsStaff, StaffingTxnOK,
     StaffingTxnShape, StaffingReadHolds, Known, Principals, Heads, AtMostOnePrincipal,
     OneHeadEach, LeaversHoldNothing, Holds
<1> QED
  BY <1>1, <1>2, <1>3, DropKeepsStaffing DEF StaffingNext

(***************************************************************************)
(* Every variable of Staffing keeps its type.                              *)
(***************************************************************************)
THEOREM StaffingTypeCorrect == StaffingSpec => []StaffingTypeOK
<1>1. StaffingInv => StaffingTypeOK
  BY DEF StaffingInv
<1> QED
  BY <1>1, StaffingInitInv, StaffingStep, PTL DEF StaffingSpec

LEMMA AtMostOne ==
  ASSUME NEW S, \A a, b \in S : a = b
  PROVE  Cardinality(S) <= 1
<1>1. CASE S = {}
  BY <1>1, FS_EmptySet
<1>2. CASE \E a \in S : TRUE
  <2>1. PICK a \in S : S = {a}
    BY <1>2
  <2> QED
    BY <2>1, FS_Singleton
<1> QED
  BY <1>1, <1>2

LEMMA StaffingInvSuffices == StaffingInv => OnePrincipal /\ PrincipalStays /\ DutiesAreInForce
<1> SUFFICES ASSUME StaffingInv PROVE OnePrincipal /\ PrincipalStays /\ DutiesAreInForce
  OBVIOUS
<1>1. OnePrincipal
  <2> SUFFICES ASSUME ~met PROVE OnePrincipal
    BY DEF OnePrincipal
  <2>1. {s \in Staff : login[s] /\ userRole[s] = "principal"} = Principals
    BY DEF StaffingInv, AccountFollowsStaff, Principals
  <2>2. \A a, b \in Principals : a = b
    BY DEF StaffingInv, AtMostOnePrincipal
  <2> QED
    BY <2>1, <2>2, AtMostOne DEF OnePrincipal
<1>2. PrincipalStays
  BY DEF StaffingInv, AccountFollowsStaff, Principals, PrincipalStays
<1>3. DutiesAreInForce
  <2>1. \A c \in Classes \ raced : Cardinality(Heads(c)) <= 1
    BY AtMostOne DEF StaffingInv, OneHeadEach
  <2>2. \A s \in Staff \ raced : status[s] = "left" => ~Holds(s) /\ ~login[s]
    BY DEF StaffingInv, LeaversHoldNothing, AccountFollowsStaff
  <2> QED
    BY <2>1, <2>2 DEF DutiesAreInForce
<1> QED
  BY <1>1, <1>2, <1>3

(***************************************************************************)
(* However many transactions meet, two accounts hold the principal's role  *)
(* only after one that gave it had been overtaken (registerStaff,          *)
(* updateStaff, reactivateStaff).                                          *)
(***************************************************************************)
THEOREM OnePrincipalOnly == StaffingSpec => []OnePrincipal
BY StaffingInvSuffices, StaffingInitInv, StaffingStep, PTL DEF StaffingSpec

(***************************************************************************)
(* The school keeps a principal who can sign in, unless the role was moved *)
(* to somebody who had left or two decisions about it met (updateStaff,    *)
(* standDownStaff).                                                        *)
(***************************************************************************)
THEOREM PrincipalRemains == StaffingSpec => []PrincipalStays
BY StaffingInvSuffices, StaffingInitInv, StaffingStep, PTL DEF StaffingSpec

(***************************************************************************)
(* A class has one class teacher and whoever has left neither holds        *)
(* anything nor can sign in, unless an assignment or a departure had been  *)
(* overtaken (assignBulk, standDownStaff).                                 *)
(***************************************************************************)
THEOREM DutiesInForce == StaffingSpec => []DutiesAreInForce
BY StaffingInvSuffices, StaffingInitInv, StaffingStep, PTL DEF StaffingSpec

(***************************************************************************)
(* What is left of the exceptions when no transaction commits that another *)
(* had overtaken, so that each may as well run alone (forSchool asks for   *)
(* no isolation level, and gets READ COMMITTED).                           *)
(***************************************************************************)
StaffingInTurn ==
    \/ \E t \in Slots : StaffingBegins(t) \/ (~txn[t].stale /\ StaffingEnds(t)) \/ RollsBack(t)
    \/ \E s \in Staff : DropAssignment(s)

LEMMA StaffingInTurnStep ==
  ASSUME StaffingInv, ~met, raced = {}, [StaffingInTurn]_staffingVars
  PROVE  StaffingInv' /\ ~met' /\ raced' = {}
<1>1. [StaffingNext]_staffingVars
  BY DEF StaffingInTurn, StaffingNext, StaffingEnds
<1>2. met' = met /\ raced' = raced
  <2>1. ASSUME NEW t \in Slots, StaffingBegins(t) PROVE met' = met /\ raced' = raced
    BY <2>1 DEF StaffingBegins, RegisterStaff, UpdateStaff, StandDownStaff, ReactivateStaff,
       AssignHead, AssignPost, Opens, staffingHistory
  <2>2. ASSUME NEW t \in Slots, ~txn[t].stale, StaffingEnds(t) PROVE met' = met /\ raced' = raced
    <3>1. ASSUME NEW op, Commits(t, op) PROVE met' = met /\ raced' = raced
      <4>1. txn[t].stale = FALSE
        BY <2>2 DEF StaffingInv, StaffingTypeOK, Txn
      <4>. QED
        BY <3>1, <4>1 DEF Commits, StaffingInv, StaffingTypeOK
    <3>. QED
      BY <2>2, <3>1 DEF StaffingEnds, RegisterCommits, UpdateCommits, StandDownCommits,
         ReactivateCommits, AssignHeadCommits, AssignPostCommits, RollsBack, staffingHistory
  <2>3. ASSUME NEW t \in Slots, RollsBack(t) PROVE met' = met /\ raced' = raced
    BY <2>3 DEF RollsBack, staffingHistory
  <2>4. ASSUME NEW s \in Staff, DropAssignment(s) PROVE met' = met /\ raced' = raced
    BY <2>4 DEF DropAssignment, staffingHistory
  <2>5. CASE UNCHANGED staffingVars
    BY <2>5 DEF staffingVars, staffingHistory
  <2>. QED
    BY <2>1, <2>2, <2>3, <2>4, <2>5 DEF StaffingInTurn
<1>. QED
  BY <1>1, <1>2, StaffingStep

(***************************************************************************)
(* Then there is one principal at most, and one who can sign in unless the *)
(* role went to somebody who had left, which updateStaff allows; a class   *)
(* has one class teacher and nobody who has left holds a duty.             *)
(***************************************************************************)
THEOREM StaffInTurnAreInOrder ==
    StaffingInit /\ [][StaffingInTurn]_staffingVars =>
        [](/\ Cardinality({s \in Staff : login[s] /\ userRole[s] = "principal"}) <= 1
           /\ abandoned \/ \E s \in Principals : login[s] /\ userRole[s] = "principal"
           /\ \A c \in Classes : Cardinality(Heads(c)) <= 1
           /\ \A s \in Staff : status[s] = "left" => ~Holds(s) /\ ~login[s])
<1> DEFINE Ordered == StaffingInv /\ ~met /\ raced = {}
<1>1. StaffingInit => Ordered
  BY StaffingInitInv DEF StaffingInit
<1>2. Ordered /\ [StaffingInTurn]_staffingVars => Ordered'
  BY StaffingInTurnStep
<1>3. Ordered =>
        /\ Cardinality({s \in Staff : login[s] /\ userRole[s] = "principal"}) <= 1
        /\ abandoned \/ \E s \in Principals : login[s] /\ userRole[s] = "principal"
        /\ \A c \in Classes : Cardinality(Heads(c)) <= 1
        /\ \A s \in Staff : status[s] = "left" => ~Holds(s) /\ ~login[s]
  BY StaffingInvSuffices DEF OnePrincipal, PrincipalStays, DutiesAreInForce
<1>. QED
  BY <1>1, <1>2, <1>3, PTL
=============================================================================
