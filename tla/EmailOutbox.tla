---------------------------- MODULE EmailOutbox ----------------------------
(***************************************************************************)
(* The email queue as it is drained: src/lib/comms/email.ts and            *)
(* src/lib/jobs/email-drain.ts.  A mail is a row of email_events, queued   *)
(* in the transaction of whatever caused it.  A drain is one transaction   *)
(* for a school: it reads the oldest queued rows, and for each bumps       *)
(* attempts, calls the provider and marks the row.  The provider is        *)
(* outside the transaction: what it has accepted stays accepted when the   *)
(* transaction rolls back.  The job drains one active school after the     *)
(* other.                                                                  *)
(*                                                                         *)
(* Mails are numbered in the order they are created in.  Addresses, bodies *)
(* and preferences (which mails are queued at all) are left out.           *)
(***************************************************************************)
EXTENDS Integers, FiniteSets

CONSTANTS
    Mails,          \* numbers, older mails first
    Schools,
    SchoolOf,       \* email_events.school_id of each mail
    Platform,       \* its null: mails of the platform's own accounts
    Drainers,       \* the scheduled job, and the principal's own drain
    Job,
    Limit,          \* rows read at once: 100
    None

ASSUME OutboxAssumption ==
    /\ Mails \subseteq Nat /\ IsFiniteSet(Mails)
    /\ Platform \notin Schools
    /\ SchoolOf \in [Mails -> Schools \union {Platform}]
    /\ IsFiniteSet(Drainers) /\ Job \in Drainers
    /\ Limit \in Nat \ {0}
    /\ None \notin Mails \union Schools \union {Platform}

(***************************************************************************)
(* Bounds of the model: faults, drains from the portal, and how often a    *)
(* school is suspended.                                                    *)
(***************************************************************************)
CONSTANTS MaxFaults, MaxClicks, MaxSuspensions

ASSUME BoundAssumption == {MaxFaults, MaxClicks, MaxSuspensions} \subseteq Nat

VARIABLES
    status,         \* email_events.status as committed
    attempts,       \* email_events.attempts as committed
    handed,         \* how often the provider has accepted each mail
    active,         \* schools.status = 'active'
    list,           \* the schools the job's run has still to drain
    txn,            \* the open transaction of each drainer
    faults, clicks, suspensions

vars == <<status, attempts, handed, active, list, txn, faults, clicks, suspensions>>

Statuses == {"none", "queued", "sent", "failed"}

\* todo: rows read and not handled yet; now: the row claimed; read: attempts as they
\* were read; sent and failed: rows marked, which nobody sees before the commit.
Txn == [school : Schools \union {None}, todo : SUBSET Mails, now : Mails \union {None},
        read : [Mails -> Nat], sent : SUBSET Mails, failed : SUBSET Mails]

NoTxn == [school |-> None, todo |-> {}, now |-> None, read |-> [m \in Mails |-> 0],
          sent |-> {}, failed |-> {}]

TypeOK ==
    /\ status \in [Mails -> Statuses]
    /\ attempts \in [Mails -> Nat]
    /\ handed \in [Mails -> Nat]
    /\ active \subseteq Schools
    /\ list \subseteq Schools
    /\ txn \in [Drainers -> Txn]
    /\ faults \in 0..MaxFaults
    /\ clicks \in 0..MaxClicks
    /\ suspensions \in 0..MaxSuspensions

Init ==
    /\ status = [m \in Mails |-> "none"]
    /\ attempts = [m \in Mails |-> 0]
    /\ handed = [m \in Mails |-> 0]
    /\ active = Schools
    /\ list = {}
    /\ txn = [d \in Drainers |-> NoTxn]
    /\ faults = 0
    /\ clicks = 0
    /\ suspensions = 0

-----------------------------------------------------------------------------
(***************************************************************************)
(* What happens around the queue.                                          *)
(***************************************************************************)

\* In the caller's transaction: a notice, or the link of a password reset.
QueueEmail(m) ==
    /\ status[m] = "none"
    /\ status' = [status EXCEPT ![m] = "queued"]
    /\ UNCHANGED <<attempts, handed, active, list, txn, faults, clicks, suspensions>>

Suspend(s) ==
    /\ suspensions < MaxSuspensions
    /\ s \in active
    /\ active' = active \ {s}
    /\ suspensions' = suspensions + 1
    /\ UNCHANGED <<status, attempts, handed, list, txn, faults, clicks>>

Reactivate(s) ==
    /\ s \notin active
    /\ active' = active \union {s}
    /\ UNCHANGED <<status, attempts, handed, list, txn, faults, clicks, suspensions>>

-----------------------------------------------------------------------------
(***************************************************************************)
(* A drain of one school.                                                  *)
(***************************************************************************)
Idle(d) == txn[d].school = None

QueuedOrFailedFor(s) == {m \in Mails : SchoolOf[m] = s /\ status[m] \in {"queued", "failed"}}

QueuedFor(s) == {m \in Mails : SchoolOf[m] = s /\ status[m] = "queued"}

Oldest(S) == {m \in S : Cardinality({n \in S : n < m}) < Limit}

OpenTxn(d, s) ==
    /\ Idle(d)
    /\ txn' = [txn EXCEPT ![d] = [NoTxn EXCEPT !.school = s, !.todo = Oldest(QueuedFor(s)),
                                               !.read = attempts]]

\* The rows an open transaction has updated are locked until it ends.
Touched(d) == ({txn[d].now} \ {None}) \union txn[d].sent \union txn[d].failed

Claim(d) ==
    /\ txn[d].now = None
    /\ \E m \in txn[d].todo :
        /\ \A n \in txn[d].todo : m <= n
        /\ \A e \in Drainers \ {d} : m \notin Touched(e)
        /\ txn' = [txn EXCEPT ![d].now = m, ![d].todo = @ \ {m}]
    /\ UNCHANGED <<status, attempts, handed, active, list, faults, clicks, suspensions>>

\* The provider accepts and says so: the row is marked sent.
Deliver(d) ==
    /\ txn[d].now # None
    /\ handed' = [handed EXCEPT ![txn[d].now] = @ + 1]
    /\ txn' = [txn EXCEPT ![d].sent = @ \union {txn[d].now}, ![d].now = None]
    /\ UNCHANGED <<status, attempts, active, list, faults, clicks, suspensions>>

RefuseSent(d, accepted) ==
    /\ txn[d].now # None
    /\ handed' = [handed EXCEPT ![txn[d].now] = IF accepted THEN @ + 1 ELSE @]
    /\ txn' = [txn EXCEPT ![d].sent = @ \union {txn[d].now}, ![d].now = None]
    /\ UNCHANGED <<status, attempts, active, list, faults, clicks, suspensions>>

RefuseUnmarked(d, accepted) ==
    /\ txn[d].now # None
    /\ handed' = [handed EXCEPT ![txn[d].now] = IF accepted THEN @ + 1 ELSE @]
    /\ txn' = [txn EXCEPT ![d].now = None]
    /\ UNCHANGED <<status, attempts, active, list, faults, clicks, suspensions>>

\* The provider refuses, or its answer is lost: the row is marked failed.
Refuse(d, accepted) ==
    /\ txn[d].now # None
    /\ handed' = [handed EXCEPT ![txn[d].now] = IF accepted THEN @ + 1 ELSE @]
    /\ txn' = [txn EXCEPT ![d].failed = @ \union {txn[d].now}, ![d].now = None]
    /\ UNCHANGED <<status, attempts, active, list, faults, clicks, suspensions>>

Marked(d) == txn[d].sent \union txn[d].failed

Commit(d) ==
    /\ ~Idle(d) /\ txn[d].todo = {} /\ txn[d].now = None
    /\ status' = [m \in Mails |-> IF m \in txn[d].sent THEN "sent"
                                  ELSE IF m \in txn[d].failed THEN "failed" ELSE status[m]]
    /\ attempts' = [m \in Mails |-> IF m \in Marked(d) THEN txn[d].read[m] + 1
                                    ELSE attempts[m]]
    /\ txn' = [txn EXCEPT ![d] = NoTxn]
    /\ UNCHANGED <<handed, active, list, faults, clicks, suspensions>>

-----------------------------------------------------------------------------
(***************************************************************************)
(* The job and the portal, and what may go wrong.                          *)
(***************************************************************************)

\* drainAllSchoolsWith lists the active schools; runs do not overlap.
JobStarts ==
    /\ list = {} /\ Idle(Job)
    /\ list' = active
    /\ UNCHANGED <<status, attempts, handed, active, txn, faults, clicks, suspensions>>

JobTakes(s) ==
    /\ s \in list
    /\ OpenTxn(Job, s)
    /\ list' = list \ {s}
    /\ UNCHANGED <<status, attempts, handed, active, faults, clicks, suspensions>>

\* drainSchoolEmails, by a principal.
PortalDrains(d, s) ==
    /\ d # Job
    /\ clicks < MaxClicks
    /\ s \in active
    /\ OpenTxn(d, s)
    /\ clicks' = clicks + 1
    /\ UNCHANGED <<status, attempts, handed, active, list, faults, suspensions>>

\* A statement fails: this school's drain rolls back, the job goes on with the next.
RollBack(d) ==
    /\ ~Idle(d)
    /\ faults < MaxFaults
    /\ faults' = faults + 1
    /\ txn' = [txn EXCEPT ![d] = NoTxn]
    /\ UNCHANGED <<status, attempts, handed, active, list, clicks, suspensions>>

\* The instance dies, or the function reaches its time limit.
JobDies ==
    /\ list # {} \/ ~Idle(Job)
    /\ faults < MaxFaults
    /\ faults' = faults + 1
    /\ txn' = [txn EXCEPT ![Job] = NoTxn]
    /\ list' = {}
    /\ UNCHANGED <<status, attempts, handed, active, clicks, suspensions>>

Continue(d) ==
    \/ Claim(d)
    \/ Deliver(d)
    \/ \E accepted \in BOOLEAN : Refuse(d, accepted)
    \/ Commit(d)

JobStep == JobStarts \/ (\E s \in Schools : JobTakes(s)) \/ Continue(Job)

Next ==
    \/ \E m \in Mails : QueueEmail(m)
    \/ \E s \in Schools : Suspend(s) \/ Reactivate(s)
    \/ \E d \in Drainers : Continue(d) \/ RollBack(d)
    \/ JobStarts
    \/ \E s \in Schools : JobTakes(s)
    \/ \E d \in Drainers, s \in Schools : PortalDrains(d, s)
    \/ JobDies

Spec == Init /\ [][Next]_vars

(***************************************************************************)
(* The job is run every five minutes, also when nothing is queued, and the *)
(* provider answers or the call fails.  Nothing else has to happen.        *)
(***************************************************************************)
FairSpec ==
    /\ Spec
    /\ WF_vars(JobStep)
    /\ \A d \in Drainers : WF_vars(Continue(d))

-----------------------------------------------------------------------------
(***************************************************************************)
(* Properties.                                                             *)
(***************************************************************************)

\* What the queue promises, read off the committed rows and the provider.
Contract == INSTANCE EmailContract WITH
    status <- status,
    handed <- {m \in Mails : handed[m] > 0}

\* The drain keeps the queue's promise: a row that was queued is never taken back, and is
\* marked sent only when the provider has it, whatever rolls back, dies or overlaps.
ImplementsContract == Contract!Spec

\* A mail is handed over once, and once more for every transaction that ended between the
\* hand-over and its commit or ran beside another: nothing else repeats it.
RepeatsHaveACause == \A m \in Mails : handed[m] <= 1 + faults + clicks

\* However often the job or a transaction dies, and whatever mails fail, a queued mail is
\* settled, unless its school stops being served (drainAllSchoolsWith).
QueuedIsSettled ==
    \A m \in Mails : SchoolOf[m] \in Schools =>
        (status[m] = "queued" ~> (status[m] \in {"sent", "failed"} \/ SchoolOf[m] \notin active))

-----------------------------------------------------------------------------
(***************************************************************************)
(* What the documentation says and the code does not do.                   *)
(***************************************************************************)

\* "The same Inngest drain that ships notifications delivers recovery mail"
\* (src/lib/auth/recovery.ts): also the mail of a platform account.
EveryMailIsSettled ==
    \A m \in Mails : status[m] = "queued" ~>
        (status[m] \in {"sent", "failed"} \/ SchoolOf[m] \in Schools \ active)

\* "Rows are claimed by bumping attempts BEFORE the send, so a crashed drain does not
\* resend indefinitely" (src/lib/comms/email.ts): a hand-over leaves its mark in attempts.
HandOversAreCounted ==
    (\A d \in Drainers : Idle(d)) => \A m \in Mails : handed[m] <= attempts[m]
=============================================================================
