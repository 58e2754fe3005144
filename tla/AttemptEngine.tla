---------------------------- MODULE AttemptEngine ----------------------------
(***************************************************************************)
(* The examination engine statement by statement: src/lib/exam/engine.ts   *)
(* with the invigilator's and the office's interventions on an attempt     *)
(* (invigilate.ts, sessions.ts) and the sweeper job.                       *)
(*                                                                         *)
(* A server instance keeps one database connection (db/index.ts), so a     *)
(* transaction occupies its instance and those of one instance follow each *)
(* other; warm instances run side by side.  The database is READ COMMITTED *)
(* and no handler here locks a row before it decides: each SELECT sees     *)
(* what is committed by then, and what a handler decided on may be gone    *)
(* when it writes.  A transaction therefore is one step per SELECT whose   *)
(* outcome it keeps, and one step in which its writes become visible.      *)
(***************************************************************************)
EXTENDS AttemptData

CONSTANTS
    Instances,      \* warm server instances
    MaxFaults       \* bound: transactions rolled back and sweeps lost

ASSUME FaultAssumption == MaxFaults \in Nat

VARIABLES
    now, attempt, answers, awarded, due, sitting, granted,   \* as AttemptContract
    carried,    \* history: the questions whose answers outlived the last reattempt
    txn,        \* per instance: the open transaction and what it has read
    faults

data == <<attempt, answers, awarded, due, sitting, granted, carried>>
vars == <<now, attempt, answers, awarded, due, sitting, granted, carried, txn, faults>>

\* The contract, over the committed rows: transactions that are open are not in it.
C == INSTANCE AttemptContract WITH
        now <- now, attempt <- attempt, answers <- answers, awarded <- awarded,
        due <- due, sitting <- sitting, granted <- granted

-----------------------------------------------------------------------------
(***************************************************************************)
(* Open transactions.                                                      *)
(***************************************************************************)
Idle == [op |-> "idle"]

SaveTxn == [op : {"save"}, s : Students, q : Questions, o : Options]
SubmitTxn == [op : {"submit"}, s : Students, mode : Modes]
MarkTxn == [op : {"mark"}, s : Students, mode : Modes,
            seen : [Questions -> Options \union {Null}]]
GrantTxn == [op : {"grant"}, s : Students, d : Extensions,
             expiresAt : Nat, extension : Nat]
OtherTxn == [op : {"start", "reattempt", "event"}, s : Students]
ReopenTxn == [op : {"reopen"}, s : Students, gone : SUBSET Questions]
PaperTxn == [op : {"extendPaper"}, d : Extensions]

Txn == {Idle} \union SaveTxn \union SubmitTxn \union MarkTxn \union GrantTxn
              \union OtherTxn \union ReopenTxn \union PaperTxn

Init ==
    /\ C!Init
    /\ carried = [s \in Students |-> {}]
    /\ txn = [i \in Instances |-> Idle]
    /\ faults = 0

Begin(i, t) ==
    /\ txn[i] = Idle
    /\ txn' = [txn EXCEPT ![i] = t]
    /\ UNCHANGED <<now, data, faults>>

Finish(i) ==
    /\ txn' = [txn EXCEPT ![i] = Idle]
    /\ UNCHANGED <<now, faults>>

\* The transaction of the sweeper that is open, if any: one job, one at a time.
AutoOpen == \E i \in Instances : txn[i].op \in {"submit", "mark"} /\ txn[i].mode = "auto"

-----------------------------------------------------------------------------
Tick ==
    /\ C!Tick
    /\ UNCHANGED <<carried, txn, faults>>

\* startAttempt up to the insert.
StartRead(i, s) ==
    /\ ~C!Exists(s)
    /\ now \in Window
    /\ Begin(i, [op |-> "start", s |-> s])

\* The insert: the unique index on (paper, student) refuses a second attempt.
StartWrite(i) ==
    /\ txn[i].op = "start"
    /\ LET s == txn[i].s IN
          IF C!Exists(s) THEN UNCHANGED data
          ELSE /\ \E order \in kSubset(Take, Questions) :
                     attempt' = [attempt EXCEPT ![s] = Opened(order, now)]
               /\ sitting' = [sitting EXCEPT ![s] = 1]
               /\ UNCHANGED <<answers, awarded, due, granted, carried>>
    /\ Finish(i)

\* Mutant: a check that is missing.
SaveReadOffPaper(i, s, q, o) ==
    /\ C!InProgress(s)
    /\ now <= Deadline(attempt[s])
    /\ Begin(i, [op |-> "save", s |-> s, q |-> q, o |-> o])

\* saveAnswer: status, deadline and paper are checked on the row as read.
SaveRead(i, s, q, o) ==
    /\ C!InProgress(s)
    /\ now <= Deadline(attempt[s])
    /\ q \in attempt[s].order
    /\ Begin(i, [op |-> "save", s |-> s, q |-> q, o |-> o])

\* The upsert: an existing row keeps its mark.
SaveWrite(i) ==
    /\ txn[i].op = "save"
    /\ answers' = [answers EXCEPT ![txn[i].s][txn[i].q] = txn[i].o]
    /\ UNCHANGED <<attempt, awarded, due, sitting, granted, carried>>
    /\ Finish(i)

\* Mutant: a closed attempt is submitted again.
SubmitReadAgain(i, s, mode) ==
    /\ mode # "auto"
    /\ C!Exists(s)
    /\ Begin(i, [op |-> "submit", s |-> s, mode |-> mode])

\* submitAttempt: read the row; a closed attempt is left as it is.
SubmitRead(i, s, mode) ==
    /\ mode # "auto"
    /\ C!InProgress(s)
    /\ Begin(i, [op |-> "submit", s |-> s, mode |-> mode])

\* submitAttempt for the next id on the sweeper's list.
SweepRead(i, s) ==
    /\ s \in due
    /\ ~AutoOpen
    /\ C!InProgress(s)
    /\ Begin(i, [op |-> "submit", s |-> s, mode |-> "auto"])

\* The answers are read by a statement of their own.
SubmitSelect(i) ==
    /\ txn[i].op = "submit"
    /\ txn' = [txn EXCEPT ![i] =
          [op |-> "mark", s |-> txn[i].s, mode |-> txn[i].mode, seen |-> answers[txn[i].s]]]
    /\ UNCHANGED <<now, data, faults>>

\* Marks for the answers read, on the rows still there; then the attempt's row,
\* found by its id alone.
SubmitWrite(i) ==
    /\ txn[i].op = "mark"
    /\ LET t == txn[i] IN
          /\ attempt' = [attempt EXCEPT ![t.s] = ClosedAs(@, t.mode, t.seen)]
          /\ awarded' = [awarded EXCEPT
                ![t.s] = Marked(attempt[t.s].order, t.seen, answers[t.s], @)]
          /\ due' = IF t.mode = "auto" THEN due \ {t.s} ELSE due
    /\ UNCHANGED <<answers, sitting, granted, carried>>
    /\ Finish(i)

\* sweepExpired: the list is one SELECT in a transaction of its own.
SweepList(i) ==
    /\ txn[i] = Idle
    /\ C!SweepList
    /\ UNCHANGED <<carried, txn, faults>>

\* ... and a listed attempt that was closed meanwhile is passed over.
SweepSkip(i, s) ==
    /\ txn[i] = Idle
    /\ ~AutoOpen
    /\ C!SweepSkip(s)
    /\ UNCHANGED <<carried, txn, faults>>

\* grantExtension: the new values are computed from the row as read ...
GrantRead(i, s, d) ==
    /\ C!InProgress(s)
    /\ attempt[s].extension + d <= MaxExtension
    /\ Begin(i, [op |-> "grant", s |-> s, d |-> d,
                 expiresAt |-> attempt[s].expiresAt,
                 extension |-> attempt[s].extension])

\* ... and written whatever the row has become.
GrantWrite(i) ==
    /\ txn[i].op = "grant"
    /\ LET t == txn[i] IN
          /\ attempt' = [attempt EXCEPT
                ![t.s].extension = t.extension + t.d,
                ![t.s].expiresAt = t.expiresAt + t.d]
          /\ granted' = [granted EXCEPT ![t.s] = @ + t.d]
    /\ UNCHANGED <<answers, awarded, due, sitting, carried>>
    /\ Finish(i)

\* extendPaper: one UPDATE, computed in the database.
ExtendPaperBegin(i, d) ==
    /\ C!RoomToExtend(d)
    /\ Begin(i, [op |-> "extendPaper", d |-> d])

ExtendPaperWrite(i) ==
    /\ txn[i].op = "extendPaper"
    /\ C!AddTime(txn[i].d)
    /\ carried' = carried
    /\ Finish(i)

\* grantReattempt: eligibility on the row as read ...
ReattemptRead(i, s) ==
    /\ C!IsClosed(s)
    /\ sitting[s] < MaxSittings
    /\ Begin(i, [op |-> "reattempt", s |-> s])

Stored(s) == {q \in Questions : answers[s][q] # Null}
Without(sheet, gone, nothing) ==
    [q \in Questions |-> IF q \in gone THEN nothing ELSE sheet[q]]

\* ... then the answers are deleted, those that are stored by then ...
ReattemptDelete(i) ==
    /\ txn[i].op = "reattempt"
    /\ txn' = [txn EXCEPT ![i] =
          [op |-> "reopen", s |-> txn[i].s, gone |-> Stored(txn[i].s)]]
    /\ UNCHANGED <<now, data, faults>>

\* Mutant: the answers of the sitting before are not deleted.
ReattemptWriteKeeping(i) ==
    /\ txn[i].op = "reopen"
    /\ LET s == txn[i].s IN
          /\ attempt' = [attempt EXCEPT ![s] = Reopened(@, now)]
          /\ sitting' = [sitting EXCEPT ![s] = @ + 1]
          /\ granted' = [granted EXCEPT ![s] = 0]
    /\ UNCHANGED <<answers, awarded, due, carried>>
    /\ Finish(i)

\* ... and the row is reset by its id.  Both become visible here; an answer that a
\* transaction stored in between outlives them, with the mark it may have been given.
ReattemptWrite(i) ==
    /\ txn[i].op = "reopen"
    /\ LET s == txn[i].s
           gone == txn[i].gone
       IN /\ attempt' = [attempt EXCEPT ![s] = Reopened(@, now)]
          /\ answers' = [answers EXCEPT ![s] = Without(@, gone, Null)]
          /\ awarded' = [awarded EXCEPT ![s] = Without(@, gone, "unmarked")]
          /\ carried' = [carried EXCEPT ![s] = Stored(s) \ gone]
          /\ sitting' = [sitting EXCEPT ![s] = @ + 1]
          /\ granted' = [granted EXCEPT ![s] = 0]
          /\ due' = due
    /\ Finish(i)

\* recordEvent: the count is incremented in the database.
EventRead(i, s) ==
    /\ C!InProgress(s)
    /\ attempt[s].incidents < MaxIncidents
    /\ Begin(i, [op |-> "event", s |-> s])

EventWrite(i) ==
    /\ txn[i].op = "event"
    /\ attempt' = [attempt EXCEPT ![txn[i].s].incidents = @ + 1]
    /\ UNCHANGED <<answers, awarded, due, sitting, granted, carried>>
    /\ Finish(i)

\* A statement fails, a deadlock victim is chosen or the instance dies: nothing
\* of the transaction remains.  A sweep does not outlive its transaction.
Rollback(i) ==
    /\ txn[i] # Idle
    /\ faults < MaxFaults
    /\ faults' = faults + 1
    /\ txn' = [txn EXCEPT ![i] = Idle]
    /\ due' = IF txn[i].op \in {"submit", "mark"} /\ txn[i].mode = "auto" THEN {} ELSE due
    /\ UNCHANGED <<now, attempt, answers, awarded, sitting, granted, carried>>

\* The job dies between two of its transactions.
SweepAbandon ==
    /\ ~AutoOpen
    /\ faults < MaxFaults
    /\ faults' = faults + 1
    /\ C!SweepAbandon
    /\ UNCHANGED <<carried, txn>>

\* The next statement of the transaction that is open on the instance.
Continue(i) ==
    \/ StartWrite(i)
    \/ SaveWrite(i)
    \/ SubmitSelect(i)
    \/ SubmitWrite(i)
    \/ GrantWrite(i)
    \/ ExtendPaperWrite(i)
    \/ ReattemptDelete(i)
    \/ ReattemptWrite(i)
    \/ EventWrite(i)

Request(i, s) ==
    \/ StartRead(i, s)
    \/ \E q \in Questions, o \in Options : SaveRead(i, s, q, o)
    \/ \E mode \in Modes : SubmitRead(i, s, mode)
    \/ \E d \in Extensions : GrantRead(i, s, d)
    \/ ReattemptRead(i, s)
    \/ EventRead(i, s)

Next ==
    \/ Tick
    \/ SweepAbandon
    \/ \E i \in Instances :
          \/ Continue(i)
          \/ Rollback(i)
          \/ SweepList(i)
          \/ \E d \in Extensions : ExtendPaperBegin(i, d)
          \/ \E s \in Students : Request(i, s) \/ SweepRead(i, s) \/ SweepSkip(i, s)

Spec == Init /\ [][Next]_vars

(***************************************************************************)
(* Fairness.  An open transaction goes on to its next statement.  The      *)
(* sweeper is scheduled every minute, and the queue of an instance's       *)
(* connection is first come first served, so its steps cannot be passed    *)
(* over for ever while they are possible again and again.                  *)
(***************************************************************************)
Fairness ==
    /\ \A i \in Instances : WF_vars(Continue(i))
    /\ SF_vars(\E i \in Instances : SweepList(i))
    /\ \A s \in Students :
          SF_vars(\E i \in Instances : SweepRead(i, s) \/ SweepSkip(i, s))

FairSpec == Spec /\ Fairness

(***************************************************************************)
(* The conditions under which every operation takes effect at one moment:  *)
(* transactions on the same attempt do not overlap -- a single instance is *)
(* enough for that, whatever it serves -- and the clock does not advance   *)
(* within a transaction that compares it.                                  *)
(***************************************************************************)
Touches(t) ==
    CASE t.op = "idle" -> {}
      [] t.op = "extendPaper" -> Students
      [] OTHER -> {t.s}

NoOverlap ==
    \A i, j \in Instances : i # j => Touches(txn[i]) \intersect Touches(txn[j]) = {}

ClockCompared == \E i \in Instances : txn[i].op \in {"start", "save"}

SerialNext ==
    /\ Next
    /\ NoOverlap'
    /\ ClockCompared => now' = now

SerialSpec == Init /\ [][SerialNext]_vars

-----------------------------------------------------------------------------
(***************************************************************************)
(* Properties.                                                             *)
(***************************************************************************)
TypeOK ==
    /\ C!TypeOK
    /\ carried \in [Students -> SUBSET Questions]
    /\ txn \in [Instances -> Txn]
    /\ faults \in 0 .. MaxFaults

\* The sweeper has one transaction at a time, for an attempt on its list.
SweepIsSequential ==
    \A i \in Instances :
        txn[i].op \in {"submit", "mark"} /\ txn[i].mode = "auto" =>
            /\ txn[i].s \in due
            /\ \A j \in Instances :
                  txn[j].op \in {"submit", "mark"} /\ txn[j].mode = "auto" => j = i

\* What a transaction decided on still holds while it is open.
ReadIsCurrent ==
    \A i \in Instances :
        LET t == txn[i] IN
        /\ t.op = "start" => ~C!Exists(t.s) /\ now \in Window
        /\ t.op = "save" =>
              /\ C!InProgress(t.s)
              /\ now <= Deadline(attempt[t.s])
              /\ t.q \in attempt[t.s].order
        /\ t.op \in {"submit", "mark"} => C!InProgress(t.s)
        /\ t.op = "mark" => t.seen = answers[t.s]
        /\ t.op = "grant" =>
              /\ C!InProgress(t.s)
              /\ t.extension = attempt[t.s].extension
              /\ t.expiresAt = attempt[t.s].expiresAt
              /\ t.extension + t.d <= MaxExtension
        /\ t.op = "extendPaper" => C!RoomToExtend(t.d)
        /\ t.op \in {"reattempt", "reopen"} => C!IsClosed(t.s) /\ sitting[t.s] < MaxSittings
        /\ t.op = "reopen" => t.gone = Stored(t.s)
        /\ t.op = "event" =>
              C!InProgress(t.s) /\ attempt[t.s].incidents < MaxIncidents

\* Under SerialSpec the engine is the contract: every statement of a handler
\* either changes nothing or is the whole operation (engine.ts, invigilate.ts,
\* sessions.ts).
ImplementsContract == C!Spec

\* Saved answers are marked as they stand, promised of submitAttempt and
\* forceSubmit.  With several instances it is not so: an answer checked before a
\* submission and written after it is stored and never marked.  In no configuration.
MarkedAsTheyStand == C!MarkedAsTheyStand

\* Whatever overlaps, an open attempt carries no score, and no mark but on an answer
\* that outlived the reattempt which opened it, stored behind the DELETE of
\* grantReattempt (sessions.ts:188) by a transaction that had read the attempt open.
OpenIsUnmarked ==
    \A s \in Students : C!InProgress(s) =>
        /\ attempt[s].score = Null
        /\ \A q \in Questions \ carried[s] : awarded[s][q] = "unmarked"

\* "Previous answers are cleared" (sessions.ts, of grantReattempt).  Not when a save
\* overlaps the reattempt: the answer is still there, and marked if a submission got
\* between the two statements as well (on a third instance, or behind two reattempts).
NothingIsCarried == \A s \in Students : carried[s] = {}

\* Whatever overlaps, answers are stored only for questions this candidate was
\* shown, and never for a student without an attempt (saveAnswer's last check).
AnswersAreOnPaper ==
    \A s \in Students, q \in Questions : answers[s][q] # Null =>
        C!Exists(s) /\ q \in attempt[s].order

\* Starting again resumes: once drawn, a candidate's questions stay the same and
\* the attempt is never replaced, however many starts, reattempts and closes
\* race (startAttempt and the unique index behind it).
QuestionsAreFixed ==
    [][\A s \in Students : C!Exists(s) =>
          attempt'[s] # Null /\ attempt'[s].order = attempt[s].order]_vars

\* Once an attempt is closed and no transaction that read it open is left, it is
\* settled: until a reattempt is granted no statement changes it, and no new
\* transaction gets as far as writing to it (the status checks of every handler).
Settled(s) ==
    /\ C!IsClosed(s)
    /\ \A i \in Instances :
          txn[i].op \in {"save", "submit", "mark", "grant", "event"} => txn[i].s # s

SettledIsFinal ==
    [][\A s \in Students : Settled(s) /\ sitting'[s] = sitting[s] =>
          /\ Settled(s)'
          /\ <<attempt'[s], answers'[s], awarded'[s]>>
                = <<attempt[s], answers[s], awarded[s]>>]_vars

\* An attempt does not stay open for ever after its time: the sweeper closes it,
\* also when the candidate's machine is gone, a sweep died half way or the list
\* was stale.
OverdueIsClosed ==
    \A s \in Students : C!Overdue(s) ~> ~C!Overdue(s)
=============================================================================
