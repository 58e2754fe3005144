--------------------------- MODULE AttemptContract ---------------------------
(***************************************************************************)
(* The examination engine as it is meant to be read: every operation of    *)
(* the candidate, the invigilator and the sweeper takes effect at one      *)
(* moment.  AttemptEngine shows where the statements really fall.          *)
(***************************************************************************)
EXTENDS AttemptData

VARIABLES
    now,        \* the server's clock
    attempt,    \* per student: the attempts row, or Null
    answers,    \* per student and question: the option saved, or Null
    awarded,    \* per student and question: awarded_marks of that row
    due,        \* the sweeper's list: ids read, not yet submitted
    sitting,    \* history: how often the student's attempt was (re)opened
    granted     \* history: extensions acknowledged to this sitting

vars == <<now, attempt, answers, awarded, due, sitting, granted>>

Exists(s) == attempt[s] # Null
InProgress(s) == Exists(s) /\ attempt[s].status = "in_progress"
IsClosed(s) == Exists(s) /\ attempt[s].status \in Closed
Overdue(s) == InProgress(s) /\ Deadline(attempt[s]) < now

Init ==
    /\ now = 0
    /\ attempt = [s \in Students |-> Null]
    /\ answers = [s \in Students |-> NoAnswers]
    /\ awarded = [s \in Students |-> Unmarked]
    /\ due = {}
    /\ sitting = [s \in Students |-> 0]
    /\ granted = [s \in Students |-> 0]

Tick ==
    /\ \E time \in Clock : time > now /\ now' = time
    /\ UNCHANGED <<attempt, answers, awarded, due, sitting, granted>>

\* startAttempt: a student without an attempt gets one; a resume changes no row.
Start(s) ==
    /\ ~Exists(s)
    /\ now \in Window
    /\ \E order \in kSubset(Take, Questions) :
          attempt' = [attempt EXCEPT ![s] = Opened(order, now)]
    /\ sitting' = [sitting EXCEPT ![s] = 1]
    /\ UNCHANGED <<now, answers, awarded, due, granted>>

\* Mutant: the status is not looked at.
SaveWhileTimeLeft(s, q, o) ==
    /\ Exists(s)
    /\ now <= Deadline(attempt[s])
    /\ q \in attempt[s].order
    /\ answers' = [answers EXCEPT ![s][q] = o]
    /\ UNCHANGED <<now, attempt, awarded, due, sitting, granted>>

\* saveAnswer: refused when closed, late, or not on this candidate's paper.
Save(s, q, o) ==
    /\ InProgress(s)
    /\ now <= Deadline(attempt[s])
    /\ q \in attempt[s].order
    /\ answers' = [answers EXCEPT ![s][q] = o]
    /\ UNCHANGED <<now, attempt, awarded, due, sitting, granted>>

\* Mark what is saved and close the attempt.
Close(s, mode) ==
    /\ InProgress(s)
    /\ attempt' = [attempt EXCEPT ![s] = ClosedAs(@, mode, answers[s])]
    /\ awarded' = [awarded EXCEPT
          ![s] = Marked(attempt[s].order, answers[s], answers[s], @)]
    /\ UNCHANGED <<now, answers, sitting, granted>>

\* submitAttempt, by the candidate or by an invigilator (forceSubmit).
Submit(s, mode) ==
    /\ mode # "auto"
    /\ Close(s, mode)
    /\ due' = due

\* Mutant: attempts that were given more time are never listed.
SweepListUnextended ==
    /\ due = {}
    /\ due' = {s \in Students : Overdue(s) /\ attempt[s].extension = 0}
    /\ UNCHANGED <<now, attempt, answers, awarded, sitting, granted>>

\* sweepExpired, its first transaction: list what is overdue.
SweepList ==
    /\ due = {}
    /\ due' = {s \in Students : Overdue(s)}
    /\ UNCHANGED <<now, attempt, answers, awarded, sitting, granted>>

\* sweepExpired, one turn of its loop: submit a listed attempt as it is now.
SweepSubmit(s) ==
    /\ s \in due
    /\ Close(s, "auto")
    /\ due' = due \ {s}

SweepSkip(s) ==
    /\ s \in due
    /\ ~InProgress(s)
    /\ due' = due \ {s}
    /\ UNCHANGED <<now, attempt, answers, awarded, sitting, granted>>

\* A turn of the loop throws, or the job dies: the rest of the list is lost.
SweepAbandon ==
    /\ due # {}
    /\ due' = {}
    /\ UNCHANGED <<now, attempt, answers, awarded, sitting, granted>>

\* grantExtension
Grant(s, d) ==
    /\ InProgress(s)
    /\ attempt[s].extension + d <= MaxExtension
    /\ attempt' = [attempt EXCEPT ![s] = Extended(@, d)]
    /\ granted' = [granted EXCEPT ![s] = @ + d]
    /\ UNCHANGED <<now, answers, awarded, due, sitting>>

\* extendPaper: every open attempt of the paper, in one statement.
AddTime(d) ==
    /\ attempt' = [s \in Students |->
          IF InProgress(s) THEN Extended(attempt[s], d) ELSE attempt[s]]
    /\ granted' = [s \in Students |->
          IF InProgress(s) THEN granted[s] + d ELSE granted[s]]
    /\ UNCHANGED <<answers, awarded, due, sitting>>

RoomToExtend(d) ==
    \A s \in Students : InProgress(s) => attempt[s].extension + d <= MaxExtension

ExtendPaper(d) ==
    /\ RoomToExtend(d)
    /\ AddTime(d)
    /\ UNCHANGED now

\* grantReattempt: a closed attempt is emptied and opened again.
Reattempt(s) ==
    /\ IsClosed(s)
    /\ sitting[s] < MaxSittings
    /\ attempt' = [attempt EXCEPT ![s] = Reopened(@, now)]
    /\ answers' = [answers EXCEPT ![s] = NoAnswers]
    /\ awarded' = [awarded EXCEPT ![s] = Unmarked]
    /\ sitting' = [sitting EXCEPT ![s] = @ + 1]
    /\ granted' = [granted EXCEPT ![s] = 0]
    /\ UNCHANGED <<now, due>>

\* recordEvent
RecordEvent(s) ==
    /\ InProgress(s)
    /\ attempt[s].incidents < MaxIncidents
    /\ attempt' = [attempt EXCEPT ![s].incidents = @ + 1]
    /\ UNCHANGED <<now, answers, awarded, due, sitting, granted>>

Next ==
    \/ Tick
    \/ SweepList
    \/ SweepAbandon
    \/ \E d \in Extensions : ExtendPaper(d)
    \/ \E s \in Students :
          \/ Start(s)
          \/ \E q \in Questions, o \in Options : Save(s, q, o)
          \/ \E mode \in Modes : Submit(s, mode)
          \/ SweepSubmit(s)
          \/ SweepSkip(s)
          \/ \E d \in Extensions : Grant(s, d)
          \/ Reattempt(s)
          \/ RecordEvent(s)

Spec == Init /\ [][Next]_vars

-----------------------------------------------------------------------------
(***************************************************************************)
(* Properties.                                                             *)
(***************************************************************************)
TypeOK ==
    /\ now \in Nat
    /\ attempt \in [Students -> Attempt \union {Null}]
    /\ answers \in [Students -> [Questions -> Options \union {Null}]]
    /\ awarded \in [Students -> [Questions -> Marks]]
    /\ due \subseteq Students
    /\ sitting \in [Students -> Nat]
    /\ granted \in [Students -> Nat]

\* Saved answers are marked as they stand (engine.ts, submitAttempt; the
\* comment of forceSubmit): once closed, the score and the mark of each answer
\* are those of the option that is stored, and an unanswered one has no mark.
MarkedAsTheyStand ==
    \A s \in Students : IsClosed(s) =>
        /\ attempt[s].score = Credited(attempt[s].order, answers[s])
        /\ awarded[s] = Marked(attempt[s].order, answers[s], answers[s], Unmarked)

\* An attempt that is open, for the first time or again, carries neither score
\* nor marks: nothing tells the candidate whether an answer was right.
OpenIsUnmarked ==
    \A s \in Students : InProgress(s) =>
        attempt[s].score = Null /\ awarded[s] = Unmarked

\* The extensions acknowledged to invigilators are those the row carries
\* (grantExtension is documented as additive), whoever granted them.
ExtensionsAddUp ==
    \A s \in Students : Exists(s) => attempt[s].extension = granted[s]

\* Submitting twice is a no-op and a closed paper accepts nothing: until a
\* reattempt is granted, neither its row nor its answers or marks change.
ClosedIsFinal ==
    [][\A s \in Students : IsClosed(s) /\ sitting'[s] = sitting[s] =>
          <<attempt'[s], answers'[s], awarded'[s]>>
              = <<attempt[s], answers[s], awarded[s]>>]_vars

\* A reattempt starts from nothing (grantReattempt): no answer, no extension and
\* no incident of the sitting before, on the same questions, and never out of
\* an attempt that is open.
ReattemptStartsClean ==
    [][\A s \in Students : Exists(s) /\ sitting'[s] # sitting[s] =>
          /\ IsClosed(s)
          /\ attempt'[s] = Opened(attempt[s].order, now)
          /\ answers'[s] = NoAnswers]_vars

\* Nobody loses time already given: within a sitting the deadline of an attempt
\* only moves forward.
DeadlineNeverEarlier ==
    [][\A s \in Students : Exists(s) /\ sitting'[s] = sitting[s] =>
          Deadline(attempt'[s]) >= Deadline(attempt[s])]_vars
=============================================================================
