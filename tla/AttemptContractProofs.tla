------------------------ MODULE AttemptContractProofs ------------------------
(***************************************************************************)
(* What AttemptContract promises for every paper, any number of students   *)
(* and every bound.                                                        *)
(***************************************************************************)
EXTENDS AttemptContract, TLAPS

(***************************************************************************)
(* The rows of AttemptData: what opening, extending, marking return.       *)
(***************************************************************************)
\* A stored answer sheet.
Sheet == [Questions -> Options \union {Null}]

\* kSubset draws subsets of the pool.
LEMMA DrawnFromPool ==
  ASSUME NEW order \in kSubset(Take, Questions)
  PROVE  order \in SUBSET Questions
BY DEF kSubset

\* A row that is in the table is not null.
LEMMA RowNotNull ==
  ASSUME NEW a \in Attempt
  PROVE  a # Null
BY NullAssumption

\* Opening an attempt, for the first time or again, makes an open row.
LEMMA OpenedRow ==
  ASSUME NEW order \in SUBSET Questions, NEW time \in Nat
  PROVE  /\ Opened(order, time) \in Attempt
         /\ Opened(order, time).status = "in_progress"
         /\ Opened(order, time).order = order
         /\ Opened(order, time).score = Null
         /\ Opened(order, time).extension = 0
         /\ Opened(order, time).incidents = 0
BY TimeAssumption DEF Opened, Attempt, Status

\* Extending changes the two time columns, each by the extension.
LEMMA ExtendedRow ==
  ASSUME NEW a \in Attempt, NEW d \in Extensions
  PROVE  /\ Extended(a, d) \in Attempt
         /\ Extended(a, d).status = a.status
         /\ Extended(a, d).order = a.order
         /\ Extended(a, d).score = a.score
         /\ Extended(a, d).extension = a.extension + d
         /\ Deadline(Extended(a, d)) >= Deadline(a)
<1>1. d \in Nat /\ a.expiresAt \in Nat /\ a.extension \in Nat
  BY TimeAssumption DEF Attempt
<1>2. /\ a.expiresAt + d \in Nat
      /\ a.extension + d \in Nat
  BY <1>1
<1>3. /\ Extended(a, d).extension = a.extension + d
      /\ Extended(a, d).expiresAt = a.expiresAt + d
      /\ Extended(a, d).status = a.status
      /\ Extended(a, d).order = a.order
      /\ Extended(a, d).score = a.score
  BY DEF Extended, Attempt
<1>4. Extended(a, d) \in Attempt
  BY <1>2 DEF Extended, Attempt
<1> QED
  BY <1>1, <1>3, <1>4 DEF Deadline

\* Closing makes a closed row with a score, on the same questions and times.
LEMMA ClosedRow ==
  ASSUME NEW a \in Attempt, NEW mode \in Modes, NEW seen \in Sheet
  PROVE  /\ ClosedAs(a, mode, seen) \in Attempt
         /\ ClosedAs(a, mode, seen).status \in Closed
         /\ ClosedAs(a, mode, seen).order = a.order
         /\ ClosedAs(a, mode, seen).score = Credited(a.order, seen)
         /\ ClosedAs(a, mode, seen).extension = a.extension
         /\ Deadline(ClosedAs(a, mode, seen)) = Deadline(a)
<1>1. Credited(a.order, seen) \in SUBSET Questions
  BY PaperAssumption DEF Credited, Markable
<1> QED
  BY <1>1 DEF ClosedAs, Attempt, Status, Closed, Deadline

\* Counting an incident changes nothing else.
LEMMA CountedRow ==
  ASSUME NEW a \in Attempt
  PROVE  LET b == [a EXCEPT !.incidents = a.incidents + 1] IN
         /\ b \in Attempt
         /\ b.status = a.status
         /\ b.order = a.order
         /\ b.score = a.score
         /\ b.extension = a.extension
         /\ Deadline(b) = Deadline(a)
<1>1. a.incidents + 1 \in Nat
  BY DEF Attempt
<1> QED
  BY <1>1 DEF Attempt, Deadline

\* No row is both open and closed.
LEMMA OpenNotClosed == "in_progress" \notin Closed
BY DEF Closed

\* Marking yields a mark for every question.
LEMMA MarkedSheet ==
  ASSUME NEW order \in SUBSET Questions, NEW seen \in Sheet, NEW rows \in Sheet,
         NEW old \in [Questions -> Marks]
  PROVE  Marked(order, seen, rows, old) \in [Questions -> Marks]
BY DEF Marked, Marks

\* Empty sheets are well formed.
LEMMA EmptySheets ==
  /\ NoAnswers \in Sheet
  /\ Unmarked \in [Questions -> Marks]
BY DEF NoAnswers, Unmarked, Sheet, Marks

LEMMA InitTyped == Init => TypeOK
BY EmptySheets DEF Init, TypeOK, Sheet

LEMMA TypeStep == TypeOK /\ [Next]_vars => TypeOK'
<1> SUFFICES ASSUME TypeOK, [Next]_vars PROVE TypeOK'
  OBVIOUS
<1> USE DEF TypeOK
<1>1. CASE Tick
  BY <1>1, BoundAssumption DEF Tick
<1>2. CASE SweepList
  BY <1>2 DEF SweepList
<1>3. CASE SweepAbandon
  BY <1>3 DEF SweepAbandon
<1>4. ASSUME NEW d \in Extensions, ExtendPaper(d) PROVE TypeOK'
  <2>1. d \in Nat
    BY TimeAssumption
  <2>2. \A s \in Students : InProgress(s) => Extended(attempt[s], d) \in Attempt
    BY ExtendedRow DEF InProgress, Exists
  <2>3. attempt' \in [Students -> Attempt \union {Null}]
    BY <1>4, <2>2 DEF ExtendPaper, AddTime
  <2>4. granted' \in [Students -> Nat]
    BY <1>4, <2>1 DEF ExtendPaper, AddTime
  <2> QED
    BY <1>4, <2>3, <2>4 DEF ExtendPaper, AddTime
<1>5. ASSUME NEW s \in Students, Start(s) PROVE TypeOK'
  <2>1. PICK order \in kSubset(Take, Questions) :
           attempt' = [attempt EXCEPT ![s] = Opened(order, now)]
    BY <1>5 DEF Start
  <2>2. Opened(order, now) \in Attempt
    BY DrawnFromPool, OpenedRow
  <2> QED
    BY <1>5, <2>1, <2>2 DEF Start
<1>6. ASSUME NEW s \in Students, NEW q \in Questions, NEW o \in Options, Save(s, q, o)
      PROVE  TypeOK'
  BY <1>6 DEF Save
<1>7. ASSUME NEW s \in Students, NEW mode \in Modes, Close(s, mode)
      PROVE  /\ attempt' \in [Students -> Attempt \union {Null}]
             /\ awarded' \in [Students -> [Questions -> Marks]]
  <2>1. attempt[s] \in Attempt /\ attempt[s].order \in SUBSET Questions
    BY <1>7 DEF Close, InProgress, Exists, Attempt
  <2>2. answers[s] \in Sheet /\ awarded[s] \in [Questions -> Marks]
    BY DEF Sheet
  <2>3. ClosedAs(attempt[s], mode, answers[s]) \in Attempt
    BY <2>1, <2>2, ClosedRow
  <2>4. Marked(attempt[s].order, answers[s], answers[s], awarded[s])
           \in [Questions -> Marks]
    BY <2>1, <2>2, MarkedSheet
  <2> QED
    BY <1>7, <2>3, <2>4 DEF Close
<1>8. ASSUME NEW s \in Students, NEW mode \in Modes, Submit(s, mode) PROVE TypeOK'
  BY <1>7, <1>8 DEF Submit, Close
<1>9. ASSUME NEW s \in Students, SweepSubmit(s) PROVE TypeOK'
  <2>1. "auto" \in Modes
    BY DEF Modes
  <2> QED
    BY <1>7, <1>9, <2>1 DEF SweepSubmit, Close
<1>10. ASSUME NEW s \in Students, SweepSkip(s) PROVE TypeOK'
  BY <1>10 DEF SweepSkip
<1>11. ASSUME NEW s \in Students, NEW d \in Extensions, Grant(s, d) PROVE TypeOK'
  <2>1. attempt[s] \in Attempt
    BY <1>11 DEF Grant, InProgress, Exists
  <2>2. Extended(attempt[s], d) \in Attempt /\ d \in Nat
    BY <2>1, ExtendedRow, TimeAssumption
  <2> QED
    BY <1>11, <2>2 DEF Grant
<1>12. ASSUME NEW s \in Students, Reattempt(s) PROVE TypeOK'
  <2>1. attempt[s].order \in SUBSET Questions
    BY <1>12 DEF Reattempt, IsClosed, Exists, Attempt
  <2>2. Reopened(attempt[s], now) \in Attempt
    BY <2>1, OpenedRow DEF Reopened
  <2> QED
    BY <1>12, <2>2, EmptySheets DEF Reattempt, Sheet
<1>13. ASSUME NEW s \in Students, RecordEvent(s) PROVE TypeOK'
  <2>1. attempt[s] \in Attempt
    BY <1>13 DEF RecordEvent, InProgress, Exists
  <2>2. [attempt[s] EXCEPT !.incidents = attempt[s].incidents + 1] \in Attempt
    BY <2>1, CountedRow
  <2> QED
    BY <1>13, <2>2 DEF RecordEvent
<1>14. CASE UNCHANGED vars
  BY <1>14 DEF vars
<1> QED
  BY <1>1, <1>2, <1>3, <1>4, <1>5, <1>6, <1>8, <1>9, <1>10, <1>11, <1>12, <1>13,
     <1>14 DEF Next

\* The variables stay in their types.
THEOREM TypeCorrect == Spec => []TypeOK
BY InitTyped, TypeStep, PTL DEF Spec

-----------------------------------------------------------------------------
(***************************************************************************)
(* The inductive invariant, one student at a time.  Marking an attempt     *)
(* keeps the marks it does not write, so that the marks of a closed one    *)
(* are the right ones needs that an open one has none; that needs, in      *)
(* turn, that nothing is stored before an attempt exists.                  *)
(***************************************************************************)
Good(s) ==
    /\ ~Exists(s) => answers[s] = NoAnswers /\ awarded[s] = Unmarked /\ granted[s] = 0
    /\ InProgress(s) => attempt[s].score = Null /\ awarded[s] = Unmarked
    /\ IsClosed(s) =>
          /\ attempt[s].score = Credited(attempt[s].order, answers[s])
          /\ awarded[s] = Marked(attempt[s].order, answers[s], answers[s], Unmarked)
    /\ Exists(s) => attempt[s].extension = granted[s]

Inv == TypeOK /\ \A s \in Students : Good(s)

\* What a step leaves alone stays good.
LEMMA Frame ==
  ASSUME NEW s \in Students, Good(s),
         attempt'[s] = attempt[s], answers'[s] = answers[s],
         awarded'[s] = awarded[s], granted'[s] = granted[s]
  PROVE  Good(s)'
BY DEF Good, Exists, InProgress, IsClosed

\* A row extended by d, with d acknowledged, is good if it was.
LEMMA ExtendedGood ==
  ASSUME TypeOK, NEW s \in Students, NEW d \in Extensions, Good(s), InProgress(s),
         attempt'[s] = Extended(attempt[s], d), granted'[s] = granted[s] + d,
         answers'[s] = answers[s], awarded'[s] = awarded[s]
  PROVE  Good(s)'
<1>1. attempt[s] \in Attempt /\ Exists(s)
  BY DEF TypeOK, InProgress, Exists
<1>2. attempt'[s] # Null
  BY <1>1, ExtendedRow, RowNotNull
<1> QED
  BY <1>1, <1>2, ExtendedRow, OpenNotClosed DEF Good, Exists, InProgress, IsClosed

\* Closing marks the saved answers as they stand.
LEMMA CloseGood ==
  ASSUME TypeOK, NEW s \in Students, NEW mode \in Modes, Good(s), Close(s, mode)
  PROVE  Good(s)'
<1>1. attempt[s] \in Attempt /\ Exists(s)
  BY DEF TypeOK, Close, InProgress, Exists
<1>2. answers[s] \in Sheet
  BY DEF TypeOK, Sheet
<1>3. attempt'[s] = ClosedAs(attempt[s], mode, answers[s])
  BY DEF Close, TypeOK
<1>4. awarded'[s] = Marked(attempt[s].order, answers[s], answers[s], Unmarked)
  BY DEF Close, TypeOK, Good
<1>5. answers'[s] = answers[s] /\ granted'[s] = granted[s]
  BY DEF Close
<1>6. attempt'[s] \in Attempt /\ attempt'[s] # Null
  BY <1>1, <1>2, <1>3, ClosedRow, RowNotNull
<1> QED
  BY <1>1, <1>2, <1>3, <1>4, <1>5, <1>6, ClosedRow, OpenNotClosed
  DEF Good, Exists, InProgress, IsClosed

LEMMA InvInductive == Inv /\ [Next]_vars => Inv'
<1> SUFFICES ASSUME Inv, [Next]_vars PROVE Inv'
  OBVIOUS
<1>1. TypeOK'
  BY TypeStep DEF Inv
<1>2. ASSUME NEW t \in Students PROVE Good(t)'
  <2>0. TypeOK /\ Good(t)
    BY DEF Inv
  <2>1. CASE Tick
    BY <2>0, <2>1, Frame DEF Tick
  <2>2. CASE SweepList
    BY <2>0, <2>2, Frame DEF SweepList
  <2>3. CASE SweepAbandon
    BY <2>0, <2>3, Frame DEF SweepAbandon
  <2>4. ASSUME NEW d \in Extensions, ExtendPaper(d) PROVE Good(t)'
    <3>1. CASE InProgress(t)
      BY <2>0, <2>4, <3>1, ExtendedGood DEF ExtendPaper, AddTime
    <3>2. CASE ~InProgress(t)
      BY <2>0, <2>4, <3>2, Frame DEF ExtendPaper, AddTime
    <3> QED
      BY <3>1, <3>2
  <2>5. ASSUME NEW s \in Students, Start(s) PROVE Good(t)'
    <3>1. CASE s # t
      BY <2>0, <2>5, <3>1, Frame DEF Start, TypeOK
    <3>2. CASE s = t
      <4>1. PICK order \in kSubset(Take, Questions) :
               attempt' = [attempt EXCEPT ![s] = Opened(order, now)]
        BY <2>5 DEF Start
      <4>2. attempt'[t] = Opened(order, now) /\ order \in SUBSET Questions /\ now \in Nat
        BY <2>0, <3>2, <4>1, DrawnFromPool DEF TypeOK
      <4>3. attempt'[t] # Null /\ attempt'[t].status = "in_progress"
            /\ attempt'[t].score = Null /\ attempt'[t].extension = 0
        BY <4>2, OpenedRow, RowNotNull
      <4>4. awarded'[t] = Unmarked /\ granted'[t] = 0
        BY <2>0, <2>5, <3>2 DEF Start, Good
      <4> QED
        BY <4>3, <4>4, OpenNotClosed DEF Good, Exists, InProgress, IsClosed
    <3> QED
      BY <3>1, <3>2
  <2>6. ASSUME NEW s \in Students, NEW q \in Questions, NEW o \in Options, Save(s, q, o)
        PROVE  Good(t)'
    <3>1. CASE s # t
      BY <2>0, <2>6, <3>1, Frame DEF Save, TypeOK
    <3>2. CASE s = t
      BY <2>0, <2>6, <3>2, OpenNotClosed DEF Save, Good, Exists, InProgress, IsClosed
    <3> QED
      BY <3>1, <3>2
  <2>7. ASSUME NEW s \in Students, NEW mode \in Modes, Close(s, mode) PROVE Good(t)'
    <3>1. CASE s # t
      BY <2>0, <2>7, <3>1, Frame DEF Close, TypeOK
    <3>2. CASE s = t
      BY <2>0, <2>7, <3>2, CloseGood
    <3> QED
      BY <3>1, <3>2
  <2>8. ASSUME NEW s \in Students, NEW mode \in Modes, Submit(s, mode) PROVE Good(t)'
    BY <2>7, <2>8 DEF Submit
  <2>9. ASSUME NEW s \in Students, SweepSubmit(s) PROVE Good(t)'
    BY <2>7, <2>9 DEF SweepSubmit, Modes
  <2>10. ASSUME NEW s \in Students, SweepSkip(s) PROVE Good(t)'
    BY <2>0, <2>10, Frame DEF SweepSkip
  <2>11. ASSUME NEW s \in Students, NEW d \in Extensions, Grant(s, d) PROVE Good(t)'
    <3>1. CASE s # t
      BY <2>0, <2>11, <3>1, Frame DEF Grant, TypeOK
    <3>2. CASE s = t
      BY <2>0, <2>11, <3>2, ExtendedGood DEF Grant, TypeOK
    <3> QED
      BY <3>1, <3>2
  <2>12. ASSUME NEW s \in Students, Reattempt(s) PROVE Good(t)'
    <3>1. CASE s # t
      BY <2>0, <2>12, <3>1, Frame DEF Reattempt, TypeOK
    <3>2. CASE s = t
      <4>1. attempt[t].order \in SUBSET Questions /\ now \in Nat
        BY <2>0, <2>12, <3>2 DEF Reattempt, IsClosed, Exists, TypeOK, Attempt
      <4>2. attempt'[t] = Opened(attempt[t].order, now)
            /\ awarded'[t] = Unmarked /\ granted'[t] = 0
        BY <2>0, <2>12, <3>2 DEF Reattempt, Reopened, TypeOK
      <4>3. attempt'[t] # Null /\ attempt'[t].status = "in_progress"
            /\ attempt'[t].score = Null /\ attempt'[t].extension = 0
        BY <4>1, <4>2, OpenedRow, RowNotNull
      <4> QED
        BY <4>2, <4>3, OpenNotClosed DEF Good, Exists, InProgress, IsClosed
    <3> QED
      BY <3>1, <3>2
  <2>13. ASSUME NEW s \in Students, RecordEvent(s) PROVE Good(t)'
    <3>1. CASE s # t
      BY <2>0, <2>13, <3>1, Frame DEF RecordEvent, TypeOK
    <3>2. CASE s = t
      <4>1. attempt[t] \in Attempt /\ Exists(t)
        BY <2>0, <2>13, <3>2 DEF RecordEvent, InProgress, Exists, TypeOK
      <4>2. attempt'[t] = [attempt[t] EXCEPT !.incidents = attempt[t].incidents + 1]
        BY <2>0, <2>13, <3>2 DEF RecordEvent, TypeOK
      <4>3. /\ attempt'[t].status = attempt[t].status
            /\ attempt'[t].order = attempt[t].order
            /\ attempt'[t].score = attempt[t].score
            /\ attempt'[t].extension = attempt[t].extension
            /\ attempt'[t] # Null
        BY <4>1, <4>2, CountedRow, RowNotNull
      <4> QED
        BY <2>0, <2>13, <3>2, <4>1, <4>3, OpenNotClosed
        DEF RecordEvent, Good, Exists, InProgress, IsClosed
    <3> QED
      BY <3>1, <3>2
  <2>14. CASE UNCHANGED vars
    BY <2>0, <2>14, Frame DEF vars
  <2> QED
    BY <2>1, <2>2, <2>3, <2>4, <2>5, <2>6, <2>8, <2>9, <2>10, <2>11, <2>12, <2>13,
       <2>14 DEF Next
<1> QED
  BY <1>1, <1>2 DEF Inv

LEMMA InvHolds == Spec => []Inv
<1>1. Init => Inv
  BY InitTyped DEF Inv, Init, Good, Exists, InProgress, IsClosed
<1> QED
  BY <1>1, InvInductive, PTL DEF Spec

\* Saved answers are marked as they stand, whoever closes the attempt.
THEOREM MarkingCorrect == Spec => []MarkedAsTheyStand
<1>1. Inv => MarkedAsTheyStand
  BY DEF Inv, Good, MarkedAsTheyStand
<1> QED
  BY <1>1, InvHolds, PTL

\* The row carries exactly the extensions acknowledged.
THEOREM ExtensionsCorrect == Spec => []ExtensionsAddUp
<1>1. Inv => ExtensionsAddUp
  BY DEF Inv, Good, ExtensionsAddUp
<1> QED
  BY <1>1, InvHolds, PTL

-----------------------------------------------------------------------------
(***************************************************************************)
(* Steps.                                                                  *)
(***************************************************************************)

\* What changes in a closed attempt, or in the deadline of one, is a reattempt.
LEMMA StepSafe ==
  ASSUME TypeOK, [Next]_vars, NEW t \in Students, Exists(t), sitting'[t] = sitting[t]
  PROVE  /\ IsClosed(t) => <<attempt'[t], answers'[t], awarded'[t]>>
                              = <<attempt[t], answers[t], awarded[t]>>
         /\ Deadline(attempt'[t]) >= Deadline(attempt[t])
<1>0. attempt[t] \in Attempt /\ Deadline(attempt[t]) \in Nat
  BY DEF TypeOK, Exists, Attempt, Deadline
<1>1. CASE <<attempt'[t], answers'[t], awarded'[t]>>
             = <<attempt[t], answers[t], awarded[t]>>
  BY <1>0, <1>1
<1>2. CASE Tick \/ SweepList \/ SweepAbandon \/ UNCHANGED vars
  BY <1>1, <1>2 DEF Tick, SweepList, SweepAbandon, vars
<1>3. ASSUME NEW d \in Extensions, ExtendPaper(d)
      PROVE  /\ ~InProgress(t) => UNCHANGED <<attempt[t], answers[t], awarded[t]>>
             /\ InProgress(t) => Deadline(attempt'[t]) >= Deadline(attempt[t])
  BY <1>0, <1>3, ExtendedRow DEF ExtendPaper, AddTime
<1>4. ASSUME NEW s \in Students, Start(s)
      PROVE  UNCHANGED <<attempt[t], answers[t], awarded[t]>>
  BY <1>4 DEF Start, Exists, TypeOK
<1>5. ASSUME NEW s \in Students, NEW q \in Questions, NEW o \in Options, Save(s, q, o)
      PROVE  /\ attempt' = attempt
             /\ ~InProgress(t) => UNCHANGED <<attempt[t], answers[t], awarded[t]>>
  BY <1>5 DEF Save, TypeOK
<1>6. ASSUME NEW s \in Students, NEW mode \in Modes, Close(s, mode)
      PROVE  /\ ~InProgress(t) => UNCHANGED <<attempt[t], answers[t], awarded[t]>>
             /\ Deadline(attempt'[t]) >= Deadline(attempt[t])
  <2>1. CASE s # t
    BY <1>0, <1>6, <2>1 DEF Close, TypeOK
  <2>2. CASE s = t
    <3>1. answers[t] \in Sheet
      BY DEF TypeOK, Sheet
    <3>2. InProgress(t) /\ attempt'[t] = ClosedAs(attempt[t], mode, answers[t])
      BY <1>6, <2>2 DEF Close, TypeOK
    <3> QED
      BY <1>0, <3>1, <3>2, ClosedRow
  <2> QED
    BY <2>1, <2>2
<1>7. ASSUME NEW s \in Students, SweepSkip(s)
      PROVE  UNCHANGED <<attempt[t], answers[t], awarded[t]>>
  BY <1>7 DEF SweepSkip
<1>8. ASSUME NEW s \in Students, NEW d \in Extensions, Grant(s, d)
      PROVE  /\ ~InProgress(t) => UNCHANGED <<attempt[t], answers[t], awarded[t]>>
             /\ Deadline(attempt'[t]) >= Deadline(attempt[t])
  <2>1. CASE s # t
    BY <1>0, <1>8, <2>1 DEF Grant, TypeOK
  <2>2. CASE s = t
    BY <1>0, <1>8, <2>2, ExtendedRow DEF Grant, TypeOK
  <2> QED
    BY <2>1, <2>2
<1>9. ASSUME NEW s \in Students, Reattempt(s)
      PROVE  UNCHANGED <<attempt[t], answers[t], awarded[t]>>
  <2>1. s # t
    BY <1>9 DEF Reattempt, TypeOK
  <2> QED
    BY <1>9, <2>1 DEF Reattempt, TypeOK
<1>10. ASSUME NEW s \in Students, RecordEvent(s)
       PROVE  /\ ~InProgress(t) => UNCHANGED <<attempt[t], answers[t], awarded[t]>>
              /\ Deadline(attempt'[t]) >= Deadline(attempt[t])
  <2>1. CASE s # t
    BY <1>0, <1>10, <2>1 DEF RecordEvent, TypeOK
  <2>2. CASE s = t
    BY <1>0, <1>10, <2>2, CountedRow DEF RecordEvent, TypeOK
  <2> QED
    BY <2>1, <2>2
<1>11. IsClosed(t) => ~InProgress(t)
  BY OpenNotClosed DEF IsClosed, InProgress
<1>12. "auto" \in Modes
  BY DEF Modes
<1> QED
  BY <1>0, <1>1, <1>2, <1>3, <1>4, <1>5, <1>6, <1>7, <1>8, <1>9, <1>10, <1>11, <1>12
  DEF Next, Submit, SweepSubmit

\* A closed paper stays as it is until a reattempt is granted.
THEOREM ClosedFinal == Spec => ClosedIsFinal
<1>1. TypeOK /\ [Next]_vars =>
        [\A s \in Students : IsClosed(s) /\ sitting'[s] = sitting[s] =>
            <<attempt'[s], answers'[s], awarded'[s]>>
                = <<attempt[s], answers[s], awarded[s]>>]_vars
  BY StepSafe DEF IsClosed
<1> QED
  BY <1>1, TypeCorrect, PTL DEF Spec, ClosedIsFinal

\* Nobody loses time already given.
THEOREM DeadlineMonotone == Spec => DeadlineNeverEarlier
<1>1. TypeOK /\ [Next]_vars =>
        [\A s \in Students : Exists(s) /\ sitting'[s] = sitting[s] =>
            Deadline(attempt'[s]) >= Deadline(attempt[s])]_vars
  BY StepSafe
<1> QED
  BY <1>1, TypeCorrect, PTL DEF Spec, DeadlineNeverEarlier
=============================================================================
