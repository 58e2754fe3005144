------------------------- MODULE AttemptEngineProofs -------------------------
(***************************************************************************)
(* What AttemptEngine guarantees however the transactions of any number of *)
(* instances interleave, and that it implements AttemptContract when those *)
(* on the same attempt do not overlap.                                     *)
(***************************************************************************)
EXTENDS AttemptEngine, TLAPS

(***************************************************************************)
(* The rows of AttemptData, as far as the statements of a transaction      *)
(* need.                                                                   *)
(***************************************************************************)
\* A stored answer sheet.
Sheet == [Questions -> Options \union {Null}]

LEMMA DrawnFromPool ==
  ASSUME NEW order \in kSubset(Take, Questions)
  PROVE  order \in SUBSET Questions
BY DEF kSubset

LEMMA RowNotNull ==
  ASSUME NEW a \in Attempt
  PROVE  a # Null
BY NullAssumption

LEMMA OpenedRow ==
  ASSUME NEW order \in SUBSET Questions, NEW time \in Nat
  PROVE  LET a == Opened(order, time) IN
         a \in Attempt /\ a.status = "in_progress" /\ a.order = order /\ a.score = Null
BY TimeAssumption DEF Opened, Attempt, Status

LEMMA ExtendedRow ==
  ASSUME NEW a \in Attempt, NEW d \in Extensions
  PROVE  /\ Extended(a, d) \in Attempt /\ Extended(a, d).status = a.status
         /\ Extended(a, d).order = a.order /\ Extended(a, d).score = a.score
<1>1. a.expiresAt + d \in Nat /\ a.extension + d \in Nat
  BY TimeAssumption DEF Attempt
<1> QED
  BY <1>1 DEF Extended, Attempt

LEMMA ClosedRow ==
  ASSUME NEW a \in Attempt, NEW mode \in Modes, NEW seen \in Sheet
  PROVE  /\ ClosedAs(a, mode, seen) \in Attempt
         /\ ClosedAs(a, mode, seen).status \in Closed
         /\ ClosedAs(a, mode, seen).order = a.order
<1>1. Credited(a.order, seen) \in SUBSET Questions
  BY PaperAssumption DEF Credited, Markable
<1> QED
  BY <1>1 DEF ClosedAs, Attempt, Status, Closed

LEMMA CountedRow ==
  ASSUME NEW a \in Attempt
  PROVE  LET b == [a EXCEPT !.incidents = a.incidents + 1] IN
         b \in Attempt /\ b.status = a.status /\ b.order = a.order /\ b.score = a.score
<1>1. a.incidents + 1 \in Nat
  BY DEF Attempt
<1> QED
  BY <1>1 DEF Attempt

LEMMA OpenNotClosed == "in_progress" \notin Closed
BY DEF Closed

LEMMA MarkedSheet ==
  ASSUME NEW order \in SUBSET Questions, NEW seen \in Sheet, NEW rows \in Sheet,
         NEW old \in [Questions -> Marks]
  PROVE  Marked(order, seen, rows, old) \in [Questions -> Marks]
BY DEF Marked, Marks

LEMMA EmptySheets == NoAnswers \in Sheet /\ Unmarked \in [Questions -> Marks]
BY DEF NoAnswers, Unmarked, Sheet, Marks

-----------------------------------------------------------------------------

\* An open transaction carries what its operation has read.
LEMMA TxnKinds ==
  ASSUME NEW t \in Txn
  PROVE  /\ t.op \in {"idle", "start", "save", "submit", "mark", "grant",
                      "extendPaper", "reattempt", "reopen", "event"}
         /\ t.op = "idle" => t = Idle
         /\ t.op \notin {"idle", "extendPaper"} => t.s \in Students
         /\ t.op = "save" => t.q \in Questions /\ t.o \in Options
         /\ t.op \in {"submit", "mark"} => t.mode \in Modes
         /\ t.op = "mark" => t.seen \in Sheet
         /\ t.op = "grant" => t.d \in Extensions /\ t.expiresAt \in Nat /\ t.extension \in Nat
         /\ t.op = "extendPaper" => t.d \in Extensions
         /\ t.op = "reopen" => t.gone \in SUBSET Questions
BY DEF Txn, Idle, SaveTxn, SubmitTxn, MarkTxn, GrantTxn, OtherTxn, ReopenTxn, PaperTxn, Sheet

\* The instance C of the contract has the same rows and the same operators.
LEMMA SameRows ==
  /\ C!Attempt = Attempt
  /\ C!Marks = Marks
  /\ C!NoAnswers = NoAnswers
  /\ C!Unmarked = Unmarked
  /\ C!Closed = Closed
BY DEF C!Attempt, Attempt, C!Marks, Marks, C!NoAnswers, NoAnswers, C!Unmarked, Unmarked,
       C!Closed, Closed, C!Status, Status

\* The rows are well formed.
DataOK ==
    /\ now \in Nat
    /\ attempt \in [Students -> Attempt \union {Null}]
    /\ answers \in [Students -> Sheet]
    /\ awarded \in [Students -> [Questions -> Marks]]
    /\ due \subseteq Students
    /\ sitting \in [Students -> Nat]
    /\ granted \in [Students -> Nat]
    /\ carried \in [Students -> SUBSET Questions]

LEMMA TypeMeans ==
  /\ TypeOK <=> DataOK /\ txn \in [Instances -> Txn] /\ faults \in 0 .. MaxFaults
  /\ TypeOK' <=> DataOK' /\ txn' \in [Instances -> Txn] /\ faults' \in 0 .. MaxFaults
BY SameRows DEF TypeOK, C!TypeOK, DataOK, Sheet

LEMMA InitTyped == Init => TypeOK
<1> SUFFICES ASSUME Init PROVE TypeOK
  OBVIOUS
<1>1. DataOK
  BY EmptySheets, SameRows DEF Init, C!Init, DataOK
<1>2. txn \in [Instances -> Txn] /\ faults \in 0 .. MaxFaults
  BY FaultAssumption DEF Init, Txn
<1> QED
  BY <1>1, <1>2, TypeMeans

LEMMA IdleTyped == Idle \in Txn /\ Idle.op = "idle"
BY DEF Txn, Idle

-----------------------------------------------------------------------------
(***************************************************************************)
(* The inductive invariant.  What a transaction has read may be stale when *)
(* it writes; what cannot go stale is that the attempt exists and which    *)
(* questions were drawn for it, because no statement takes either back.    *)
(***************************************************************************)
HeldBy(t) ==
    /\ t.op \in {"save", "submit", "mark", "grant", "reattempt", "reopen", "event"} =>
          C!Exists(t.s)
    /\ t.op = "save" => t.q \in attempt[t.s].order

Shown(s) ==
    /\ ~C!Exists(s) => answers[s] = NoAnswers /\ awarded[s] = Unmarked
    /\ C!InProgress(s) =>
          attempt[s].score = Null
          /\ \A q \in Questions \ carried[s] : awarded[s][q] = "unmarked"
    /\ \A q \in Questions : awarded[s][q] # "unmarked" => answers[s][q] # Null
    /\ C!Exists(s) => \A q \in Questions : answers[s][q] # Null => q \in attempt[s].order

Inv ==
    /\ TypeOK
    /\ \A s \in Students : Shown(s)
    /\ \A i \in Instances : HeldBy(txn[i])

\* What a step does to the rows of one student.
Fixed(s) ==
    C!Exists(s) => attempt'[s] # Null /\ attempt'[s].order = attempt[s].order

Result == DataOK' /\ \A s \in Students : Fixed(s) /\ Shown(s)'

LEMMA Untouched ==
  ASSUME NEW s \in Students, Shown(s),
         attempt'[s] = attempt[s], answers'[s] = answers[s], awarded'[s] = awarded[s],
         carried'[s] = carried[s]
  PROVE  Fixed(s) /\ Shown(s)'
BY DEF Fixed, Shown, C!Exists, C!InProgress

LEMMA NoWrite ==
  ASSUME Inv, UNCHANGED <<attempt, answers, awarded, sitting, granted, carried>>,
         now' \in Nat, due' \subseteq Students
  PROVE  Result
<1>1. DataOK'
  BY TypeMeans DEF Inv, DataOK
<1> QED
  BY <1>1, Untouched DEF Result, Inv

\* The transaction on instance i goes on as t, or ends with t idle.
LEMMA TxnMoves ==
  ASSUME Inv, Result, NEW i \in Instances, NEW t \in Txn,
         txn' = [txn EXCEPT ![i] = t], HeldBy(t)', faults' \in 0 .. MaxFaults
  PROVE  Inv'
<1>1. txn' \in [Instances -> Txn]
  BY TypeMeans DEF Inv
<1>2. TypeOK'
  BY <1>1, TypeMeans DEF Result
<1>3. ASSUME NEW j \in Instances PROVE HeldBy(txn[j])'
  <2>1. CASE j = i
    <3>1. txn'[j] = t
      BY <2>1, TypeMeans DEF Inv
    <3> QED
      BY <3>1
  <2>2. CASE j # i
    <3>1. txn'[j] = txn[j] /\ txn[j] \in Txn
      BY <2>2, TypeMeans DEF Inv
    <3> QED
      BY <3>1, TxnKinds DEF Inv, HeldBy, Result, Fixed, C!Exists
  <2> QED
    BY <2>1, <2>2
<1> QED
  BY <1>2, <1>3 DEF Inv, Result

\* A transaction that has only read.
LEMMA BeginKeeps ==
  ASSUME Inv, NEW i \in Instances, NEW t \in Txn, Begin(i, t), HeldBy(t)
  PROVE  Inv'
<1>0. DataOK /\ faults \in 0 .. MaxFaults
  BY TypeMeans DEF Inv
<1>1. Result
  BY <1>0, NoWrite DEF Begin, data, DataOK
<1>2. HeldBy(t)'
  BY DEF Begin, data, HeldBy, C!Exists
<1> QED
  BY <1>0, <1>1, <1>2, TxnMoves DEF Begin

\* A transaction that ends with writes.
LEMMA FinishKeeps ==
  ASSUME Inv, NEW i \in Instances, Finish(i), Result
  PROVE  Inv'
BY TxnMoves, IdleTyped, TypeMeans DEF Finish, HeldBy, Inv

-----------------------------------------------------------------------------
(***************************************************************************)
(* The writes.                                                             *)
(***************************************************************************)
LEMMA StartWriteKeeps ==
  ASSUME Inv, NEW i \in Instances, StartWrite(i)
  PROVE  Result
<1> DEFINE s == txn[i].s
<1>0. DataOK /\ s \in Students
  BY TypeMeans, TxnKinds DEF Inv, StartWrite
<1>1. CASE C!Exists(s)
  BY <1>0, <1>1, NoWrite DEF StartWrite, data, Finish, DataOK
<1>2. CASE ~C!Exists(s)
  <2>1. PICK order \in kSubset(Take, Questions) :
           attempt' = [attempt EXCEPT ![s] = Opened(order, now)]
    BY <1>2 DEF StartWrite
  <2>2. Opened(order, now) \in Attempt /\ Opened(order, now).score = Null
    BY <1>0, DrawnFromPool, OpenedRow DEF DataOK
  <2>3. UNCHANGED <<answers, awarded, due, granted, carried, now>>
        /\ sitting' = [sitting EXCEPT ![s] = 1]
    BY <1>2 DEF StartWrite, Finish
  <2>4. DataOK'
    BY <1>0, <2>1, <2>2, <2>3 DEF DataOK
  <2>5. ASSUME NEW u \in Students PROVE Fixed(u) /\ Shown(u)'
    <3>1. CASE u # s
      BY <1>0, <2>1, <2>3, <3>1, Untouched DEF Inv, DataOK
    <3>2. CASE u = s
      <4>1. attempt'[u] = Opened(order, now)
        BY <1>0, <2>1, <3>2 DEF DataOK
      <4>2. answers'[u] = NoAnswers /\ awarded'[u] = Unmarked
        BY <1>2, <2>3, <3>2 DEF Inv, Shown
      <4> QED
        BY <1>2, <2>2, <3>2, <4>1, <4>2
        DEF Fixed, Shown, C!Exists, C!InProgress, NoAnswers, Unmarked
    <3> QED
      BY <3>1, <3>2
  <2> QED
    BY <2>4, <2>5 DEF Result
<1> QED
  BY <1>1, <1>2

LEMMA SaveWriteKeeps ==
  ASSUME Inv, NEW i \in Instances, SaveWrite(i)
  PROVE  Result
<1> DEFINE t == txn[i]
<1>0. /\ DataOK
      /\ t.s \in Students /\ t.q \in Questions /\ t.o \in Options
      /\ C!Exists(t.s) /\ t.q \in attempt[t.s].order
  BY TypeMeans, TxnKinds DEF Inv, SaveWrite, HeldBy
<1>1. DataOK'
  BY <1>0 DEF SaveWrite, Finish, DataOK, Sheet
<1>2. ASSUME NEW u \in Students PROVE Fixed(u) /\ Shown(u)'
  <2>1. CASE u # t.s
    BY <1>0, <2>1, Untouched DEF SaveWrite, Inv, DataOK
  <2>2. CASE u = t.s
    <3>1. /\ answers'[u] = [answers[u] EXCEPT ![t.q] = t.o] /\ t.o # Null
          /\ UNCHANGED <<attempt, awarded, carried>>
      BY <1>0, <2>2, NullAssumption DEF SaveWrite, DataOK
    <3>2. \A q \in Questions : answers'[u][q] = IF q = t.q THEN t.o ELSE answers[u][q]
      BY <1>0, <2>2, <3>1 DEF DataOK, Sheet
    <3>3. Shown(u)
      BY <2>2 DEF Inv
    <3> QED
      BY <1>0, <2>2, <3>1, <3>2, <3>3 DEF Fixed, Shown, C!Exists, C!InProgress
  <2> QED
    BY <2>1, <2>2
<1> QED
  BY <1>1, <1>2 DEF Result

LEMMA SubmitWriteKeeps ==
  ASSUME Inv, NEW i \in Instances, SubmitWrite(i)
  PROVE  Result
<1> DEFINE t == txn[i]
           a == ClosedAs(attempt[t.s], t.mode, t.seen)
           m == Marked(attempt[t.s].order, t.seen, answers[t.s], awarded[t.s])
<1>0. /\ DataOK
      /\ t.s \in Students /\ t.mode \in Modes /\ t.seen \in Sheet
      /\ attempt[t.s] \in Attempt /\ C!Exists(t.s)
  BY TypeMeans, TxnKinds DEF Inv, SubmitWrite, HeldBy, C!Exists, DataOK
<1>1. a \in Attempt /\ a.status \in Closed /\ a.order = attempt[t.s].order /\ a # Null
  BY <1>0, ClosedRow, RowNotNull
<1>2. m \in [Questions -> Marks]
  <2>1. attempt[t.s].order \in SUBSET Questions
    BY <1>0 DEF Attempt
  <2> QED
    BY <1>0, <2>1, MarkedSheet DEF DataOK
<1>3. /\ attempt' = [attempt EXCEPT ![t.s] = a]
      /\ awarded' = [awarded EXCEPT ![t.s] = m]
      /\ due' \subseteq due
      /\ UNCHANGED <<now, answers, sitting, granted, carried>>
  BY DEF SubmitWrite, Finish
<1>4. DataOK'
  BY <1>0, <1>1, <1>2, <1>3 DEF DataOK
<1>5. ASSUME NEW u \in Students PROVE Fixed(u) /\ Shown(u)'
  <2>1. CASE u # t.s
    BY <1>0, <1>3, <2>1, Untouched DEF Inv, DataOK
  <2>2. CASE u = t.s
    <3>1. attempt'[u] = a /\ answers'[u] = answers[u] /\ awarded'[u] = m
      BY <1>0, <1>3, <2>2 DEF DataOK
    <3>2. \A q \in Questions : m[q] # "unmarked" => answers[u][q] # Null
      BY <2>2 DEF Marked, Inv, Shown
    <3> HIDE DEF a, m
    <3>3. Shown(u)
      BY <2>2 DEF Inv
    <3> QED
      BY <1>0, <1>1, <2>2, <3>1, <3>2, <3>3, OpenNotClosed
      DEF Fixed, Shown, C!Exists, C!InProgress
  <2> QED
    BY <2>1, <2>2
<1> QED
  BY <1>4, <1>5 DEF Result

\* Any write that changes only times and counts of an attempt that exists.
LEMMA RowWrite ==
  ASSUME Inv, NEW u \in Students, C!Exists(u),
         attempt'[u] \in Attempt,
         attempt'[u].status = attempt[u].status,
         attempt'[u].order = attempt[u].order,
         attempt'[u].score = attempt[u].score,
         answers'[u] = answers[u], awarded'[u] = awarded[u], carried'[u] = carried[u]
  PROVE  Fixed(u) /\ Shown(u)'
BY RowNotNull DEF Inv, Fixed, Shown, C!Exists, C!InProgress

LEMMA GrantWriteKeeps ==
  ASSUME Inv, NEW i \in Instances, GrantWrite(i)
  PROVE  Result
<1> DEFINE t == txn[i]
           a == [attempt[t.s] EXCEPT !.extension = t.extension + t.d,
                                     !.expiresAt = t.expiresAt + t.d]
<1>0. /\ DataOK
      /\ t.s \in Students /\ t.d \in Nat /\ t.expiresAt \in Nat /\ t.extension \in Nat
      /\ attempt[t.s] \in Attempt /\ C!Exists(t.s)
  BY TypeMeans, TxnKinds, TimeAssumption DEF Inv, GrantWrite, HeldBy, C!Exists, DataOK
<1>1. a \in Attempt
  <2>1. t.extension + t.d \in Nat /\ t.expiresAt + t.d \in Nat
    BY <1>0
  <2> QED
    BY <1>0, <2>1 DEF Attempt
<1>2. /\ a.status = attempt[t.s].status
      /\ a.order = attempt[t.s].order
      /\ a.score = attempt[t.s].score
  BY <1>0 DEF Attempt
<1>3. /\ attempt' = [attempt EXCEPT ![t.s] = a]
      /\ granted' = [granted EXCEPT ![t.s] = granted[t.s] + t.d]
      /\ UNCHANGED <<now, answers, awarded, due, sitting, carried>>
  BY <1>0 DEF GrantWrite, Finish, DataOK
<1> HIDE DEF a
<1>4. DataOK'
  <2>1. granted[t.s] + t.d \in Nat
    BY <1>0 DEF DataOK
  <2> QED
    BY <1>0, <1>1, <1>3, <2>1 DEF DataOK
<1>5. ASSUME NEW u \in Students PROVE Fixed(u) /\ Shown(u)'
  <2>1. CASE u # t.s
    BY <1>0, <1>3, <2>1, Untouched DEF Inv, DataOK
  <2>2. CASE u = t.s
    <3>1. attempt'[u] = a
      BY <1>0, <1>3, <2>2 DEF DataOK
    <3> QED
      BY <1>0, <1>1, <1>2, <1>3, <2>2, <3>1, RowWrite
  <2> QED
    BY <2>1, <2>2
<1> QED
  BY <1>4, <1>5 DEF Result

LEMMA ExtendPaperWriteKeeps ==
  ASSUME Inv, NEW i \in Instances, ExtendPaperWrite(i)
  PROVE  Result
<1> DEFINE d == txn[i].d
<1>0. DataOK /\ d \in Extensions /\ d \in Nat
  BY TypeMeans, TxnKinds, TimeAssumption DEF Inv, ExtendPaperWrite
<1>1. /\ attempt' = [s \in Students |->
             IF C!InProgress(s) THEN Extended(attempt[s], d) ELSE attempt[s]]
      /\ granted' = [s \in Students |->
             IF C!InProgress(s) THEN granted[s] + d ELSE granted[s]]
      /\ UNCHANGED <<now, answers, awarded, due, sitting, carried>>
  BY DEF ExtendPaperWrite, C!AddTime, Finish, C!Extended, Extended
<1>2. \A s \in Students : C!InProgress(s) => C!Exists(s) /\ attempt[s] \in Attempt
  BY <1>0 DEF C!InProgress, C!Exists, DataOK
<1>3. DataOK'
  <2>1. attempt' \in [Students -> Attempt \union {Null}]
    BY <1>0, <1>1, <1>2, ExtendedRow DEF DataOK
  <2>2. granted' \in [Students -> Nat]
    BY <1>0, <1>1 DEF DataOK
  <2> QED
    BY <1>0, <1>1, <2>1, <2>2 DEF DataOK
<1>4. ASSUME NEW u \in Students PROVE Fixed(u) /\ Shown(u)'
  <2>1. CASE ~C!InProgress(u)
    BY <1>1, <2>1, Untouched DEF Inv
  <2>2. CASE C!InProgress(u)
    BY <1>0, <1>1, <1>2, <2>2, ExtendedRow, RowWrite
  <2> QED
    BY <2>1, <2>2
<1> QED
  BY <1>3, <1>4 DEF Result

LEMMA ReattemptWriteKeeps ==
  ASSUME Inv, NEW i \in Instances, ReattemptWrite(i)
  PROVE  Result
<1> DEFINE s == txn[i].s
           gone == txn[i].gone
           a == Reopened(attempt[s], now)
<1>0. /\ DataOK
      /\ s \in Students /\ attempt[s] \in Attempt /\ C!Exists(s)
  BY TypeMeans, TxnKinds DEF Inv, ReattemptWrite, HeldBy, C!Exists, DataOK
<1>1. a \in Attempt /\ a.order = attempt[s].order /\ a.score = Null /\ a # Null
  <2>1. attempt[s].order \in SUBSET Questions /\ now \in Nat
    BY <1>0 DEF Attempt, DataOK
  <2> QED
    BY <2>1, OpenedRow, RowNotNull DEF Reopened
<1>2. /\ attempt' = [attempt EXCEPT ![s] = a]
      /\ answers' = [answers EXCEPT ![s] = Without(answers[s], gone, Null)]
      /\ awarded' = [awarded EXCEPT ![s] = Without(awarded[s], gone, "unmarked")]
      /\ carried' = [carried EXCEPT ![s] = Stored(s) \ gone]
      /\ sitting' = [sitting EXCEPT ![s] = sitting[s] + 1]
      /\ granted' = [granted EXCEPT ![s] = 0]
      /\ UNCHANGED <<now, due>>
  BY <1>0 DEF ReattemptWrite, Finish, DataOK
<1>3. /\ Without(answers[s], gone, Null) \in Sheet
      /\ Without(awarded[s], gone, "unmarked") \in [Questions -> Marks]
      /\ Stored(s) \ gone \in SUBSET Questions
  BY <1>0 DEF Without, Stored, Sheet, Marks, DataOK
<1> HIDE DEF a
<1>4. DataOK'
  <2>1. sitting[s] + 1 \in Nat
    BY <1>0 DEF DataOK
  <2> QED
    BY <1>0, <1>1, <1>2, <1>3, <2>1 DEF DataOK
<1>5. ASSUME NEW u \in Students PROVE Fixed(u) /\ Shown(u)'
  <2>1. CASE u # s
    BY <1>0, <1>2, <2>1, Untouched DEF Inv, DataOK
  <2>2. CASE u = s
    <3>1. /\ attempt'[u] = a /\ carried'[u] = Stored(u) \ gone
          /\ answers'[u] = Without(answers[u], gone, Null)
          /\ awarded'[u] = Without(awarded[u], gone, "unmarked")
      BY <1>0, <1>2, <2>2 DEF DataOK
    <3>2. \A q \in Questions :
             /\ answers'[u][q] = IF q \in gone THEN Null ELSE answers[u][q]
             /\ awarded'[u][q] = IF q \in gone THEN "unmarked" ELSE awarded[u][q]
      BY <3>1 DEF Without
    <3>3. Shown(u) /\ C!Exists(u)
      BY <1>0, <2>2 DEF Inv
    <3>4. \A q \in Questions \ carried'[u] : awarded'[u][q] = "unmarked"
      BY <3>1, <3>2, <3>3 DEF Shown, Stored
    <3> QED
      BY <1>0, <1>1, <2>2, <3>1, <3>2, <3>3, <3>4 DEF Fixed, Shown, C!Exists, C!InProgress
  <2> QED
    BY <2>1, <2>2
<1> QED
  BY <1>4, <1>5 DEF Result

LEMMA EventWriteKeeps ==
  ASSUME Inv, NEW i \in Instances, EventWrite(i)
  PROVE  Result
<1> DEFINE s == txn[i].s
           a == [attempt[s] EXCEPT !.incidents = attempt[s].incidents + 1]
<1>0. DataOK /\ s \in Students /\ attempt[s] \in Attempt /\ C!Exists(s)
  BY TypeMeans, TxnKinds DEF Inv, EventWrite, HeldBy, C!Exists, DataOK
<1>1. /\ a \in Attempt
      /\ a.status = attempt[s].status
      /\ a.order = attempt[s].order
      /\ a.score = attempt[s].score
  BY <1>0, CountedRow
<1>2. /\ attempt' = [attempt EXCEPT ![s] = a]
      /\ UNCHANGED <<now, answers, awarded, due, sitting, granted, carried>>
  BY <1>0 DEF EventWrite, Finish, DataOK
<1> HIDE DEF a
<1>3. DataOK'
  BY <1>0, <1>1, <1>2 DEF DataOK
<1>4. ASSUME NEW u \in Students PROVE Fixed(u) /\ Shown(u)'
  <2>1. CASE u # s
    BY <1>0, <1>2, <2>1, Untouched DEF Inv, DataOK
  <2>2. CASE u = s
    <3>1. attempt'[u] = a
      BY <1>0, <1>2, <2>2 DEF DataOK
    <3> QED
      BY <1>0, <1>1, <1>2, <2>2, <3>1, RowWrite
  <2> QED
    BY <2>1, <2>2
<1> QED
  BY <1>3, <1>4 DEF Result

-----------------------------------------------------------------------------
(***************************************************************************)
(* The steps.                                                              *)
(***************************************************************************)
LEMMA RequestKeeps ==
  ASSUME Inv, NEW i \in Instances, NEW s \in Students,
         Request(i, s) \/ SweepRead(i, s)
  PROVE  Inv'
<1>0. DataOK
  BY TypeMeans DEF Inv
<1>1. CASE StartRead(i, s)
  <2>1. [op |-> "start", s |-> s] \in Txn /\ HeldBy([op |-> "start", s |-> s])
    BY DEF Txn, OtherTxn, HeldBy
  <2> QED
    BY <1>1, <2>1, BeginKeeps DEF StartRead
<1>2. ASSUME NEW q \in Questions, NEW o \in Options, SaveRead(i, s, q, o) PROVE Inv'
  <2> DEFINE t == [op |-> "save", s |-> s, q |-> q, o |-> o]
  <2>1. t \in Txn /\ HeldBy(t)
    BY <1>2 DEF SaveRead, Txn, SaveTxn, HeldBy, C!InProgress
  <2> QED
    BY <1>2, <2>1, BeginKeeps DEF SaveRead
<1>3. ASSUME NEW mode \in Modes, C!InProgress(s),
             Begin(i, [op |-> "submit", s |-> s, mode |-> mode])
      PROVE  Inv'
  <2> DEFINE t == [op |-> "submit", s |-> s, mode |-> mode]
  <2>1. t \in Txn /\ HeldBy(t)
    BY <1>3 DEF Txn, SubmitTxn, HeldBy, C!InProgress
  <2> QED
    BY <1>3, <2>1, BeginKeeps
<1>4. ASSUME NEW mode \in Modes, SubmitRead(i, s, mode) PROVE Inv'
  BY <1>3, <1>4 DEF SubmitRead
<1>5. CASE SweepRead(i, s)
  BY <1>3, <1>5 DEF SweepRead, Modes
<1>6. ASSUME NEW d \in Extensions, GrantRead(i, s, d) PROVE Inv'
  <2> DEFINE t == [op |-> "grant", s |-> s, d |-> d,
                   expiresAt |-> attempt[s].expiresAt,
                   extension |-> attempt[s].extension]
  <2>1. attempt[s] \in Attempt
    BY <1>0, <1>6 DEF GrantRead, C!InProgress, C!Exists, DataOK
  <2>2. t \in Txn
    BY <2>1 DEF Txn, GrantTxn, Attempt
  <2>3. HeldBy(t)
    BY <1>6 DEF GrantRead, HeldBy, C!InProgress
  <2> QED
    BY <1>6, <2>2, <2>3, BeginKeeps DEF GrantRead
<1>7. CASE ReattemptRead(i, s)
  <2>1. [op |-> "reattempt", s |-> s] \in Txn /\ HeldBy([op |-> "reattempt", s |-> s])
    BY <1>7 DEF ReattemptRead, Txn, OtherTxn, HeldBy, C!IsClosed
  <2> QED
    BY <1>7, <2>1, BeginKeeps DEF ReattemptRead
<1>8. CASE EventRead(i, s)
  <2>1. [op |-> "event", s |-> s] \in Txn /\ HeldBy([op |-> "event", s |-> s])
    BY <1>8 DEF EventRead, Txn, OtherTxn, HeldBy, C!InProgress
  <2> QED
    BY <1>8, <2>1, BeginKeeps DEF EventRead
<1> QED
  BY <1>1, <1>2, <1>4, <1>5, <1>6, <1>7, <1>8 DEF Request

\* The statements in the middle of a transaction: they write nothing that is visible.
ReadsOn(i) == SubmitSelect(i) \/ ReattemptDelete(i)

LEMMA ReadsOnKeeps ==
  ASSUME Inv, NEW i \in Instances, ReadsOn(i)
  PROVE  /\ UNCHANGED <<now, data, faults>>
         /\ \E t \in Txn :
              /\ txn' = [txn EXCEPT ![i] = t] /\ HeldBy(t) /\ t.s = txn[i].s
              /\ \/ /\ txn[i].op = "submit" /\ t.op = "mark"
                    /\ t.mode = txn[i].mode /\ t.seen = answers[t.s]
                 \/ txn[i].op = "reattempt" /\ t.op = "reopen" /\ t.gone = Stored(t.s)
<1>0. DataOK /\ txn[i] \in Txn
  BY TypeMeans DEF Inv
<1>1. CASE SubmitSelect(i)
  <2>1. PICK t \in Txn :
           t = [op |-> "mark", s |-> txn[i].s, mode |-> txn[i].mode,
                seen |-> answers[txn[i].s]]
    BY <1>0, <1>1, TxnKinds DEF SubmitSelect, DataOK, Txn, MarkTxn, Sheet
  <2>2. HeldBy(t)
    BY <1>1, <2>1 DEF SubmitSelect, Inv, HeldBy
  <2> QED
    BY <1>1, <2>1, <2>2 DEF SubmitSelect
<1>2. CASE ReattemptDelete(i)
  <2>1. PICK t \in Txn : t = [op |-> "reopen", s |-> txn[i].s, gone |-> Stored(txn[i].s)]
    BY <1>0, <1>2, TxnKinds DEF ReattemptDelete, Txn, ReopenTxn, Stored
  <2>2. HeldBy(t)
    BY <1>2, <2>1 DEF ReattemptDelete, Inv, HeldBy
  <2> QED
    BY <1>2, <2>1, <2>2 DEF ReattemptDelete
<1> QED
  BY <1>1, <1>2 DEF ReadsOn

LEMMA ContinueKeeps ==
  ASSUME Inv, NEW i \in Instances, Continue(i)
  PROVE  Inv'
<1>1. CASE ReadsOn(i)
  <2>1. DataOK /\ faults \in 0 .. MaxFaults
    BY TypeMeans DEF Inv
  <2>2. UNCHANGED <<now, data, faults>>
    BY <1>1, ReadsOnKeeps
  <2>3. PICK t \in Txn : txn' = [txn EXCEPT ![i] = t] /\ HeldBy(t)
    BY <1>1, ReadsOnKeeps
  <2>4. Result
    BY <2>1, <2>2, NoWrite DEF data, DataOK
  <2>5. HeldBy(t)'
    BY <2>2, <2>3 DEF data, HeldBy, C!Exists
  <2> QED
    BY <2>1, <2>2, <2>3, <2>4, <2>5, TxnMoves
<1>2. CASE ~ReadsOn(i)
  <2>1. Finish(i)
    BY <1>2 DEF Continue, ReadsOn, StartWrite, SaveWrite, SubmitWrite, GrantWrite,
                ExtendPaperWrite, ReattemptWrite, EventWrite
  <2>2. Result
    BY <1>2, StartWriteKeeps, SaveWriteKeeps, SubmitWriteKeeps, GrantWriteKeeps,
       ExtendPaperWriteKeeps, ReattemptWriteKeeps, EventWriteKeeps DEF Continue, ReadsOn
  <2> QED
    BY <2>1, <2>2, FinishKeeps
<1> QED
  BY <1>1, <1>2

\* What moves no transaction forward.
LEMMA IdleStep ==
  ASSUME Inv, UNCHANGED <<attempt, answers, awarded, sitting, granted, carried, txn>>,
         now' \in Nat, due' \subseteq Students, faults' \in 0 .. MaxFaults
  PROVE  Inv'
<1>1. Result
  BY NoWrite
<1>2. TypeOK'
  BY <1>1, TypeMeans DEF Inv, Result
<1>3. ASSUME NEW i \in Instances PROVE HeldBy(txn[i])'
  BY DEF Inv, HeldBy, C!Exists
<1> QED
  BY <1>1, <1>2, <1>3 DEF Inv, Result

LEMMA InvInductive == Inv /\ [Next]_vars => Inv'
<1> SUFFICES ASSUME Inv, [Next]_vars PROVE Inv'
  OBVIOUS
<1>0. DataOK /\ faults \in 0 .. MaxFaults
  BY TypeMeans DEF Inv
<1>1. CASE Tick
  BY <1>0, <1>1, IdleStep, BoundAssumption DEF Tick, C!Tick, DataOK
<1>2. CASE SweepAbandon
  BY <1>0, <1>2, IdleStep, FaultAssumption DEF SweepAbandon, C!SweepAbandon, DataOK
<1>3. ASSUME NEW i \in Instances, Continue(i) PROVE Inv'
  BY <1>3, ContinueKeeps
<1>4. ASSUME NEW i \in Instances, Rollback(i) PROVE Inv'
  <2>1. Result
    BY <1>0, <1>4, NoWrite DEF Rollback, DataOK
  <2>2. faults' \in 0 .. MaxFaults
    BY <1>0, <1>4, FaultAssumption DEF Rollback
  <2> QED
    BY <1>4, <2>1, <2>2, TxnMoves, IdleTyped DEF Rollback, HeldBy
<1>5. ASSUME NEW i \in Instances, SweepList(i) PROVE Inv'
  BY <1>0, <1>5, IdleStep DEF SweepList, C!SweepList, DataOK
<1>6. ASSUME NEW i \in Instances, NEW d \in Extensions, ExtendPaperBegin(i, d) PROVE Inv'
  <2>1. [op |-> "extendPaper", d |-> d] \in Txn /\ HeldBy([op |-> "extendPaper", d |-> d])
    BY DEF Txn, PaperTxn, HeldBy
  <2> QED
    BY <1>6, <2>1, BeginKeeps DEF ExtendPaperBegin
<1>7. ASSUME NEW i \in Instances, NEW s \in Students, Request(i, s) \/ SweepRead(i, s)
      PROVE  Inv'
  BY <1>7, RequestKeeps
<1>8. ASSUME NEW i \in Instances, NEW s \in Students, SweepSkip(i, s) PROVE Inv'
  BY <1>0, <1>8, IdleStep DEF SweepSkip, C!SweepSkip, DataOK
<1>9. CASE UNCHANGED vars
  BY <1>0, <1>9, IdleStep DEF vars, DataOK
<1> QED
  BY <1>1, <1>2, <1>3, <1>4, <1>5, <1>6, <1>7, <1>8, <1>9 DEF Next

LEMMA InvInitially == Init => Inv
<1> SUFFICES ASSUME Init PROVE Inv
  OBVIOUS
<1>1. \A i \in Instances : HeldBy(txn[i])
  BY DEF Init, Idle, HeldBy
<1>2. \A s \in Students : Shown(s)
  BY SameRows DEF Init, C!Init, Shown, C!Exists, C!InProgress, Unmarked
<1> QED
  BY <1>1, <1>2, InitTyped DEF Inv

LEMMA InvHolds == Spec => []Inv
BY InvInitially, InvInductive, PTL DEF Spec

-----------------------------------------------------------------------------
(***************************************************************************)
(* Whatever overlaps.                                                      *)
(***************************************************************************)

\* The variables stay in their types.
THEOREM TypeCorrect == Spec => []TypeOK
<1>1. Inv => TypeOK
  BY DEF Inv
<1> QED
  BY <1>1, InvHolds, PTL

\* An open attempt carries no score, and marks only on answers that outlived the
\* reattempt it was opened by.
THEOREM OpenUnmarked == Spec => []OpenIsUnmarked
<1>1. Inv => OpenIsUnmarked
  BY DEF Inv, Shown, OpenIsUnmarked
<1> QED
  BY <1>1, InvHolds, PTL

\* Answers are stored only for questions the candidate was shown.
THEOREM AnswersOnPaper == Spec => []AnswersAreOnPaper
<1>1. Inv => AnswersAreOnPaper
  BY DEF Inv, Shown, AnswersAreOnPaper, NoAnswers
<1> QED
  BY <1>1, InvHolds, PTL

\* A candidate's questions stay the same and his attempt is never replaced.
THEOREM QuestionsFixed == Spec => QuestionsAreFixed
<1>1. ASSUME Inv, [Next]_vars PROVE \A s \in Students : Fixed(s)
  <2>1. CASE \E i \in Instances : Continue(i) /\ ~ReadsOn(i)
    BY <1>1, <2>1, StartWriteKeeps, SaveWriteKeeps, SubmitWriteKeeps, GrantWriteKeeps,
       ExtendPaperWriteKeeps, ReattemptWriteKeeps, EventWriteKeeps DEF Continue, ReadsOn, Result
  <2>2. CASE attempt' = attempt
    BY <2>2 DEF Fixed, C!Exists
  <2>3. ASSUME NEW i \in Instances, NEW t, Begin(i, t) PROVE attempt' = attempt
    BY <2>3 DEF Begin, data
  <2>4. ASSUME NEW i \in Instances, NEW s \in Students, Request(i, s) \/ SweepRead(i, s)
        PROVE  attempt' = attempt
    BY <2>3, <2>4 DEF Request, StartRead, SaveRead, SubmitRead, SweepRead, GrantRead,
                      ReattemptRead, EventRead
  <2>5. ASSUME NEW i \in Instances,
               ReadsOn(i) \/ Rollback(i) \/ SweepList(i)
               \/ (\E d \in Extensions : ExtendPaperBegin(i, d))
               \/ (\E s \in Students : SweepSkip(i, s))
        PROVE  attempt' = attempt
    BY <1>1, <2>3, <2>5, ReadsOnKeeps DEF data, Rollback, SweepList, C!SweepList,
                      ExtendPaperBegin, SweepSkip, C!SweepSkip
  <2>6. CASE Tick \/ SweepAbandon \/ UNCHANGED vars
    BY <2>2, <2>6 DEF Tick, C!Tick, SweepAbandon, C!SweepAbandon, vars
  <2> QED
    BY <1>1, <2>1, <2>2, <2>4, <2>5, <2>6 DEF Next
<1>2. Inv /\ [Next]_vars =>
        [\A s \in Students : C!Exists(s) =>
            attempt'[s] # Null /\ attempt'[s].order = attempt[s].order]_vars
  BY <1>1 DEF Fixed
<1> QED
  BY <1>2, InvHolds, PTL DEF Spec, QuestionsAreFixed

-----------------------------------------------------------------------------
(***************************************************************************)
(* A settled attempt.  The handlers check the status in the transaction    *)
(* that writes, so after a close only those that read it open can write.   *)
(***************************************************************************)
Reader(t) == t.op \in {"save", "submit", "mark", "grant", "event"}

SameRows3(s) ==
    attempt'[s] = attempt[s] /\ answers'[s] = answers[s] /\ awarded'[s] = awarded[s]

LEMMA SettledMeans ==
  ASSUME NEW s \in Students
  PROVE  /\ Settled(s) <=> C!IsClosed(s) /\ \A i \in Instances : Reader(txn[i]) => txn[i].s # s
         /\ Settled(s)' <=> C!IsClosed(s)' /\ \A i \in Instances : Reader(txn'[i]) => txn'[i].s # s
BY DEF Settled, Reader

LEMMA ClosedNotOpen ==
  ASSUME NEW s \in Students, C!IsClosed(s)
  PROVE  C!Exists(s) /\ ~C!InProgress(s)
BY SameRows, OpenNotClosed DEF C!IsClosed, C!InProgress

\* A step after which instance i holds t, and the rows of s are as they were.
LEMMA SettledStays ==
  ASSUME Inv, NEW s \in Students, Settled(s), SameRows3(s),
         NEW i \in Instances, NEW t, txn' = [txn EXCEPT ![i] = t], Reader(t) => t.s # s
  PROVE  Settled(s)'
<1>0. txn \in [Instances -> Txn]
  BY TypeMeans DEF Inv
<1>1. ASSUME NEW j \in Instances, Reader(txn'[j]) PROVE txn'[j].s # s
  BY <1>0, <1>1, SettledMeans
<1>2. C!IsClosed(s)'
  BY SettledMeans DEF SameRows3, C!IsClosed, C!Exists
<1> QED
  BY <1>1, <1>2, SettledMeans

\* A transaction that begins has either read s open, or writes nothing to it.
LEMMA BeginSettled ==
  ASSUME Inv, NEW s \in Students, Settled(s), NEW i \in Instances,
         NEW t, Begin(i, t), Reader(t) => C!InProgress(t.s)
  PROVE  Settled(s)' /\ SameRows3(s)
<1>1. SameRows3(s) /\ txn' = [txn EXCEPT ![i] = t]
  BY DEF Begin, data, SameRows3
<1>2. Reader(t) => t.s # s
  BY SettledMeans, ClosedNotOpen
<1> QED
  BY <1>1, <1>2, SettledStays

\* What ends writes to a settled attempt only if it opens a new sitting.
LEMMA WriteSettled ==
  ASSUME Inv, NEW s \in Students, Settled(s), sitting'[s] = sitting[s],
         NEW i \in Instances, Continue(i), ~ReadsOn(i)
  PROVE  SameRows3(s) /\ Finish(i)
<1> DEFINE t == txn[i]
<1>0. DataOK /\ t \in Txn /\ C!Exists(s) /\ ~C!InProgress(s) /\ (Reader(t) => t.s # s)
  BY TypeMeans, SettledMeans, ClosedNotOpen DEF Inv
<1>1. CASE StartWrite(i)
  <2>1. CASE C!Exists(t.s)
    BY <1>1, <2>1 DEF StartWrite, data, SameRows3
  <2>2. CASE ~C!Exists(t.s)
    BY <1>0, <1>1, <2>2 DEF StartWrite, SameRows3, DataOK
  <2> QED
    BY <1>1, <2>1, <2>2 DEF StartWrite
<1>2. CASE SaveWrite(i)
  BY <1>0, <1>2 DEF SaveWrite, SameRows3, DataOK, Reader
<1>3. CASE SubmitWrite(i)
  BY <1>0, <1>3 DEF SubmitWrite, SameRows3, DataOK, Reader
<1>4. CASE GrantWrite(i)
  <2>1. t.s # s /\ t.s \in Students
    BY <1>0, <1>4, TxnKinds DEF GrantWrite, Reader
  <2> QED
    BY <1>0, <1>4, <2>1 DEF GrantWrite, SameRows3, DataOK
<1>5. CASE ExtendPaperWrite(i)
  BY <1>0, <1>5 DEF ExtendPaperWrite, C!AddTime, SameRows3
<1>6. CASE ReattemptWrite(i)
  <2>1. t.s # s
    <3>1. CASE t.s = s
      <4>1. sitting'[s] = sitting[s] + 1
        BY <1>0, <1>6, <3>1 DEF ReattemptWrite, DataOK
      <4>2. sitting[s] \in Nat
        BY <1>0 DEF DataOK
      <4> QED
        BY <4>1, <4>2
    <3> QED
      BY <3>1
  <2> QED
    BY <1>0, <1>6, <2>1 DEF ReattemptWrite, SameRows3, DataOK
<1>7. CASE EventWrite(i)
  <2>1. t.s # s /\ t.s \in Students
    BY <1>0, <1>7, TxnKinds DEF EventWrite, Reader
  <2> QED
    BY <1>0, <1>7, <2>1 DEF EventWrite, SameRows3, DataOK
<1> QED
  BY <1>1, <1>2, <1>3, <1>4, <1>5, <1>6, <1>7
  DEF Continue, ReadsOn, SaveWrite, SubmitWrite, GrantWrite, ExtendPaperWrite, ReattemptWrite,
      EventWrite

LEMMA SettledStep ==
  ASSUME Inv, [Next]_vars, NEW s \in Students, Settled(s), sitting'[s] = sitting[s]
  PROVE  Settled(s)' /\ SameRows3(s)
<1>1. ASSUME UNCHANGED <<attempt, answers, awarded, txn>> PROVE Settled(s)' /\ SameRows3(s)
  <2>1. C!IsClosed(s)'
    BY <1>1, SettledMeans DEF C!IsClosed, C!Exists
  <2> QED
    BY <1>1, <2>1, SettledMeans DEF SameRows3
<1>2. CASE Tick \/ SweepAbandon \/ UNCHANGED vars
  BY <1>1, <1>2 DEF Tick, C!Tick, SweepAbandon, C!SweepAbandon, vars
<1>3. ASSUME NEW i \in Instances, Continue(i) PROVE Settled(s)' /\ SameRows3(s)
  <2>1. CASE ReadsOn(i)
    <3>1. PICK t \in Txn :
             /\ txn' = [txn EXCEPT ![i] = t] /\ t.s = txn[i].s
             /\ txn[i].op = "submit" \/ t.op = "reopen"
      BY <2>1, ReadsOnKeeps
    <3>2. Reader(t) => t.s # s
      BY <3>1, SettledMeans DEF Reader
    <3>3. SameRows3(s)
      BY <2>1, ReadsOnKeeps DEF data, SameRows3
    <3> QED
      BY <3>1, <3>2, <3>3, SettledStays
  <2>2. CASE ~ReadsOn(i)
    <3>1. SameRows3(s) /\ txn' = [txn EXCEPT ![i] = Idle]
      BY <1>3, <2>2, WriteSettled DEF Finish
    <3> QED
      BY <3>1, SettledStays DEF Reader, Idle
  <2> QED
    BY <2>1, <2>2
<1>4. ASSUME NEW i \in Instances, Rollback(i) PROVE Settled(s)' /\ SameRows3(s)
  <2>1. SameRows3(s) /\ txn' = [txn EXCEPT ![i] = Idle]
    BY <1>4 DEF Rollback, SameRows3
  <2> QED
    BY <2>1, SettledStays DEF Reader, Idle
<1>5. ASSUME NEW i \in Instances, NEW u \in Students,
             SweepList(i) \/ SweepSkip(i, u)
      PROVE  Settled(s)' /\ SameRows3(s)
  BY <1>1, <1>5 DEF SweepList, C!SweepList, SweepSkip, C!SweepSkip
<1>6. ASSUME NEW i \in Instances, NEW d \in Extensions, ExtendPaperBegin(i, d)
      PROVE  Settled(s)' /\ SameRows3(s)
  BY <1>6, BeginSettled DEF ExtendPaperBegin, Reader
<1>7. ASSUME NEW i \in Instances, NEW u \in Students, Request(i, u) \/ SweepRead(i, u)
      PROVE  Settled(s)' /\ SameRows3(s)
  BY <1>7, BeginSettled DEF Request, StartRead, SaveRead, SubmitRead, SweepRead, GrantRead,
                           ReattemptRead, EventRead, Reader
<1> QED
  BY <1>2, <1>3, <1>4, <1>5, <1>6, <1>7 DEF Next

\* Until a reattempt is granted, nothing changes an attempt that is closed and
\* that no open transaction has read open.
THEOREM SettledFinal == Spec => SettledIsFinal
<1>1. Inv /\ [Next]_vars =>
        [\A s \in Students : Settled(s) /\ sitting'[s] = sitting[s] =>
            /\ Settled(s)'
            /\ <<attempt'[s], answers'[s], awarded'[s]>>
                  = <<attempt[s], answers[s], awarded[s]>>]_vars
  BY SettledStep DEF SameRows3
<1> QED
  BY <1>1, InvHolds, PTL DEF Spec, SettledIsFinal

-----------------------------------------------------------------------------
(***************************************************************************)
(* The sweeper.                                                            *)
(***************************************************************************)
AutoTxn(t) == t.op \in {"submit", "mark"} /\ t.mode = "auto"

LEMMA SweepMeans ==
  /\ AutoOpen <=> \E i \in Instances : AutoTxn(txn[i])
  /\ SweepIsSequential <=>
       \A i \in Instances : AutoTxn(txn[i]) =>
          txn[i].s \in due /\ \A j \in Instances : AutoTxn(txn[j]) => j = i
  /\ SweepIsSequential' <=>
       \A i \in Instances : AutoTxn(txn'[i]) =>
          txn'[i].s \in due' /\ \A j \in Instances : AutoTxn(txn'[j]) => j = i
BY DEF AutoOpen, SweepIsSequential, AutoTxn

\* A step that starts no transaction of the sweeper and keeps the list, or one
\* after which none is open.
LEMMA SweepStays ==
  ASSUME SweepIsSequential, NEW i \in Instances,
         \A j \in Instances \ {i} : txn'[j] = txn[j],
         AutoTxn(txn'[i]) => AutoTxn(txn[i]) /\ txn'[i].s = txn[i].s,
         (AutoTxn(txn[i]) /\ ~AutoTxn(txn'[i])) \/ due \subseteq due'
  PROVE  SweepIsSequential'
BY SweepMeans

LEMMA SweepStep == Inv /\ SweepIsSequential /\ [Next]_vars => SweepIsSequential'
<1> SUFFICES ASSUME Inv, SweepIsSequential, [Next]_vars PROVE SweepIsSequential'
  OBVIOUS
<1>0. txn \in [Instances -> Txn]
  BY TypeMeans DEF Inv
<1>1. CASE txn' = txn /\ due \subseteq due'
  BY <1>1, SweepMeans
<1>2. CASE txn' = txn /\ ~AutoOpen
  BY <1>2, SweepMeans
<1>3. CASE Tick \/ UNCHANGED vars
  BY <1>1, <1>3 DEF Tick, C!Tick, vars
<1>4. CASE SweepAbandon
  BY <1>2, <1>4 DEF SweepAbandon
<1>5. ASSUME NEW i \in Instances, Finish(i), due' = due PROVE SweepIsSequential'
  BY <1>0, <1>5, SweepStays DEF Finish, Idle, AutoTxn
<1>6. ASSUME NEW i \in Instances, NEW t, Begin(i, t), ~AutoTxn(t) PROVE SweepIsSequential'
  BY <1>0, <1>6, SweepStays DEF Begin, data
<1>7. ASSUME NEW i \in Instances, Continue(i) PROVE SweepIsSequential'
  <2>1. CASE ReadsOn(i)
    BY <1>0, <2>1, ReadsOnKeeps, SweepStays DEF data, AutoTxn
  <2>2. CASE SubmitWrite(i)
    <3>1. txn' = [txn EXCEPT ![i] = Idle] /\ txn[i].op = "mark"
      BY <2>2 DEF SubmitWrite, Finish
    <3>2. CASE AutoTxn(txn[i])
      BY <1>0, <3>1, <3>2, SweepStays DEF AutoTxn, Idle
    <3>3. CASE ~AutoTxn(txn[i])
      BY <1>5, <2>2, <3>1, <3>3 DEF SubmitWrite, AutoTxn
    <3> QED
      BY <3>2, <3>3
  <2>3. CASE ~ReadsOn(i) /\ ~SubmitWrite(i)
    BY <1>5, <1>7, <2>3 DEF Continue, ReadsOn, StartWrite, SaveWrite, GrantWrite, ExtendPaperWrite,
                            C!AddTime, ReattemptWrite, EventWrite, data
  <2> QED
    BY <2>1, <2>2, <2>3
<1>8. ASSUME NEW i \in Instances, Rollback(i) PROVE SweepIsSequential'
  <2>1. txn' = [txn EXCEPT ![i] = Idle]
    BY <1>8 DEF Rollback
  <2> QED
    BY <1>0, <1>8, <2>1, SweepStays DEF Rollback, AutoTxn, Idle
<1>9. ASSUME NEW i \in Instances, SweepList(i) PROVE SweepIsSequential'
  BY <1>1, <1>9 DEF SweepList, C!SweepList
<1>10. ASSUME NEW i \in Instances, NEW d \in Extensions, ExtendPaperBegin(i, d)
       PROVE  SweepIsSequential'
  BY <1>6, <1>10 DEF ExtendPaperBegin, AutoTxn
<1>11. ASSUME NEW i \in Instances, NEW s \in Students, Request(i, s)
       PROVE  SweepIsSequential'
  BY <1>6, <1>11 DEF Request, StartRead, SaveRead, SubmitRead, GrantRead, ReattemptRead,
                     EventRead, AutoTxn
<1>12. ASSUME NEW i \in Instances, NEW s \in Students, SweepRead(i, s)
       PROVE  SweepIsSequential'
  <2>1. /\ ~AutoOpen /\ s \in due /\ due' = due
        /\ txn' = [txn EXCEPT ![i] = [op |-> "submit", s |-> s, mode |-> "auto"]]
    BY <1>12 DEF SweepRead, Begin, data
  <2>2. \A j \in Instances : AutoTxn(txn'[j]) => j = i
    BY <1>0, <2>1, SweepMeans
  <2>3. txn'[i].s = s
    BY <1>0, <2>1
  <2> QED
    BY <2>1, <2>2, <2>3, SweepMeans
<1>13. ASSUME NEW i \in Instances, NEW s \in Students, SweepSkip(i, s)
       PROVE  SweepIsSequential'
  BY <1>2, <1>13 DEF SweepSkip
<1> QED
  BY <1>3, <1>4, <1>7, <1>8, <1>9, <1>10, <1>11, <1>12, <1>13 DEF Next

LEMMA SweepHolds == Spec => []SweepIsSequential
<1>1. Init => SweepIsSequential
  BY DEF Init, Idle, SweepIsSequential
<1> QED
  BY <1>1, SweepStep, InvHolds, PTL DEF Spec

\* The sweeper works through its list one transaction at a time.
THEOREM SweepSequential == Spec => []SweepIsSequential
BY SweepHolds

-----------------------------------------------------------------------------
(***************************************************************************)
(* Refinement.                                                             *)
(***************************************************************************)
LEMMA SameDraw == C!kSubset(C!Take, Questions) = kSubset(Take, Questions)
<1>1. \A S : C!Cardinality(S) = Cardinality(S)
  BY DEF C!Cardinality, Cardinality
<1> QED
  BY <1>1 DEF C!kSubset, kSubset, C!Take, Take

LEMMA SameOperators ==
  /\ \A order, time : C!Opened(order, time) = Opened(order, time)
  /\ \A a, time : C!Reopened(a, time) = Reopened(a, time)
  /\ \A a : C!Deadline(a) = Deadline(a)
  /\ \A a, d : C!Extended(a, d) = Extended(a, d)
  /\ \A a, mode, seen : C!ClosedAs(a, mode, seen) = ClosedAs(a, mode, seen)
  /\ \A order, seen, rows, old :
       C!Marked(order, seen, rows, old) = Marked(order, seen, rows, old)
<1>1. \A order, seen : C!Credited(order, seen) = Credited(order, seen)
  BY DEF C!Credited, Credited, C!Markable, Markable
<1>2. \A a, mode, seen : C!ClosedAs(a, mode, seen) = ClosedAs(a, mode, seen)
  BY <1>1 DEF C!ClosedAs, ClosedAs
<1>3. \A order, seen, rows, old :
         C!Marked(order, seen, rows, old) = Marked(order, seen, rows, old)
  BY DEF C!Marked, Marked, C!Markable, Markable
<1> QED
  BY <1>2, <1>3 DEF C!Opened, Opened, C!Reopened, Reopened, C!Deadline, Deadline,
                    C!Extended, Extended

(***************************************************************************)
(* What a transaction has read stays true while no other instance writes   *)
(* to the attempts it touches.                                             *)
(***************************************************************************)
Current(t) ==
    /\ t.op = "start" => ~C!Exists(t.s) /\ now \in Window
    /\ t.op = "save" =>
          /\ C!InProgress(t.s)
          /\ now <= Deadline(attempt[t.s])
          /\ t.q \in attempt[t.s].order
    /\ t.op \in {"submit", "mark"} => C!InProgress(t.s)
    /\ t.op = "mark" => t.seen = answers[t.s]
    /\ t.op = "grant" =>
          /\ C!InProgress(t.s)
          /\ t.extension = attempt[t.s].extension
          /\ t.expiresAt = attempt[t.s].expiresAt
          /\ t.extension + t.d <= MaxExtension
    /\ t.op = "extendPaper" => C!RoomToExtend(t.d)
    /\ t.op \in {"reattempt", "reopen"} => C!IsClosed(t.s) /\ sitting[t.s] < MaxSittings
    /\ t.op = "reopen" => t.gone = Stored(t.s)
    /\ t.op = "event" =>
          C!InProgress(t.s) /\ attempt[t.s].incidents < MaxIncidents

LEMMA CurrentMeans ==
  /\ ReadIsCurrent <=> \A i \in Instances : Current(txn[i])
  /\ ReadIsCurrent' <=> \A i \in Instances : Current(txn[i])'
BY DEF ReadIsCurrent, Current

\* The attempts an open transaction can write.
LEMMA TouchesMeans ==
  ASSUME NEW t \in Txn
  PROVE  /\ t.op = "extendPaper" => Touches(t) = Students
         /\ t.op \notin {"idle", "extendPaper"} => Touches(t) = {t.s}
         /\ Touches(t) \subseteq Students
BY TxnKinds DEF Touches

SameRow(s) ==
    attempt'[s] = attempt[s] /\ answers'[s] = answers[s] /\ sitting'[s] = sitting[s]

LEMMA CurrentFrame ==
  ASSUME NEW t \in Txn, Current(t), \A s \in Touches(t) : SameRow(s),
         now' = now \/ t.op \notin {"start", "save"}
  PROVE  Current(t)'
<1>1. CASE t.op = "idle"
  BY <1>1 DEF Current
<1>2. CASE t.op = "extendPaper"
  <2>1. \A s \in Students : SameRow(s)
    BY <1>2, TouchesMeans
  <2> QED
    BY <1>2, <2>1 DEF Current, SameRow, C!RoomToExtend, C!InProgress, C!Exists
<1>3. CASE t.op \notin {"idle", "extendPaper"}
  <2>1. SameRow(t.s)
    BY <1>3, TouchesMeans
  <2> QED
    BY <1>3, <2>1 DEF Current, SameRow, C!InProgress, C!Exists, C!IsClosed, Stored
<1> QED
  BY <1>1, <1>2, <1>3

\* A step of instance i that writes only what its transaction touches.
LEMMA OthersCurrent ==
  ASSUME Inv, NoOverlap, ReadIsCurrent, now' = now,
         NEW i \in Instances, NEW t \in Txn, txn' = [txn EXCEPT ![i] = t], Current(t)',
         \A s \in Students \ Touches(txn[i]) : SameRow(s)
  PROVE  ReadIsCurrent'
<1>0. txn \in [Instances -> Txn]
  BY TypeMeans DEF Inv
<1>1. ASSUME NEW j \in Instances PROVE Current(txn[j])'
  <2>1. CASE j = i
    <3>1. txn'[j] = t
      BY <1>0, <2>1
    <3> QED
      BY <3>1 DEF Current
  <2>2. CASE j # i
    <3>1. txn'[j] = txn[j] /\ txn[j] \in Txn /\ Current(txn[j])
      BY <1>0, <2>2, CurrentMeans
    <3>2. \A s \in Touches(txn[j]) : SameRow(s)
      BY <2>2, <3>1, TouchesMeans DEF NoOverlap
    <3> DEFINE u == txn[j]
    <3>3. \A v \in Txn : v = txn[j] => Current(v)'
      BY <3>1, <3>2, CurrentFrame
    <3> QED
      BY <3>1, <3>3 DEF Current
  <2> QED
    BY <2>1, <2>2
<1> QED
  BY <1>1, CurrentMeans

\* A transaction that has only read: its guard is what it read.
LEMMA BeginCurrent ==
  ASSUME Inv, NoOverlap, ReadIsCurrent, NEW i \in Instances, NEW t \in Txn,
         Begin(i, t), Current(t)
  PROVE  ReadIsCurrent' /\ UNCHANGED C!vars
<1>1. UNCHANGED C!vars /\ UNCHANGED <<now, attempt, answers, sitting>>
  BY DEF Begin, data, C!vars
<1>2. Current(t)'
  BY <1>1, CurrentFrame DEF SameRow
<1> QED
  BY <1>1, <1>2, OthersCurrent DEF Begin, SameRow

\* A transaction that ends.
LEMMA FinishCurrent ==
  ASSUME Inv, NoOverlap, ReadIsCurrent, NEW i \in Instances, Finish(i),
         \A s \in Students \ Touches(txn[i]) : SameRow(s)
  PROVE  ReadIsCurrent'
<1>1. Current(Idle)'
  BY DEF Current, Idle
<1> QED
  BY <1>1, OthersCurrent, IdleTyped DEF Finish

(***************************************************************************)
(* Each write is an operation of the contract.                             *)
(***************************************************************************)
LEMMA WriteRefines ==
  ASSUME Inv, SweepIsSequential, ReadIsCurrent, NEW i \in Instances,
         Continue(i), ~ReadsOn(i)
  PROVE  /\ C!Next
         /\ Finish(i)
         /\ \A s \in Students \ Touches(txn[i]) : SameRow(s)
<1> DEFINE t == txn[i]
<1>0. DataOK /\ t \in Txn /\ Current(t)
  BY TypeMeans, CurrentMeans DEF Inv
<1>1. CASE StartWrite(i)
  <2>1. t.s \in Students /\ ~C!Exists(t.s) /\ now \in Window /\ Touches(t) = {t.s}
    BY <1>0, <1>1, TxnKinds, TouchesMeans DEF StartWrite, Current
  <2>2. C!Start(t.s)
    BY <1>1, <2>1, SameDraw, SameOperators DEF StartWrite, Finish, C!Start
  <2> QED
    BY <1>0, <1>1, <2>1, <2>2 DEF C!Next, StartWrite, SameRow, DataOK
<1>2. CASE SaveWrite(i)
  <2>1. /\ t.s \in Students /\ t.q \in Questions /\ t.o \in Options
        /\ C!InProgress(t.s) /\ now <= Deadline(attempt[t.s]) /\ t.q \in attempt[t.s].order
        /\ Touches(t) = {t.s}
    BY <1>0, <1>2, TxnKinds, TouchesMeans DEF SaveWrite, Current
  <2>2. C!Save(t.s, t.q, t.o)
    BY <1>2, <2>1, SameOperators DEF SaveWrite, Finish, C!Save
  <2> QED
    BY <1>0, <1>2, <2>1, <2>2 DEF C!Next, SaveWrite, SameRow, DataOK
<1>3. CASE SubmitWrite(i)
  <2>1. /\ t.s \in Students /\ t.mode \in Modes
        /\ C!InProgress(t.s) /\ t.seen = answers[t.s] /\ Touches(t) = {t.s}
    BY <1>0, <1>3, TxnKinds, TouchesMeans DEF SubmitWrite, Current
  <2>2. C!Close(t.s, t.mode)
    BY <1>0, <1>3, <2>1, SameOperators DEF SubmitWrite, Finish, C!Close, DataOK
  <2>3. t.mode = "auto" => C!SweepSubmit(t.s)
    BY <1>3, <2>2 DEF SubmitWrite, SweepIsSequential, C!SweepSubmit
  <2>4. t.mode # "auto" => C!Submit(t.s, t.mode)
    BY <1>3, <2>2 DEF SubmitWrite, C!Submit
  <2>5. C!Modes = Modes
    BY DEF C!Modes, Modes
  <2> QED
    BY <1>0, <1>3, <2>1, <2>3, <2>4, <2>5 DEF C!Next, SubmitWrite, SameRow, DataOK
<1>4. CASE GrantWrite(i)
  <2>1. /\ t.s \in Students /\ t.d \in Extensions /\ C!InProgress(t.s)
        /\ t.extension = attempt[t.s].extension
        /\ t.expiresAt = attempt[t.s].expiresAt
        /\ t.extension + t.d <= MaxExtension
        /\ Touches(t) = {t.s}
    BY <1>0, <1>4, TxnKinds, TouchesMeans DEF GrantWrite, Current
  <2>2. attempt' = [attempt EXCEPT ![t.s] = Extended(attempt[t.s], t.d)]
    BY <1>0, <1>4, <2>1 DEF GrantWrite, Extended, DataOK
  <2>3. C!Grant(t.s, t.d)
    BY <1>0, <1>4, <2>1, <2>2, SameOperators DEF GrantWrite, Finish, C!Grant, DataOK
  <2> QED
    BY <1>0, <1>4, <2>1, <2>2, <2>3 DEF C!Next, GrantWrite, SameRow, DataOK
<1>5. CASE ExtendPaperWrite(i)
  <2>1. t.d \in Extensions /\ C!RoomToExtend(t.d) /\ Touches(t) = Students
    BY <1>0, <1>5, TxnKinds, TouchesMeans DEF ExtendPaperWrite, Current
  <2>2. C!ExtendPaper(t.d)
    BY <1>5, <2>1 DEF ExtendPaperWrite, Finish, C!ExtendPaper
  <2> QED
    BY <1>5, <2>1, <2>2 DEF C!Next, ExtendPaperWrite
<1>6. CASE ReattemptWrite(i)
  <2>1. /\ t.s \in Students /\ C!IsClosed(t.s) /\ sitting[t.s] < MaxSittings
        /\ t.gone = Stored(t.s) /\ Touches(t) = {t.s}
    BY <1>0, <1>6, TxnKinds, TouchesMeans DEF ReattemptWrite, Current
  <2>2. Without(answers[t.s], t.gone, Null) = NoAnswers
    BY <2>1 DEF Without, Stored, NoAnswers
  <2>3. Without(awarded[t.s], t.gone, "unmarked") = Unmarked
    BY <2>1 DEF Without, Stored, Unmarked, Inv, Shown
  <2>4. /\ attempt' = [attempt EXCEPT ![t.s] = Reopened(attempt[t.s], now)]
        /\ answers' = [answers EXCEPT ![t.s] = NoAnswers]
        /\ awarded' = [awarded EXCEPT ![t.s] = Unmarked]
        /\ sitting' = [sitting EXCEPT ![t.s] = sitting[t.s] + 1]
        /\ granted' = [granted EXCEPT ![t.s] = 0]
        /\ UNCHANGED <<now, due>> /\ Finish(i)
    BY <1>0, <1>6, <2>1, <2>2, <2>3 DEF ReattemptWrite, Finish, DataOK
  <2>5. C!Reattempt(t.s)
    BY <1>0, <2>1, <2>4, SameOperators, SameRows DEF C!Reattempt, DataOK
  <2> QED
    BY <1>0, <2>1, <2>4, <2>5 DEF C!Next, SameRow, DataOK
<1>7. CASE EventWrite(i)
  <2>1. /\ t.s \in Students /\ C!InProgress(t.s) /\ attempt[t.s].incidents < MaxIncidents
        /\ Touches(t) = {t.s}
    BY <1>0, <1>7, TxnKinds, TouchesMeans DEF EventWrite, Current
  <2>2. C!RecordEvent(t.s)
    BY <1>7, <2>1 DEF EventWrite, Finish, C!RecordEvent
  <2> QED
    BY <1>0, <1>7, <2>1, <2>2 DEF C!Next, EventWrite, SameRow, DataOK
<1> QED
  BY <1>1, <1>2, <1>3, <1>4, <1>5, <1>6, <1>7 DEF Continue, ReadsOn

\* Each read only keeps what its guard has established.
LEMMA ReadRefines ==
  ASSUME Inv, NoOverlap, ReadIsCurrent, NEW i \in Instances, NEW s \in Students,
         Request(i, s) \/ SweepRead(i, s)
  PROVE  ReadIsCurrent' /\ UNCHANGED C!vars
<1>0. DataOK
  BY TypeMeans DEF Inv
<1>1. CASE StartRead(i, s)
  <2>1. [op |-> "start", s |-> s] \in Txn /\ Current([op |-> "start", s |-> s])
    BY <1>1 DEF StartRead, Txn, OtherTxn, Current
  <2> QED
    BY <1>1, <2>1, BeginCurrent DEF StartRead
<1>2. ASSUME NEW q \in Questions, NEW o \in Options, SaveRead(i, s, q, o)
      PROVE  ReadIsCurrent' /\ UNCHANGED C!vars
  <2> DEFINE t == [op |-> "save", s |-> s, q |-> q, o |-> o]
  <2>1. t \in Txn /\ Current(t)
    BY <1>2 DEF SaveRead, Txn, SaveTxn, Current
  <2> QED
    BY <1>2, <2>1, BeginCurrent DEF SaveRead
<1>3. ASSUME NEW mode \in Modes, C!InProgress(s),
             Begin(i, [op |-> "submit", s |-> s, mode |-> mode])
      PROVE  ReadIsCurrent' /\ UNCHANGED C!vars
  <2> DEFINE t == [op |-> "submit", s |-> s, mode |-> mode]
  <2>1. t \in Txn /\ Current(t)
    BY <1>3 DEF Txn, SubmitTxn, Current
  <2> QED
    BY <1>3, <2>1, BeginCurrent
<1>4. ASSUME NEW mode \in Modes, SubmitRead(i, s, mode)
      PROVE  ReadIsCurrent' /\ UNCHANGED C!vars
  BY <1>3, <1>4 DEF SubmitRead
<1>5. CASE SweepRead(i, s)
  BY <1>3, <1>5 DEF SweepRead, Modes
<1>6. ASSUME NEW d \in Extensions, GrantRead(i, s, d)
      PROVE  ReadIsCurrent' /\ UNCHANGED C!vars
  <2> DEFINE t == [op |-> "grant", s |-> s, d |-> d,
                   expiresAt |-> attempt[s].expiresAt,
                   extension |-> attempt[s].extension]
  <2>1. attempt[s] \in Attempt
    BY <1>0, <1>6 DEF GrantRead, C!InProgress, C!Exists, DataOK
  <2>2. t \in Txn
    BY <2>1 DEF Txn, GrantTxn, Attempt
  <2>3. Current(t)
    BY <1>6 DEF GrantRead, Current
  <2> QED
    BY <1>6, <2>2, <2>3, BeginCurrent DEF GrantRead
<1>7. CASE ReattemptRead(i, s)
  <2>1. [op |-> "reattempt", s |-> s] \in Txn /\ Current([op |-> "reattempt", s |-> s])
    BY <1>7 DEF ReattemptRead, Txn, OtherTxn, Current
  <2> QED
    BY <1>7, <2>1, BeginCurrent DEF ReattemptRead
<1>8. CASE EventRead(i, s)
  <2>1. [op |-> "event", s |-> s] \in Txn /\ Current([op |-> "event", s |-> s])
    BY <1>8 DEF EventRead, Txn, OtherTxn, Current
  <2> QED
    BY <1>8, <2>1, BeginCurrent DEF EventRead
<1> QED
  BY <1>1, <1>2, <1>4, <1>5, <1>6, <1>7, <1>8 DEF Request

SerialInv == Inv /\ SweepIsSequential /\ NoOverlap /\ ReadIsCurrent

LEMMA SerialStep ==
  ASSUME SerialInv, [SerialNext]_vars
  PROVE  SerialInv' /\ [C!Next]_C!vars
<1>0. Inv /\ SweepIsSequential /\ NoOverlap /\ ReadIsCurrent /\ [Next]_vars
  BY DEF SerialInv, SerialNext
<1>1. Inv' /\ SweepIsSequential'
  BY <1>0, InvInductive, SweepStep
<1>2. NoOverlap'
  BY DEF SerialNext, SerialInv, NoOverlap, vars
<1>3. DataOK /\ txn \in [Instances -> Txn]
  BY <1>0, TypeMeans DEF Inv
<1>4. ASSUME UNCHANGED <<attempt, answers, sitting, txn>>, now' = now \/ ~ClockCompared
      PROVE  ReadIsCurrent'
  <2>1. ASSUME NEW i \in Instances PROVE Current(txn[i])'
    <3>1. Current(txn[i]) /\ txn[i] \in Txn
      BY <1>0, <1>3, CurrentMeans
    <3>2. \A t \in Txn : t = txn[i] => Current(t)'
      BY <1>4, <3>1, CurrentFrame DEF SameRow, ClockCompared
    <3> QED
      BY <1>4, <3>1, <3>2 DEF Current
  <2> QED
    BY <2>1, CurrentMeans
<1>5. ASSUME Tick PROVE ReadIsCurrent' /\ C!Next
  <2>1. now' # now
    BY <1>3, <1>5 DEF Tick, C!Tick, DataOK
  <2>2. ~ClockCompared
    BY <1>5, <2>1 DEF SerialNext, vars, Tick
  <2> QED
    BY <1>4, <1>5, <2>2 DEF Tick, C!Tick, C!Next
<1>6. ASSUME SweepAbandon PROVE ReadIsCurrent' /\ C!Next
  BY <1>4, <1>6 DEF SweepAbandon, C!SweepAbandon, C!Next
<1>7. ASSUME NEW i \in Instances, Continue(i) PROVE ReadIsCurrent' /\ [C!Next]_C!vars
  <2>1. CASE ReadsOn(i)
    <3>1. UNCHANGED C!vars /\ UNCHANGED <<now, attempt, answers, sitting>>
      BY <1>0, <2>1, ReadsOnKeeps DEF data, C!vars
    <3>2. PICK t \in Txn :
             /\ txn' = [txn EXCEPT ![i] = t] /\ t.s = txn[i].s
             /\ \/ txn[i].op = "submit" /\ t.op = "mark" /\ t.seen = answers[t.s]
                \/ txn[i].op = "reattempt" /\ t.op = "reopen" /\ t.gone = Stored(t.s)
      BY <1>0, <2>1, ReadsOnKeeps
    <3>3. Current(t)
      BY <1>0, <3>2, CurrentMeans DEF Current
    <3>4. Current(t)'
      BY <3>1, <3>3, CurrentFrame DEF SameRow
    <3> QED
      BY <1>0, <3>1, <3>2, <3>4, OthersCurrent DEF SameRow
  <2>2. CASE ~ReadsOn(i)
    BY <1>0, <1>7, <2>2, WriteRefines, FinishCurrent
  <2> QED
    BY <2>1, <2>2
<1>8. ASSUME NEW i \in Instances, Rollback(i) PROVE ReadIsCurrent' /\ [C!Next]_C!vars
  <2>1. Current(Idle)'
    BY DEF Current, Idle
  <2>2. ReadIsCurrent'
    BY <1>0, <1>8, <2>1, OthersCurrent, IdleTyped DEF Rollback, SameRow
  <2>3. CASE due' = due
    BY <1>8, <2>2, <2>3 DEF Rollback, C!vars
  <2>4. CASE due' # due
    <3>1. due # {} /\ C!SweepAbandon
      BY <1>8, <2>4 DEF Rollback, C!SweepAbandon
    <3> QED
      BY <2>2, <3>1 DEF C!Next
  <2> QED
    BY <2>3, <2>4
<1>9. ASSUME NEW i \in Instances, SweepList(i) PROVE ReadIsCurrent' /\ C!Next
  BY <1>4, <1>9 DEF SweepList, C!SweepList, C!Next
<1>10. ASSUME NEW i \in Instances, NEW d \in Extensions, ExtendPaperBegin(i, d)
       PROVE  ReadIsCurrent' /\ UNCHANGED C!vars
  <2>1. /\ [op |-> "extendPaper", d |-> d] \in Txn
        /\ Current([op |-> "extendPaper", d |-> d])
    BY <1>10 DEF ExtendPaperBegin, Txn, PaperTxn, Current
  <2> QED
    BY <1>0, <1>10, <2>1, BeginCurrent DEF ExtendPaperBegin
<1>11. ASSUME NEW i \in Instances, NEW s \in Students, Request(i, s) \/ SweepRead(i, s)
       PROVE  ReadIsCurrent' /\ UNCHANGED C!vars
  BY <1>0, <1>11, ReadRefines
<1>12. ASSUME NEW i \in Instances, NEW s \in Students, SweepSkip(i, s)
       PROVE  ReadIsCurrent' /\ C!Next
  BY <1>4, <1>12 DEF SweepSkip, C!SweepSkip, C!Next
<1>13. ASSUME UNCHANGED vars PROVE ReadIsCurrent' /\ UNCHANGED C!vars
  BY <1>4, <1>13 DEF vars, C!vars
<1>14. ReadIsCurrent' /\ [C!Next]_C!vars
  BY <1>0, <1>5, <1>6, <1>7, <1>8, <1>9, <1>10, <1>11, <1>12, <1>13
  DEF Next
<1> QED
  BY <1>1, <1>2, <1>14 DEF SerialInv

LEMMA SerialHolds == SerialSpec => []SerialInv
<1>1. Init => SerialInv
  <2> SUFFICES ASSUME Init PROVE SerialInv
    OBVIOUS
  <2>1. \A i \in Instances : txn[i] = Idle
    BY DEF Init
  <2>2. NoOverlap
    BY <2>1 DEF NoOverlap, Touches, Idle
  <2>3. SweepIsSequential /\ ReadIsCurrent
    BY <2>1, CurrentMeans DEF SweepIsSequential, Current, Idle
  <2> QED
    BY <2>2, <2>3, InvInitially DEF SerialInv
<1> QED
  BY <1>1, SerialStep, PTL DEF SerialSpec

\* What a transaction decided on still holds when it writes, if transactions on
\* the same attempt do not overlap.
THEOREM ReadsCurrent == SerialSpec => []ReadIsCurrent
<1>1. SerialInv => ReadIsCurrent
  BY DEF SerialInv
<1> QED
  BY <1>1, SerialHolds, PTL

\* Then the engine is the contract: each operation takes effect at one moment.
THEOREM EngineImplementsContract == SerialSpec => ImplementsContract
<1>1. Init => C!Init
  BY DEF Init
<1>2. SerialInv /\ [SerialNext]_vars => [C!Next]_C!vars
  BY SerialStep
<1> QED
  BY <1>1, <1>2, SerialHolds, PTL DEF SerialSpec, ImplementsContract, C!Spec
=============================================================================
