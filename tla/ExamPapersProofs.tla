-------------------------- MODULE ExamPapersProofs --------------------------
(***************************************************************************)
(* Proofs about the papers of an examination.                              *)
(***************************************************************************)
EXTENDS ExamPapers, FiniteSetTheorems, TLAPS

-----------------------------------------------------------------------------
(***************************************************************************)
(* Types.                                                                  *)
(***************************************************************************)
LEMMA SetRow ==
    ASSUME TypeOK, NEW i \in SetIds, sets[i] # None
    PROVE  sets[i] \in QuestionSet
BY DEF TypeOK

LEMMA QuestionRow ==
    ASSUME TypeOK, NEW q \in QuestionIds, questions[q] # None
    PROVE  questions[q] \in Question
BY DEF TypeOK

LEMMA PaperRow ==
    ASSUME TypeOK, NEW p \in PaperIds, papers[p] # None
    PROVE  papers[p] \in Paper
BY DEF TypeOK

Ids == [set : 0..MaxSets, question : 0..MaxQuestions, paper : 0..MaxPapers]

LEMMA LastRow ==
    ASSUME TypeOK
    PROVE  /\ last \in Ids
           /\ last.set \in Nat /\ last.question \in Nat /\ last.paper \in Nat
BY BoundAssumption DEF TypeOK, Ids

LEMMA JobRow ==
    ASSUME TypeOK, NEW o \in Officers, job[o] # None
    PROVE  /\ job[o] \in Job
           /\ \A t \in Topics : job[o].fill[t] # None => job[o].fill[t] \in Fill
BY DEF TypeOK, Job

LEMMA CheckRow ==
    ASSUME TypeOK, NEW o \in Officers, checked[o] # None
    PROVE  checked[o] \in Check
BY DEF TypeOK

LEMMA PublishLeaves ==
    ASSUME NEW o \in Officers, PublishSeries(o)
    PROVE  UNCHANGED <<collecting, sitting, sets, questions, last, job>>
BY DEF PublishSeries, PublishRead, PublishWrite, PublishFails

LEMMA JudgedType ==
    ASSUME TypeOK, NEW I, NEW a \in Approval
    PROVE  Judged(I, a) \in [QuestionIds -> Question \union {None}]
<1>1. \A q \in QuestionIds : questions[q] # None =>
        [questions[q] EXCEPT !.approval = a] \in Question
  BY QuestionRow DEF Question
<1>. QED
  BY <1>1 DEF Judged, TypeOK

\* What a deleted set leaves of a paper.
LEMMA DeleteSetType ==
    ASSUME TypeOK, NEW i \in SetIds, DeleteSet(i)
    PROVE  /\ questions' \in [QuestionIds -> Question \union {None}]
           /\ papers' \in [PaperIds -> Paper \union {None}]
<1>1. \A p \in PaperIds : papers[p] # None =>
        [papers[p] EXCEPT !.pool = @ \ QuestionsOf(i)] \in Paper
  BY PaperRow DEF Paper
<1>. QED
  BY <1>1 DEF DeleteSet, TypeOK

LEMMA FillsType ==
    ASSUME NEW s \in Series, NEW t \in Topics, TypeOK
    PROVE  Fills(s, t) \subseteq Fill \union {None}
<1>1. Ready(s, t) \subseteq {i \in SetIds : sets[i] # None}
  BY DEF Ready, Candidates
<1>2. \A i \in Ready(s, t) : sets[i].written \in BOOLEAN
  BY <1>1, SetRow DEF QuestionSet
<1>3. \A p \in PaperIds \union {None}, i \in Ready(s, t) : From(p, i) \in Fill
  BY <1>1, <1>2 DEF From, Fill
<1>4. NewFills(s, t) \subseteq Fill
  BY <1>3 DEF NewFills
<1>5. OldFills(s, t) \subseteq Fill
  BY <1>3 DEF OldFills, PapersFor
<1>. QED
  BY <1>4, <1>5 DEF Fills

\* The topics of a new paper are finitely many.
LEMMA NewOfFinite ==
    ASSUME NEW j
    PROVE  /\ IsFiniteSet(NewOf(j)) /\ Cardinality(NewOf(j)) \in Nat
<1>1. NewOf(j) \subseteq Topics
  BY DEF NewOf
<1>. QED
  BY <1>1, SeriesAssumption, FS_Subset, FS_CardinalityType

LEMMA PoolType ==
    ASSUME TypeOK, NEW i
    PROVE  Approved(i) \subseteq QuestionIds
BY DEF Approved, QuestionsOf

LEMMA ComposeWriteType ==
    ASSUME TypeOK, NEW o \in Officers, ComposeWrite(o)
    PROVE  /\ papers' \in [PaperIds -> Paper \union {None}]
           /\ last' \in [set : 0..MaxSets, question : 0..MaxQuestions, paper : 0..MaxPapers]
           /\ status' \in [Series -> {"none", "draft", "composed", "published", "gone"}]
           /\ job' \in [Officers -> Job \union {None}]
<1>. DEFINE j == job[o]
            ids == (last.paper + 1)..(last.paper + Cardinality(NewOf(j)))
<1>1. j \in Job /\ \A t \in Topics : j.fill[t] # None => j.fill[t] \in Fill
  BY JobRow DEF ComposeWrite
<1>2. Cardinality(NewOf(j)) \in Nat
  BY NewOfFinite
<1>3. \A t \in NewOf(j) : NewPaper(j, t) \in Paper
  BY <1>1, PoolType DEF NewPaper, NewOf, Paper, Fill, Job
<1>4. \A p \in PaperIds : papers[p] # None => papers[p] \in Paper
  BY PaperRow
<1>5. \A p \in PaperIds : papers[p] # None => Filled(j, p) \in Paper
  BY <1>4, PoolType DEF Filled, Paper
<1>6. PICK topic \in Bijection(ids, NewOf(j)) :
        papers' = [p \in PaperIds |->
                    IF p \in ids THEN NewPaper(j, topic[p])
                    ELSE IF papers[p] # None /\ \E t \in OldOf(j) : j.fill[t].paper = p
                         THEN Filled(j, p)
                    ELSE papers[p]]
  BY DEF ComposeWrite
<1>7. topic \in [ids -> NewOf(j)]
  BY DEF Bijection, Injection
<1>8. papers' \in [PaperIds -> Paper \union {None}]
  BY <1>3, <1>5, <1>6, <1>7 DEF TypeOK
<1>9. last' \in [set : 0..MaxSets, question : 0..MaxQuestions, paper : 0..MaxPapers]
  <2>. DEFINE n == Cardinality(NewOf(j))
  <2>1. last' = [last EXCEPT !.paper = @ + n] /\ last.paper + n <= MaxPapers
    BY DEF ComposeWrite
  <2>2. last \in [set : 0..MaxSets, question : 0..MaxQuestions, paper : 0..MaxPapers]
    BY DEF TypeOK
  <2>3. n \in Nat /\ MaxPapers \in Nat
    BY <1>2, BoundAssumption
  <2>. HIDE DEF n
  <2>. QED
    BY <2>1, <2>2, <2>3
<1>10. status' \in [Series -> {"none", "draft", "composed", "published", "gone"}]
  BY <1>1 DEF ComposeWrite, Composed, TypeOK, Job
<1>11. job' \in [Officers -> Job \union {None}]
  BY DEF ComposeWrite, TypeOK
<1>. QED
  BY <1>8, <1>9, <1>10, <1>11

\* Every step keeps the types of the tables.
LEMMA TypeStep ==
    ASSUME TypeOK, [Next]_vars
    PROVE  TypeOK'
<1>. USE BoundAssumption DEF SetIds, QuestionIds, PaperIds
<1>1. ASSUME NEW s \in Series, CreateSeries(s) PROVE TypeOK'
  BY <1>1 DEF CreateSeries, TypeOK
<1>2. ASSUME NEW s \in Series, NEW P, ScheduleSeries(s, P) PROVE TypeOK'
  <2>1. \A p \in P : p \in PaperIds /\ [papers[p] EXCEPT !.placed = TRUE] \in Paper
    BY <1>2, PaperRow DEF ScheduleSeries, PapersOf, Paper
  <2>. QED
    BY <1>2, <2>1 DEF ScheduleSeries, TypeOK
<1>3. ASSUME NEW o \in Officers, PublishSeries(o) PROVE TypeOK'
  <2>1. CASE \E s \in Series : PublishRead(o, s)
    <3>1. \A s \in Series : [series |-> s, seen |-> PapersOf(s),
                           again |-> status[s] = "published"] \in Check
      BY DEF PapersOf, Check
    <3>. QED
      BY <2>1, <3>1 DEF PublishRead, TypeOK
  <2>2. CASE PublishWrite(o)
    <3>1. \A p \in PaperIds : papers[p] # None =>
                [papers[p] EXCEPT !.published = TRUE] \in Paper
      BY PaperRow DEF Paper
    <3>2. checked[o].series \in Series
      BY <2>2, CheckRow DEF PublishWrite, Check
    <3>3. papers' \in [PaperIds -> Paper \union {None}]
      BY <2>2, <3>1 DEF PublishWrite, Drafts, PapersOf, TypeOK
    <3>. QED
      BY <2>2, <3>2, <3>3 DEF PublishWrite, TypeOK
  <2>3. CASE PublishFails(o)
    BY <2>3 DEF PublishFails, TypeOK
  <2>. QED
    BY <1>3, <2>1, <2>2, <2>3 DEF PublishSeries
<1>4. ASSUME NEW s \in Series, DeleteSeries(s) PROVE TypeOK'
  BY <1>4 DEF DeleteSeries, TypeOK
<1>5. ASSUME NEW c \in Series \union {None}, SaveCollection(c) PROVE TypeOK'
  BY <1>5 DEF SaveCollection, TypeOK
<1>6. ASSUME NEW sc \in Scope, NEW w \in BOOLEAN, FindOrCreateSet(sc, w) PROVE TypeOK'
  <2>1. CASE /\ last.set < MaxSets
             /\ last' = [last EXCEPT !.set = @ + 1]
             /\ sets' = [sets EXCEPT ![last.set + 1] =
                           [scope |-> sc, written |-> w, status |-> "draft"]]
    <3>1. [scope |-> sc, written |-> w, status |-> "draft"] \in QuestionSet
      BY DEF QuestionSet
    <3>2. last' \in Ids
      BY <2>1, LastRow DEF Ids
    <3>3. sets' \in [SetIds -> QuestionSet \union {None}]
      BY <2>1, <3>1 DEF TypeOK
    <3>. QED
      BY <1>6, <3>2, <3>3 DEF FindOrCreateSet, TypeOK, Ids
  <2>2. CASE \E i \in SetIds : /\ Editable(i) /\ sets[i].scope = sc
                               /\ sets' = [sets EXCEPT ![i].written = w]
                               /\ UNCHANGED last
    <3>1. \A i \in SetIds : Editable(i) => [sets[i] EXCEPT !.written = w] \in QuestionSet
      BY SetRow DEF Editable, QuestionSet
    <3>. QED
      BY <1>6, <2>2, <3>1 DEF FindOrCreateSet, TypeOK
  <2>. QED
    BY <1>6, <2>1, <2>2 DEF FindOrCreateSet
<1>7. ASSUME NEW i \in SetIds, AddQuestion(i) PROVE TypeOK'
  <2>1. [set |-> i, approval |-> "pending"] \in Question
    BY DEF Question, Approval
  <2>2. last' \in Ids
    BY <1>7, LastRow DEF AddQuestion, Ids
  <2>3. questions' \in [QuestionIds -> Question \union {None}]
    BY <1>7, <2>1 DEF AddQuestion, TypeOK
  <2>. QED
    BY <1>7, <2>2, <2>3 DEF AddQuestion, TypeOK, Ids
<1>8. ASSUME NEW i \in SetIds, SubmitWritten(i) PROVE TypeOK'
  <2>1. \A st \in {"submitted", "approved"} : [sets[i] EXCEPT !.status = st] \in QuestionSet
    BY <1>8, SetRow DEF SubmitWritten, Editable, QuestionSet
  <2>. QED
    BY <1>8, <2>1 DEF SubmitWritten, TypeOK
<1>9. ASSUME NEW i \in SetIds, SubmitTerminal(i) PROVE TypeOK'
  <2>1. \A k \in SetIds : Editable(k) => [sets[k] EXCEPT !.status = "submitted"] \in QuestionSet
    BY SetRow DEF Editable, QuestionSet
  <2>. QED
    BY <1>9, <2>1 DEF SubmitTerminal, TypeOK
<1>10. ASSUME NEW i \in SetIds, SubmitAlone(i) PROVE TypeOK'
  <2>1. [sets[i] EXCEPT !.status = "approved"] \in QuestionSet
    BY <1>10, SetRow DEF SubmitAlone, Editable, QuestionSet
  <2>2. Judged({i}, "approved") \in [QuestionIds -> Question \union {None}]
    BY JudgedType DEF Approval
  <2>. QED
    BY <1>10, <2>1, <2>2 DEF SubmitAlone, TypeOK
<1>11. ASSUME NEW i \in SetIds, NEW d \in {"approve", "return"}, ReviewSet(i, d) PROVE TypeOK'
  <2>1. \A st \in {"approved", "returned"} : [sets[i] EXCEPT !.status = st] \in QuestionSet
    BY <1>11, SetRow DEF ReviewSet, QuestionSet
  <2>2. \A a \in {"approved", "revision"} :
            Judged({i}, a) \in [QuestionIds -> Question \union {None}]
    BY JudgedType DEF Approval
  <2>. QED
    BY <1>11, <2>1, <2>2 DEF ReviewSet, TypeOK
<1>12. ASSUME NEW i \in SetIds, DeleteSet(i) PROVE TypeOK'
  BY <1>12, DeleteSetType DEF DeleteSet, TypeOK
<1>13. ASSUME NEW p \in PaperIds, ReschedulePaper(p) PROVE TypeOK'
  <2>1. [papers[p] EXCEPT !.placed = TRUE] \in Paper
    BY <1>13, PaperRow DEF ReschedulePaper, Paper
  <2>. QED
    BY <1>13, <2>1 DEF ReschedulePaper, TypeOK
<1>14. ASSUME NEW o \in Officers, NEW s \in Series, ComposeRead(o, s) PROVE TypeOK'
  <2>1. PICK fill \in [Topics -> UNION {Fills(s, t) : t \in Topics}] :
            /\ \A t \in Topics : fill[t] \in Fills(s, t)
            /\ job' = [job EXCEPT ![o] = [series |-> s, fill |-> fill]]
    BY <1>14 DEF ComposeRead
  <2>2. fill \in [Topics -> Fill \union {None}]
    BY <2>1, FillsType
  <2>3. [series |-> s, fill |-> fill] \in Job
    BY <2>2 DEF Job
  <2>4. job' \in [Officers -> Job \union {None}]
    BY <2>1, <2>3 DEF TypeOK
  <2>. QED
    BY <1>14, <2>4 DEF ComposeRead, TypeOK
<1>15. ASSUME NEW o \in Officers, ComposeWrite(o) PROVE TypeOK'
  <2>1. UNCHANGED <<collecting, sitting, sets, questions, checked>>
    BY <1>15 DEF ComposeWrite
  <2>. QED
    BY <1>15, <2>1, ComposeWriteType DEF TypeOK
<1>16. ASSUME NEW o \in Officers, ComposeFails(o) PROVE TypeOK'
  BY <1>16 DEF ComposeFails, TypeOK
<1>17. ASSUME NEW p \in PaperIds, DeletePaper(p) PROVE TypeOK'
  BY <1>17 DEF ReschedulePaper, DeletePaper, TypeOK
<1>18. ASSUME UNCHANGED vars PROVE TypeOK'
  BY <1>18 DEF vars, TypeOK
<1>. QED
  BY <1>1, <1>2, <1>3, <1>4, <1>5, <1>6, <1>7, <1>8, <1>9, <1>10, <1>11, <1>12, <1>13,
     <1>14, <1>15, <1>16, <1>17, <1>18 DEF Next, SubmitSet

(***************************************************************************)
(* The tables keep their types, whatever the bounds.                       *)
(***************************************************************************)
THEOREM TypeCorrect == Spec => []TypeOK
<1>1. Init => TypeOK
  BY BoundAssumption DEF Init, TypeOK
<1>. QED
  BY <1>1, TypeStep, PTL DEF Spec

-----------------------------------------------------------------------------
(***************************************************************************)
(* The inductive invariant.  Between the two halves of a compose other     *)
(* requests delete sets and papers, hand in and review.  What saves the    *)
(* second half is that ids are never given twice (Known): a set or a paper *)
(* a job names is still the one it read, or is no more.                    *)
(***************************************************************************)

\* Rows have ids already given, and a question has its set.
Known ==
    /\ \A i \in SetIds : sets[i] # None => i <= last.set
    /\ \A q \in QuestionIds : questions[q] # None =>
        q <= last.question /\ sets[questions[q].set] # None
    /\ \A p \in PaperIds : papers[p] # None => p <= last.paper

\* What a compose decided for topic t of series s can still be carried out.
FillIsSound(s, t, f) ==
    /\ f.set <= last.set
    /\ sets[f.set] # None => f.set \in Candidates(s) /\ sets[f.set].scope.topic = t
    /\ f.paper # None =>
        /\ f.paper <= last.paper
        /\ papers[f.paper] # None =>
            papers[f.paper].series = s /\ papers[f.paper].topic = t

JobsAreSound ==
    \A o \in Officers, t \in Topics :
        job[o] # None /\ job[o].fill[t] # None =>
            FillIsSound(job[o].series, t, job[o].fill[t])

\* What a publication found of the papers it saw is still so.
ChecksAreSound ==
    \A o \in Officers :
        checked[o] # None /\ Kind[checked[o].series] # "practice" =>
            /\ checked[o].series \in sitting
            /\ \A p \in checked[o].seen :
                /\ p <= last.paper
                /\ papers[p] # None => papers[p].placed

IInv ==
    /\ TypeOK
    /\ Known
    /\ JobsAreSound
    /\ PoolsAreApproved
    /\ PreparingHasNoPapers
    /\ ChecksAreSound
    /\ ApprovedIsWhole

\* No step but a deletion touches an approved set or its questions.
ApprovedKept ==
    \A i \in SetIds : sets[i] # None /\ sets[i].status = "approved" =>
        /\ sets'[i] = sets[i]
        /\ \A q \in QuestionIds :
            questions[q] # None /\ questions[q].set = i => questions'[q] = questions[q]

ApprovedKeptOrLost ==
    \A i \in SetIds : sets[i] # None /\ sets[i].status = "approved" =>
        sets'[i] = sets[i] \/ sets'[i] = None

LEMMA JudgedKeeps ==
    ASSUME NEW i \in SetIds, NEW a, sets[i].status # "approved"
    PROVE  \A q \in QuestionIds :
            questions[q] # None /\ sets[questions[q].set].status = "approved" =>
                Judged({i}, a)[q] = questions[q]
BY DEF Judged

\* What each step that deletes nothing leaves of the approved sets.
LEMMA KeptStep ==
    ASSUME TypeOK, Known, Next,
           ~ \E i \in SetIds : DeleteSet(i)
    PROVE  ApprovedKept
<1>. USE DEF ApprovedKept
<1>1. CASE UNCHANGED <<sets, questions>>
  BY <1>1
<1>2. ASSUME NEW sc \in Scope, NEW w \in BOOLEAN, FindOrCreateSet(sc, w) PROVE ApprovedKept
  <2>1. \A i \in SetIds : sets[i] # None => i # last.set + 1
    BY LastRow DEF Known, SetIds
  <2>. QED
    BY <1>2, <2>1 DEF FindOrCreateSet, Editable, TypeOK
<1>3. ASSUME NEW i \in SetIds, AddQuestion(i) PROVE ApprovedKept
  <2>1. \A q \in QuestionIds : questions[q] # None => q # last.question + 1
    BY LastRow DEF Known, QuestionIds
  <2>. QED
    BY <1>3, <2>1 DEF AddQuestion, TypeOK
<1>4. ASSUME NEW i \in SetIds, SubmitWritten(i) PROVE ApprovedKept
  BY <1>4 DEF SubmitWritten, Editable, TypeOK
<1>5. ASSUME NEW i \in SetIds, SubmitTerminal(i) PROVE ApprovedKept
  BY <1>5 DEF SubmitTerminal, Editable, TypeOK
<1>6. ASSUME NEW i \in SetIds, SubmitAlone(i) PROVE ApprovedKept
  <2>1. sets[i].status # "approved"
    BY <1>6 DEF SubmitAlone, Editable
  <2>2. \A q \in QuestionIds :
            questions[q] # None /\ sets[questions[q].set].status = "approved" =>
                questions'[q] = questions[q]
    BY <1>6, <2>1, JudgedKeeps DEF SubmitAlone
  <2>. QED
    BY <1>6, <2>1, <2>2 DEF SubmitAlone, TypeOK
<1>7. ASSUME NEW i \in SetIds, NEW d \in {"approve", "return"}, ReviewSet(i, d)
      PROVE  ApprovedKept
  <2>1. sets[i].status # "approved"
    BY <1>7 DEF ReviewSet
  <2>2. \A q \in QuestionIds :
            questions[q] # None /\ sets[questions[q].set].status = "approved" =>
                questions'[q] = questions[q]
    BY <1>7, <2>1, JudgedKeeps DEF ReviewSet
  <2>. QED
    BY <1>7, <2>1, <2>2 DEF ReviewSet, TypeOK
<1>8. ASSUME NEW s \in Series,
             \/ CreateSeries(s)
             \/ \E P \in SUBSET PaperIds : ScheduleSeries(s, P)
             \/ DeleteSeries(s)
      PROVE  UNCHANGED <<sets, questions>>
  BY <1>8 DEF CreateSeries, ScheduleSeries, DeleteSeries
<1>9. ASSUME NEW o \in Officers,
              (\E s \in Series : ComposeRead(o, s)) \/ ComposeWrite(o) \/ ComposeFails(o)
              \/ PublishSeries(o)
       PROVE  UNCHANGED <<sets, questions>>
  BY <1>9, PublishLeaves DEF ComposeRead, ComposeWrite, ComposeFails
<1>10. ASSUME \/ \E c \in Series \union {None} : SaveCollection(c)
              \/ \E p \in PaperIds : ReschedulePaper(p) \/ DeletePaper(p)
       PROVE  UNCHANGED <<sets, questions>>
  BY <1>10 DEF SaveCollection, ReschedulePaper, DeletePaper
<1>. HIDE DEF ApprovedKept
<1>. QED
  BY <1>1, <1>2, <1>3, <1>4, <1>5, <1>6, <1>7, <1>8, <1>9, <1>10 DEF Next, SubmitSet

LEMMA KeptOrLostStep ==
    ASSUME TypeOK, Known, Next
    PROVE  ApprovedKeptOrLost
<1>1. CASE \E i \in SetIds : DeleteSet(i)
  BY <1>1 DEF DeleteSet, ApprovedKeptOrLost, TypeOK
<1>2. CASE ~ \E i \in SetIds : DeleteSet(i)
  BY <1>2, KeptStep DEF ApprovedKept, ApprovedKeptOrLost
<1>. QED
  BY <1>1, <1>2

\* What a compose writes: a new paper, one filled, or what was there.
LEMMA WrittenPapers ==
    ASSUME TypeOK, NEW o \in Officers, ComposeWrite(o), NEW p \in PaperIds
    PROVE  \/ p > last.paper /\ \E t \in NewOf(job[o]) : papers'[p] = NewPaper(job[o], t)
           \/ /\ papers[p] # None
              /\ \E t \in OldOf(job[o]) : job[o].fill[t].paper = p
              /\ papers'[p] = Filled(job[o], p)
           \/ papers'[p] = papers[p]
<1>. DEFINE j == job[o]
            ids == (last.paper + 1)..(last.paper + Cardinality(NewOf(j)))
<1>1. PICK topic \in Bijection(ids, NewOf(j)) :
        papers' = [x \in PaperIds |->
                    IF x \in ids THEN NewPaper(j, topic[x])
                    ELSE IF papers[x] # None /\ \E t \in OldOf(j) : j.fill[t].paper = x
                         THEN Filled(j, x)
                    ELSE papers[x]]
  BY DEF ComposeWrite
<1>2. topic \in [ids -> NewOf(j)]
  BY DEF Bijection, Injection
<1>3. CASE p \in ids
  <2>1. papers'[p] = NewPaper(j, topic[p])
    BY <1>1, <1>3
  <2>2. topic[p] \in NewOf(j)
    BY <1>2, <1>3
  <2>3. p > last.paper
    BY <1>3, LastRow, NewOfFinite DEF PaperIds
  <2>. QED
    BY <2>1, <2>2, <2>3
<1>4. CASE p \notin ids /\ papers[p] # None /\ \E t \in OldOf(j) : j.fill[t].paper = p
  BY <1>1, <1>4
<1>5. CASE p \notin ids /\ ~(papers[p] # None /\ \E t \in OldOf(j) : j.fill[t].paper = p)
  BY <1>1, <1>5
<1>. QED
  BY <1>3, <1>4, <1>5

\* A paper that was there keeps its series, topic and kind, only a deletion takes
\* questions from it, and none appears below the highest id, in the steps that write papers otherwise.
LEMMA PapersStep ==
    ASSUME TypeOK, Next, ~ \E o \in Officers : ComposeWrite(o), NEW p \in PaperIds
    PROVE  \/ papers'[p] = None
           \/ /\ papers[p] # None
              /\ papers'[p].series = papers[p].series
              /\ papers'[p].topic = papers[p].topic
              /\ papers'[p].written = papers[p].written
              /\ papers'[p].pool \subseteq papers[p].pool
              /\ \/ papers'[p].pool = papers[p].pool
                 \/ \E i \in SetIds :
                        DeleteSet(i) /\ papers'[p].pool = papers[p].pool \ QuestionsOf(i)
<1>. DEFINE Same == papers'[p] = None
                    \/ /\ papers[p] # None
                       /\ papers'[p].series = papers[p].series
                       /\ papers'[p].topic = papers[p].topic
                       /\ papers'[p].written = papers[p].written
                       /\ papers'[p].pool \subseteq papers[p].pool
                       /\ \/ papers'[p].pool = papers[p].pool
                          \/ \E i \in SetIds :
                                DeleteSet(i) /\ papers'[p].pool = papers[p].pool \ QuestionsOf(i)
<1>0. papers[p] # None => papers[p] \in Paper
  BY PaperRow
<1>1. ASSUME papers'[p] = papers[p] PROVE Same
  BY <1>1
<1>2. ASSUME NEW s \in Series, NEW P \in SUBSET PaperIds, ScheduleSeries(s, P) PROVE Same
  BY <1>0, <1>2 DEF ScheduleSeries, PapersOf, Paper
<1>3. ASSUME NEW o \in Officers, PublishSeries(o) PROVE Same
  BY <1>0, <1>3 DEF PublishSeries, PublishRead, PublishWrite, PublishFails, Drafts, PapersOf, Paper
<1>4. ASSUME NEW s \in Series, DeleteSeries(s) PROVE Same
  BY <1>4 DEF DeleteSeries
<1>5. ASSUME NEW i \in SetIds, DeleteSet(i) PROVE Same
  BY <1>0, <1>5 DEF DeleteSet, Paper
<1>6. ASSUME NEW r \in PaperIds, ReschedulePaper(r) \/ DeletePaper(r) PROVE Same
  BY <1>0, <1>6 DEF ReschedulePaper, DeletePaper, TypeOK, Paper
<1>7. ASSUME \/ \E s \in Series : CreateSeries(s)
             \/ \E c \in Series \union {None} : SaveCollection(c)
             \/ \E sc \in Scope, w \in BOOLEAN : FindOrCreateSet(sc, w)
      PROVE  papers' = papers
  BY <1>7 DEF CreateSeries, SaveCollection, FindOrCreateSet
<1>8. ASSUME NEW i \in SetIds,
             \/ AddQuestion(i) \/ SubmitSet(i)
             \/ \E d \in {"approve", "return"} : ReviewSet(i, d)
      PROVE  papers' = papers
  BY <1>8 DEF AddQuestion, SubmitSet, SubmitWritten, SubmitTerminal, SubmitAlone,
              ReviewSet
<1>9. ASSUME NEW o \in Officers, ComposeFails(o) \/ \E s \in Series : ComposeRead(o, s)
      PROVE  papers' = papers
  BY <1>9 DEF ComposeFails, ComposeRead
<1>. HIDE DEF Same
<1>10. Same
  BY <1>1, <1>2, <1>3, <1>4, <1>5, <1>6, <1>7, <1>8, <1>9 DEF Next
<1>. QED
  BY <1>10 DEF Same

\* A set comes with the next id, keeps its scope, and goes only when deleted.
LEMMA SetsStep ==
    ASSUME TypeOK, Next, NEW k \in SetIds
    PROVE  /\ sets'[k] # None =>
                \/ sets[k] # None /\ sets'[k].scope = sets[k].scope
                \/ k = last.set + 1 /\ k <= last'.set
           /\ sets[k] # None /\ sets'[k] = None => DeleteSet(k)
<1>. DEFINE Kept == /\ sets'[k] # None => sets[k] # None /\ sets'[k].scope = sets[k].scope
                    /\ sets[k] # None => sets'[k] # None
<1>0. sets[k] # None => sets[k] \in QuestionSet
  BY SetRow
<1>1. ASSUME sets' = sets PROVE Kept
  BY <1>1
<1>2. ASSUME NEW sc \in Scope, NEW w \in BOOLEAN, FindOrCreateSet(sc, w)
      PROVE  Kept \/ (k = last.set + 1 /\ k <= last'.set /\ sets'[k] # None)
  <2>1. CASE \E i \in SetIds : Editable(i) /\ sets' = [sets EXCEPT ![i].written = w]
    BY <1>0, <2>1, SetRow, NoneAssumption DEF Editable, TypeOK, QuestionSet
  <2>2. CASE /\ last' = [last EXCEPT !.set = @ + 1]
             /\ sets' = [sets EXCEPT ![last.set + 1] =
                           [scope |-> sc, written |-> w, status |-> "draft"]]
    <3>1. last'.set = last.set + 1
      BY <2>2, LastRow DEF Ids
    <3>2. [scope |-> sc, written |-> w, status |-> "draft"] # None
      BY NoneAssumption DEF QuestionSet
    <3>. QED
      BY <2>2, <3>1, <3>2, LastRow DEF TypeOK, SetIds
  <2>. QED
    BY <1>2, <2>1, <2>2 DEF FindOrCreateSet
<1>3. ASSUME NEW st \in {"submitted", "approved", "returned"}, sets[k] # None,
             sets'[k] = [sets[k] EXCEPT !.status = st]
      PROVE  Kept
  <2>1. [sets[k] EXCEPT !.status = st] \in QuestionSet
    BY <1>0, <1>3 DEF QuestionSet
  <2>2. [sets[k] EXCEPT !.status = st].scope = sets[k].scope
    BY <1>0, <1>3 DEF QuestionSet
  <2>. QED
    BY <1>3, <2>1, <2>2, NoneAssumption
<1>4. ASSUME NEW i \in SetIds, SubmitWritten(i) \/ SubmitAlone(i) PROVE Kept
  <2>1. \E st \in {"submitted", "approved"} : sets' = [sets EXCEPT ![i].status = st]
    BY <1>4 DEF SubmitWritten, SubmitAlone
  <2>2. sets[i] # None
    BY <1>4 DEF SubmitWritten, SubmitAlone, Editable
  <2>. QED
    BY <1>1, <1>3, <2>1, <2>2 DEF TypeOK
<1>5. ASSUME NEW i \in SetIds, SubmitTerminal(i) PROVE Kept
  <2>1. \/ sets'[k] = sets[k]
        \/ sets[k] # None /\ sets'[k] = [sets[k] EXCEPT !.status = "submitted"]
    BY <1>5 DEF SubmitTerminal, Editable
  <2>. QED
    BY <1>3, <2>1
<1>6. ASSUME NEW i \in SetIds, NEW d \in {"approve", "return"}, ReviewSet(i, d) PROVE Kept
  <2>1. \E st \in {"approved", "returned"} : sets' = [sets EXCEPT ![i].status = st]
    BY <1>6 DEF ReviewSet
  <2>2. sets[i] # None
    BY <1>6 DEF ReviewSet
  <2>. QED
    BY <1>1, <1>3, <2>1, <2>2 DEF TypeOK
<1>7. ASSUME NEW i \in SetIds, DeleteSet(i)
      PROVE  Kept \/ (k = i /\ sets'[k] = None)
  BY <1>7 DEF DeleteSet, TypeOK
<1>8. ASSUME NEW s \in Series,
             \/ CreateSeries(s)
             \/ \E P \in SUBSET PaperIds : ScheduleSeries(s, P)
             \/ DeleteSeries(s)
      PROVE  sets' = sets
  BY <1>8 DEF CreateSeries, ScheduleSeries, DeleteSeries
<1>9. ASSUME NEW o \in Officers,
             (\E s \in Series : ComposeRead(o, s)) \/ ComposeWrite(o) \/ ComposeFails(o)
             \/ PublishSeries(o)
      PROVE  sets' = sets
  BY <1>9, PublishLeaves DEF ComposeRead, ComposeWrite, ComposeFails
<1>10. ASSUME \/ \E c \in Series \union {None} : SaveCollection(c)
              \/ \E i \in SetIds : AddQuestion(i)
              \/ \E p \in PaperIds : ReschedulePaper(p) \/ DeletePaper(p)
       PROVE  sets' = sets
  BY <1>10 DEF SaveCollection, AddQuestion, ReschedulePaper, DeletePaper
<1>. HIDE DEF Kept
<1>11. \/ Kept
       \/ k = last.set + 1 /\ k <= last'.set /\ sets'[k] # None
       \/ DeleteSet(k) /\ sets'[k] = None
  BY <1>1, <1>2, <1>3, <1>4, <1>5, <1>6, <1>7, <1>8, <1>9, <1>10 DEF Next, SubmitSet
<1>. QED
  BY <1>11 DEF Kept

LEMMA LastStep ==
    ASSUME TypeOK, Next
    PROVE  last.set <= last'.set /\ last.question <= last'.question /\ last.paper <= last'.paper
<1>. DEFINE Grows == last.set <= last'.set /\ last.question <= last'.question
                     /\ last.paper <= last'.paper
<1>1. ASSUME last' = last PROVE Grows
  BY <1>1, LastRow
<1>2. ASSUME NEW n \in Nat, last' = [last EXCEPT !.set = @ + n] PROVE Grows
  BY <1>2, LastRow DEF Ids
<1>3. ASSUME NEW n \in Nat, last' = [last EXCEPT !.question = @ + n] PROVE Grows
  BY <1>3, LastRow DEF Ids
<1>4. ASSUME NEW n \in Nat, last' = [last EXCEPT !.paper = @ + n] PROVE Grows
  BY <1>4, LastRow DEF Ids
<1>5. ASSUME NEW sc \in Scope, NEW w \in BOOLEAN, FindOrCreateSet(sc, w) PROVE Grows
  BY <1>1, <1>2, <1>5 DEF FindOrCreateSet
<1>6. ASSUME NEW i \in SetIds, AddQuestion(i) PROVE Grows
  BY <1>3, <1>6 DEF AddQuestion
<1>7. ASSUME NEW o \in Officers, ComposeWrite(o) PROVE Grows
  BY <1>4, <1>7, NewOfFinite DEF ComposeWrite
<1>8. ASSUME NEW s \in Series,
             \/ CreateSeries(s)
             \/ \E P \in SUBSET PaperIds : ScheduleSeries(s, P)
             \/ DeleteSeries(s)
      PROVE  last' = last
  BY <1>8 DEF CreateSeries, ScheduleSeries, DeleteSeries
<1>9. ASSUME NEW i \in SetIds,
             \/ SubmitSet(i) \/ DeleteSet(i)
             \/ \E d \in {"approve", "return"} : ReviewSet(i, d)
      PROVE  last' = last
  BY <1>9 DEF SubmitSet, SubmitWritten, SubmitTerminal, SubmitAlone, DeleteSet, ReviewSet
<1>10. ASSUME \/ \E c \in Series \union {None} : SaveCollection(c)
              \/ \E o \in Officers : ComposeFails(o) \/ \E s \in Series : ComposeRead(o, s)
              \/ \E o \in Officers : PublishSeries(o)
              \/ \E p \in PaperIds : ReschedulePaper(p) \/ DeletePaper(p)
       PROVE  last' = last
  BY <1>10, PublishLeaves DEF SaveCollection, ComposeFails, ComposeRead, ReschedulePaper, DeletePaper
<1>. HIDE DEF Grows
<1>11. Grows
  BY <1>1, <1>5, <1>6, <1>7, <1>8, <1>9, <1>10 DEF Next
<1>. QED
  BY <1>11 DEF Grows

\* A question stays in its set, or comes into a set there is.
LEMMA QuestionsStep ==
    ASSUME TypeOK, Known, Next, NEW q \in QuestionIds, questions'[q] # None
    PROVE  \/ questions[q] # None /\ questions'[q].set = questions[q].set
           \/ q <= last'.question /\ sets'[questions'[q].set] # None
<1>. DEFINE Stays == questions[q] # None /\ questions'[q].set = questions[q].set
            Comes == q <= last'.question /\ sets'[questions'[q].set] # None
<1>0. questions[q] # None => questions[q] \in Question
  BY QuestionRow
<1>1. ASSUME questions' = questions PROVE Stays
  BY <1>1
<1>2. ASSUME NEW i \in SetIds, AddQuestion(i) PROVE Stays \/ Comes
  <2>1. CASE q = last.question + 1
    <3>1. questions'[q] = [set |-> i, approval |-> "pending"]
      BY <1>2, <2>1 DEF AddQuestion, TypeOK
    <3>2. last'.question = last.question + 1
      BY <1>2, LastRow DEF AddQuestion, Ids
    <3>3. sets'[i] # None
      BY <1>2 DEF AddQuestion, Editable
    <3>. QED
      BY <2>1, <3>1, <3>2, <3>3 DEF QuestionIds
  <2>2. CASE q # last.question + 1
    BY <1>2, <2>2 DEF AddQuestion, TypeOK
  <2>. QED
    BY <2>1, <2>2
<1>3. ASSUME NEW i \in SetIds, NEW a, questions' = Judged({i}, a) PROVE Stays
  BY <1>0, <1>3 DEF Judged, Question
<1>4. ASSUME NEW i \in SetIds, DeleteSet(i) PROVE Stays
  BY <1>4 DEF DeleteSet
<1>5. ASSUME NEW i \in SetIds, SubmitSet(i) PROVE Stays
  <2>1. CASE SubmitWritten(i) \/ SubmitTerminal(i)
    BY <1>1, <2>1 DEF SubmitWritten, SubmitTerminal
  <2>2. CASE SubmitAlone(i)
    BY <1>3, <2>2 DEF SubmitAlone
  <2>. QED
    BY <1>5, <2>1, <2>2 DEF SubmitSet
<1>6. ASSUME NEW i \in SetIds, NEW d \in {"approve", "return"}, ReviewSet(i, d) PROVE Stays
  BY <1>3, <1>6 DEF ReviewSet
<1>7. ASSUME NEW s \in Series,
             \/ CreateSeries(s)
             \/ \E P \in SUBSET PaperIds : ScheduleSeries(s, P)
             \/ DeleteSeries(s)
      PROVE  questions' = questions
  BY <1>7 DEF CreateSeries, ScheduleSeries, DeleteSeries
<1>8. ASSUME NEW o \in Officers,
              (\E s \in Series : ComposeRead(o, s)) \/ ComposeWrite(o) \/ ComposeFails(o)
              \/ PublishSeries(o)
       PROVE  questions' = questions
  BY <1>8, PublishLeaves DEF ComposeRead, ComposeWrite, ComposeFails
<1>9. ASSUME \/ \E c \in Series \union {None} : SaveCollection(c)
             \/ \E sc \in Scope, w \in BOOLEAN : FindOrCreateSet(sc, w)
             \/ \E p \in PaperIds : ReschedulePaper(p) \/ DeletePaper(p)
      PROVE  questions' = questions
  BY <1>9 DEF SaveCollection, FindOrCreateSet, ReschedulePaper, DeletePaper
<1>. HIDE DEF Stays, Comes
<1>10. Stays \/ Comes
  BY <1>1, <1>2, <1>3, <1>4, <1>5, <1>6, <1>7, <1>8, <1>9 DEF Next
<1>. QED
  BY <1>10 DEF Stays, Comes

LEMMA KnownStep ==
    ASSUME TypeOK, TypeOK', Known, Next
    PROVE  Known'
<1>1. last.set \in Nat /\ last.question \in Nat /\ last.paper \in Nat
  BY LastRow
<1>2. last'.set \in Nat /\ last'.question \in Nat /\ last'.paper \in Nat
  BY BoundAssumption DEF TypeOK
<1>3. ASSUME NEW i \in SetIds, sets'[i] # None PROVE i <= last'.set
  BY <1>1, <1>2, <1>3, SetsStep, LastStep DEF Known, SetIds
<1>4. ASSUME NEW q \in QuestionIds, questions'[q] # None
      PROVE  q <= last'.question /\ sets'[questions'[q].set] # None
  <2>1. CASE questions[q] # None /\ questions'[q].set = questions[q].set
    <3>. DEFINE i == questions[q].set
    <3>1. q <= last.question /\ sets[i] # None /\ i \in SetIds
      BY <2>1, QuestionRow DEF Known, Question
    <3>2. ~DeleteSet(i)
      BY <1>4, <2>1 DEF DeleteSet, QuestionsOf
    <3>3. sets'[i] # None
      BY <3>1, <3>2, SetsStep
    <3>. QED
      BY <1>1, <1>2, <2>1, <3>1, <3>3, LastStep DEF QuestionIds
  <2>2. CASE q <= last'.question /\ sets'[questions'[q].set] # None
    BY <2>2
  <2>. QED
    BY <1>4, <2>1, <2>2, QuestionsStep
<1>5. ASSUME NEW p \in PaperIds, papers'[p] # None PROVE p <= last'.paper
  <2>1. ASSUME papers[p] # None PROVE p <= last'.paper
    BY <1>1, <1>2, <2>1, LastStep DEF Known, PaperIds
  <2>2. ASSUME NEW o \in Officers, ComposeWrite(o), papers[p] = None PROVE p <= last'.paper
    <3>. DEFINE n == Cardinality(NewOf(job[o]))
    <3>1. p \in (last.paper + 1)..(last.paper + n)
      BY <1>5, <2>2 DEF ComposeWrite
    <3>2. last' = [last EXCEPT !.paper = @ + n]
      BY <2>2 DEF ComposeWrite
    <3>3. n \in Nat
      BY NewOfFinite
    <3>. HIDE DEF n
    <3>4. last'.paper = last.paper + n
      BY <3>2, LastRow DEF Ids
    <3>. QED
      BY <1>1, <3>1, <3>3, <3>4 DEF PaperIds
  <2>. QED
    BY <1>5, <2>1, <2>2, PapersStep
<1>. QED
  BY <1>3, <1>4, <1>5 DEF Known

\* A paper there was keeps its series and topic, compose or not.
LEMMA PaperStays ==
    ASSUME TypeOK, TypeOK', Next, NEW p \in PaperIds, p <= last.paper, papers'[p] # None
    PROVE  /\ papers[p] # None
           /\ papers'[p].series = papers[p].series
           /\ papers'[p].topic = papers[p].topic
<1>1. CASE ~ \E o \in Officers : ComposeWrite(o)
  BY <1>1, PapersStep
<1>2. ASSUME NEW o \in Officers, ComposeWrite(o)
      PROVE  /\ papers[p] # None
             /\ papers'[p].series = papers[p].series
             /\ papers'[p].topic = papers[p].topic
  <2>1. papers[p] # None /\ (papers'[p] = Filled(job[o], p) \/ papers'[p] = papers[p])
    BY <1>2, WrittenPapers, LastRow DEF PaperIds
  <2>2. papers[p] \in Paper
    BY <2>1, PaperRow
  <2>. QED
    BY <2>1, <2>2 DEF Filled, Paper
<1>. QED
  BY <1>1, <1>2

LEMMA SoundStays ==
    ASSUME TypeOK, TypeOK', Known, Next,
           NEW s \in Series, NEW t \in Topics, NEW f \in Fill, FillIsSound(s, t, f)
    PROVE  FillIsSound(s, t, f)'
<1>1. f.set \in SetIds /\ f.set <= last.set /\ f.paper \in PaperIds \union {None}
  BY DEF FillIsSound, Fill
<1>2. f.set <= last'.set /\ (f.paper # None => f.paper <= last'.paper)
  <2>1. last'.set \in Nat /\ last'.paper \in Nat
    BY BoundAssumption DEF TypeOK
  <2>2. last.set \in Nat /\ last.paper \in Nat /\ last.set <= last'.set /\ last.paper <= last'.paper
    BY LastRow, LastStep
  <2>3. f.paper # None => f.paper <= last.paper
    BY DEF FillIsSound
  <2>. QED
    BY <1>1, <2>1, <2>2, <2>3 DEF SetIds, PaperIds
<1>3. ASSUME sets'[f.set] # None
      PROVE  f.set \in Candidates(s)' /\ sets'[f.set].scope.topic = t
  <2>1. sets[f.set] # None
    BY <1>1, <1>3, SetsStep, LastRow DEF SetIds
  <2>2. f.set \in Candidates(s) /\ sets[f.set].scope.topic = t
    BY <2>1 DEF FillIsSound
  <2>3. sets'[f.set] = sets[f.set]
    BY <1>1, <1>3, <2>1, <2>2, KeptOrLostStep DEF ApprovedKeptOrLost, Candidates
  <2>. QED
    BY <1>1, <2>2, <2>3 DEF Candidates
<1>4. ASSUME f.paper # None, papers'[f.paper] # None
      PROVE  papers'[f.paper].series = s /\ papers'[f.paper].topic = t
  BY <1>1, <1>4, PaperStays DEF FillIsSound
<1>. QED
  BY <1>2, <1>3, <1>4 DEF FillIsSound

\* What a compose reads is sound when it reads it.
LEMMA FillsSound ==
    ASSUME TypeOK, Known, NEW s \in Series, NEW t \in Topics, NEW f \in Fills(s, t), f # None
    PROVE  FillIsSound(s, t, f)
<1>1. ASSUME NEW i \in Ready(s, t)
      PROVE  /\ i \in SetIds /\ sets[i] # None /\ i <= last.set
             /\ i \in Candidates(s) /\ sets[i].scope.topic = t
  BY DEF Ready, Candidates, Known
<1>2. ASSUME NEW i \in Ready(s, t), NEW p \in PapersFor(s, t) \union {None}
      PROVE  FillIsSound(s, t, From(p, i))
  BY <1>1, <1>2 DEF FillIsSound, From, PapersFor, Known
<1>3. f \in NewFills(s, t) \union OldFills(s, t)
  BY DEF Fills
<1>. QED
  BY <1>2, <1>3 DEF NewFills, OldFills

\* A job is what it was, or has just been read.
LEMMA JobIsReadOrKept ==
    ASSUME TypeOK, Next, NEW o \in Officers, job'[o] # None
    PROVE  job'[o] = job[o] \/ \E s \in Series : ComposeRead(o, s)
<1>1. ASSUME NEW r \in Officers, ComposeWrite(r) \/ ComposeFails(r) \/ PublishSeries(r)
      PROVE  job'[o] = job[o]
  BY <1>1, PublishLeaves DEF ComposeWrite, ComposeFails, TypeOK
<1>2. ASSUME NEW r \in Officers, NEW s \in Series, ComposeRead(r, s), r # o
      PROVE  job'[o] = job[o]
  BY <1>2 DEF ComposeRead, TypeOK
<1>3. ASSUME NEW s \in Series,
             \/ CreateSeries(s)
             \/ \E P \in SUBSET PaperIds : ScheduleSeries(s, P)
             \/ DeleteSeries(s)
      PROVE  job' = job
  BY <1>3 DEF CreateSeries, ScheduleSeries, DeleteSeries
<1>4. ASSUME NEW i \in SetIds,
             \/ AddQuestion(i) \/ SubmitSet(i) \/ DeleteSet(i)
             \/ \E d \in {"approve", "return"} : ReviewSet(i, d)
      PROVE  job' = job
  BY <1>4 DEF AddQuestion, SubmitSet, SubmitWritten, SubmitTerminal, SubmitAlone, DeleteSet,
              ReviewSet
<1>5. ASSUME \/ \E c \in Series \union {None} : SaveCollection(c)
             \/ \E sc \in Scope, w \in BOOLEAN : FindOrCreateSet(sc, w)
             \/ \E p \in PaperIds : ReschedulePaper(p) \/ DeletePaper(p)
      PROVE  job' = job
  BY <1>5 DEF SaveCollection, FindOrCreateSet, ReschedulePaper, DeletePaper
<1>. QED
  BY <1>1, <1>2, <1>3, <1>4, <1>5 DEF Next

LEMMA JobsStep ==
    ASSUME TypeOK, TypeOK', Known, JobsAreSound, Next
    PROVE  JobsAreSound'
<1>. SUFFICES ASSUME NEW o \in Officers, NEW t \in Topics,
                     job'[o] # None, job'[o].fill[t] # None
              PROVE  FillIsSound(job[o].series, t, job[o].fill[t])'
  BY DEF JobsAreSound
<1>1. CASE job'[o] = job[o]
  <2>1. job[o].series \in Series /\ job[o].fill[t] \in Fill
    BY <1>1, JobRow DEF Job
  <2>2. FillIsSound(job[o].series, t, job[o].fill[t])
    BY <1>1 DEF JobsAreSound
  <2>3. PICK s \in Series, f \in Fill : s = job[o].series /\ f = job[o].fill[t]
    BY <2>1
  <2>4. FillIsSound(s, t, f)'
    BY <2>2, <2>3, SoundStays
  <2>5. s = job'[o].series /\ f = job'[o].fill[t]
    BY <1>1, <2>3
  <2>. QED
    BY <2>4, <2>5 DEF FillIsSound, Candidates
<1>2. ASSUME NEW s \in Series, ComposeRead(o, s)
      PROVE  FillIsSound(job[o].series, t, job[o].fill[t])'
  <2>1. PICK fill \in [Topics -> UNION {Fills(s, u) : u \in Topics}] :
            /\ \A u \in Topics : fill[u] \in Fills(s, u)
            /\ job' = [job EXCEPT ![o] = [series |-> s, fill |-> fill]]
    BY <1>2 DEF ComposeRead
  <2>2. job'[o].series = s /\ job'[o].fill[t] = fill[t]
    BY <2>1 DEF TypeOK
  <2>3. FillIsSound(s, t, fill[t])
    BY <2>1, <2>2, FillsSound
  <2>4. UNCHANGED <<sets, papers, last>>
    BY <1>2 DEF ComposeRead
  <2>. QED
    BY <2>2, <2>3, <2>4 DEF FillIsSound, Candidates
<1>. QED
  BY <1>1, <1>2, JobIsReadOrKept

\* A question that may be on a paper of series s for topic t.
Fits(q, s, t) ==
    /\ questions[q] # None /\ questions[q].approval = "approved"
    /\ LET i == questions[q].set IN
        /\ sets[i] # None /\ sets[i].status = "approved"
        /\ sets[i].scope.half = "objective"
        /\ sets[i].scope.topic = t
        /\ sets[i].scope.bank = IF Kind[s] = "examination" THEN None ELSE s

LEMMA PoolsStep ==
    ASSUME TypeOK, TypeOK', Known, JobsAreSound, PoolsAreApproved, Next
    PROVE  PoolsAreApproved'
<1>. SUFFICES ASSUME NEW p \in PaperIds, papers'[p] # None, NEW q \in papers'[p].pool
              PROVE  Fits(q, papers[p].series, papers[p].topic)'
  BY DEF PoolsAreApproved, Fits
<1>0. papers'[p] \in Paper /\ q \in QuestionIds
  BY DEF TypeOK, Paper
<1>1. ASSUME papers[p] # None, q \in papers[p].pool
      PROVE  Fits(q, papers[p].series, papers[p].topic)
  BY <1>1 DEF PoolsAreApproved, Fits
<1>2. ASSUME NEW s \in Series, NEW t \in Topics, Fits(q, s, t), ApprovedKept
      PROVE  Fits(q, s, t)'
  <2>1. questions[q].set \in SetIds
    BY <1>0, <1>2, QuestionRow DEF Fits, Question
  <2>2. questions'[q] = questions[q] /\ sets'[questions[q].set] = sets[questions[q].set]
    BY <1>0, <1>2, <2>1 DEF Fits, ApprovedKept
  <2>. QED
    BY <1>2, <2>2 DEF Fits
<1>3. ASSUME NEW i \in SetIds, DeleteSet(i)
      PROVE  Fits(q, papers[p].series, papers[p].topic)'
  <2>1. sets' = [sets EXCEPT ![i] = None]
    BY <1>3 DEF DeleteSet
  <2>2. papers[p] # None /\ papers'[p] = [papers[p] EXCEPT !.pool = @ \ QuestionsOf(i)]
    BY <1>3 DEF DeleteSet
  <2>3. papers[p] \in Paper
    BY <2>2, PaperRow
  <2>4. /\ q \in papers[p].pool /\ q \notin QuestionsOf(i)
        /\ papers'[p].series = papers[p].series /\ papers'[p].topic = papers[p].topic
    BY <2>2, <2>3 DEF Paper
  <2>5. Fits(q, papers[p].series, papers[p].topic)
    BY <1>1, <2>2, <2>4
  <2>6. questions'[q] = questions[q] /\ questions[q].set # i /\ questions[q].set \in SetIds
    BY <1>0, <1>3, <2>4, <2>5, QuestionRow DEF DeleteSet, QuestionsOf, Fits, Question
  <2>7. sets'[questions[q].set] = sets[questions[q].set]
    BY <2>1, <2>6 DEF TypeOK
  <2>. QED
    BY <2>4, <2>5, <2>6, <2>7 DEF Fits
<1>4. ASSUME NEW o \in Officers, ComposeWrite(o)
      PROVE  Fits(q, papers[p].series, papers[p].topic)'
  <2>. DEFINE j == job[o]
  <2>1. UNCHANGED <<sets, questions>> /\ j # None /\ j \in Job
    BY <1>4, JobRow DEF ComposeWrite
  <2>2. ASSUME NEW t \in Topics, j.fill[t] # None, q \in Approved(j.fill[t].set)
        PROVE  Fits(q, j.series, t)
    <3>1. FillIsSound(j.series, t, j.fill[t])
      BY <2>1, <2>2 DEF JobsAreSound
    <3>2. questions[q] # None /\ questions[q].set = j.fill[t].set
          /\ questions[q].approval = "approved"
      BY <2>2 DEF Approved, QuestionsOf
    <3>3. sets[j.fill[t].set] # None
      BY <1>0, <3>2 DEF Known
    <3>4. j.fill[t].set \in Candidates(j.series) /\ sets[j.fill[t].set].scope.topic = t
      BY <3>1, <3>3 DEF FillIsSound
    <3>. QED
      BY <3>2, <3>3, <3>4 DEF Fits, Candidates
  <2>3. ASSUME NEW t \in NewOf(j), papers'[p] = NewPaper(j, t)
        PROVE  Fits(q, papers'[p].series, papers'[p].topic)
    BY <2>2, <2>3 DEF NewPaper, NewOf
  <2>4. ASSUME papers[p] # None, NEW t \in OldOf(j), j.fill[t].paper = p,
               papers'[p] = Filled(j, p)
        PROVE  Fits(q, papers'[p].series, papers'[p].topic)
    <3>1. papers[p] \in Paper
      BY <2>4, PaperRow
    <3>2. FillIsSound(j.series, t, j.fill[t]) /\ j.fill[t] # None
      BY <2>1, <2>4 DEF JobsAreSound, OldOf
    <3>3. papers[p].series = j.series /\ papers[p].topic = t
      BY <2>4, <3>2, JobAssumption DEF FillIsSound
    <3>4. /\ papers'[p].series = papers[p].series /\ papers'[p].topic = papers[p].topic
          /\ papers'[p].pool = papers[p].pool \union Approved(j.fill[t].set)
      BY <2>4, <3>1, <3>3 DEF Filled, Paper
    <3>5. t \in Topics
      BY DEF OldOf
    <3>. QED
      BY <1>1, <2>2, <2>4, <3>2, <3>3, <3>4, <3>5
  <2>5. ASSUME papers'[p] = papers[p]
        PROVE  Fits(q, papers'[p].series, papers'[p].topic)
    BY <1>1, <2>5
  <2>6. Fits(q, papers'[p].series, papers'[p].topic)
    BY <1>4, <2>3, <2>4, <2>5, WrittenPapers
  <2>. QED
    BY <2>1, <2>6 DEF Fits
<1>5. ASSUME ~ \E i \in SetIds : DeleteSet(i),
             ~ \E o \in Officers : ComposeWrite(o)
      PROVE  Fits(q, papers[p].series, papers[p].topic)'
  <2>1. ApprovedKept
    BY <1>5, KeptStep
  <2>2. /\ papers[p] # None /\ q \in papers[p].pool
        /\ papers'[p].series = papers[p].series /\ papers'[p].topic = papers[p].topic
    BY <1>5, PapersStep
  <2>3. papers[p] \in Paper
    BY <2>2, PaperRow
  <2>4. PICK s \in Series, t \in Topics : s = papers[p].series /\ t = papers[p].topic
    BY <2>3 DEF Paper
  <2>5. Fits(q, s, t)'
    BY <1>1, <1>2, <2>1, <2>2, <2>4
  <2>. QED
    BY <2>2, <2>4, <2>5 DEF Fits
<1>. QED
  BY <1>3, <1>4, <1>5

\* How the status of a series may change.
LEMMA StatusStep ==
    ASSUME TypeOK, Next, NEW s \in Series
    PROVE  \/ status'[s] = status[s]
           \/ status'[s] \in {"composed", "published"}
           \/ status[s] = "none"
           \/ DeleteSeries(s)
<1>1. ASSUME NEW r \in Series, CreateSeries(r)
      PROVE  status'[s] = status[s] \/ status[s] = "none"
  BY <1>1 DEF CreateSeries, TypeOK
<1>2. ASSUME NEW o \in Officers, PublishSeries(o)
      PROVE  status'[s] = status[s] \/ status'[s] = "published"
  BY <1>2 DEF PublishSeries, PublishRead, PublishWrite, PublishFails, TypeOK
<1>3. ASSUME NEW r \in Series, DeleteSeries(r)
      PROVE  status'[s] = status[s] \/ DeleteSeries(s)
  BY <1>3 DEF DeleteSeries, TypeOK
<1>4. ASSUME NEW o \in Officers, ComposeWrite(o)
      PROVE  status'[s] = status[s] \/ status'[s] = "composed"
  BY <1>4 DEF ComposeWrite, Composed, TypeOK
<1>5. ASSUME \/ \E r \in Series, P \in SUBSET PaperIds : ScheduleSeries(r, P)
             \/ \E c \in Series \union {None} : SaveCollection(c)
             \/ \E sc \in Scope, w \in BOOLEAN : FindOrCreateSet(sc, w)
             \/ \E o \in Officers : ComposeFails(o) \/ \E r \in Series : ComposeRead(o, r)
             \/ \E p \in PaperIds : ReschedulePaper(p) \/ DeletePaper(p)
      PROVE  status' = status
  BY <1>5 DEF ScheduleSeries, SaveCollection, FindOrCreateSet, ComposeFails,
              ComposeRead, ReschedulePaper, DeletePaper
<1>6. ASSUME NEW i \in SetIds,
             \/ AddQuestion(i) \/ SubmitSet(i) \/ DeleteSet(i)
             \/ \E d \in {"approve", "return"} : ReviewSet(i, d)
      PROVE  status' = status
  BY <1>6 DEF AddQuestion, SubmitSet, SubmitWritten, SubmitTerminal, SubmitAlone, DeleteSet,
              ReviewSet
<1>. QED
  BY <1>1, <1>2, <1>3, <1>4, <1>5, <1>6 DEF Next

\* A paper that a compose writes belongs to a series it marks as composed.
LEMMA WrittenSeries ==
    ASSUME TypeOK, NEW o \in Officers, ComposeWrite(o), NEW p \in PaperIds, papers'[p] # None
    PROVE  \/ papers[p] # None /\ papers'[p].series = papers[p].series
           \/ papers'[p].series \in Series /\ status'[papers'[p].series] = "composed"
<1>1. job[o].series \in Series
  BY JobRow DEF ComposeWrite, Job
<1>2. status'[job[o].series] = "composed"
  BY <1>1 DEF ComposeWrite, Composed, TypeOK
<1>3. ASSUME papers[p] # None, papers'[p] = Filled(job[o], p) \/ papers'[p] = papers[p]
      PROVE  papers'[p].series = papers[p].series
  BY <1>3, PaperRow DEF Filled, Paper
<1>4. ASSUME NEW t \in NewOf(job[o]), papers'[p] = NewPaper(job[o], t)
      PROVE  papers'[p].series = job[o].series
  BY <1>4 DEF NewPaper
<1>. QED
  BY <1>1, <1>2, <1>3, <1>4, WrittenPapers

LEMMA PreparingStep ==
    ASSUME TypeOK, TypeOK', Next, PreparingHasNoPapers
    PROVE  PreparingHasNoPapers'
<1>. SUFFICES ASSUME NEW p \in PaperIds, papers'[p] # None
              PROVE  status'[papers'[p].series] \notin {"none", "draft", "gone"}
  BY DEF PreparingHasNoPapers, PapersOf
<1>. DEFINE s == papers'[p].series
<1>1. s \in Series
  BY DEF TypeOK, Paper
<1>2. ASSUME papers[p] # None, papers[p].series = s
      PROVE  status'[s] \notin {"none", "draft", "gone"}
  <2>1. status[s] \notin {"none", "draft", "gone"}
    BY <1>1, <1>2 DEF PreparingHasNoPapers, PapersOf
  <2>2. ~DeleteSeries(s)
    BY <2>1 DEF DeleteSeries
  <2>. QED
    BY <1>1, <2>1, <2>2, StatusStep
<1>3. \/ papers[p] # None /\ papers[p].series = s
      \/ status'[s] = "composed"
  BY PapersStep, WrittenSeries
<1>. QED
  BY <1>2, <1>3

\* A paper there is keeps its day, and is published only as a draft of a
\* series that is published.
LEMMA FlagsStep ==
    ASSUME TypeOK, Known, Next, NEW p \in PaperIds, papers[p] # None, papers'[p] # None
    PROVE  /\ papers[p].placed => papers'[p].placed
           /\ \/ papers'[p].published = papers[p].published
              \/ \E o \in Officers : PublishWrite(o) /\ p \in Drafts(checked[o].series)
<1>. DEFINE Day == papers[p].placed => papers'[p].placed
            Same == Day /\ papers'[p].published = papers[p].published
<1>0. papers[p] \in Paper
  BY PaperRow
<1>1. ASSUME papers'[p] = papers[p] PROVE Same
  BY <1>1
<1>2. ASSUME NEW s \in Series, NEW P \in SUBSET PaperIds, ScheduleSeries(s, P) PROVE Same
  BY <1>0, <1>2 DEF ScheduleSeries, PapersOf, Paper
<1>3. ASSUME NEW o \in Officers, PublishWrite(o)
      PROVE  Same \/ (Day /\ p \in Drafts(checked[o].series))
  BY <1>0, <1>1, <1>3 DEF PublishWrite, Paper
<1>4. ASSUME NEW s \in Series, DeleteSeries(s) PROVE Same
  BY <1>4 DEF DeleteSeries
<1>5. ASSUME NEW i \in SetIds, DeleteSet(i) PROVE Same
  BY <1>0, <1>5 DEF DeleteSet, Paper
<1>6. ASSUME NEW r \in PaperIds, ReschedulePaper(r) \/ DeletePaper(r) PROVE Same
  BY <1>0, <1>6 DEF ReschedulePaper, DeletePaper, TypeOK, Paper
<1>7. ASSUME NEW o \in Officers, ComposeWrite(o) PROVE Same
  <2>1. ~(p > last.paper)
    BY LastRow DEF Known, PaperIds
  <2>2. ASSUME papers'[p] = Filled(job[o], p) PROVE Same
    BY <1>0, <2>2 DEF Filled, Paper
  <2>. QED
    BY <1>1, <1>7, <2>1, <2>2, WrittenPapers
<1>8. ASSUME \/ \E s \in Series : CreateSeries(s)
             \/ \E c \in Series \union {None} : SaveCollection(c)
             \/ \E sc \in Scope, w \in BOOLEAN : FindOrCreateSet(sc, w)
      PROVE  papers' = papers
  BY <1>8 DEF CreateSeries, SaveCollection, FindOrCreateSet
<1>9. ASSUME NEW i \in SetIds,
             \/ AddQuestion(i) \/ SubmitSet(i)
             \/ \E d \in {"approve", "return"} : ReviewSet(i, d)
      PROVE  papers' = papers
  BY <1>9 DEF AddQuestion, SubmitSet, SubmitWritten, SubmitTerminal, SubmitAlone,
              ReviewSet
<1>10. ASSUME NEW o \in Officers,
              \/ ComposeFails(o) \/ PublishFails(o)
              \/ \E s \in Series : ComposeRead(o, s) \/ PublishRead(o, s)
       PROVE  papers' = papers
  BY <1>10 DEF ComposeFails, ComposeRead, PublishFails, PublishRead
<1>. HIDE DEF Same, Day
<1>11. Same \/ (Day /\ \E o \in Officers : PublishWrite(o) /\ p \in Drafts(checked[o].series))
  BY <1>1, <1>2, <1>3, <1>4, <1>5, <1>6, <1>7, <1>8, <1>9, <1>10 DEF Next, PublishSeries
<1>. QED
  BY <1>11 DEF Same, Day

LEMMA SittingStep ==
    ASSUME Next
    PROVE  sitting \subseteq sitting'
BY PublishLeaves DEF Next, CreateSeries, ScheduleSeries, DeleteSeries, SaveCollection,
       FindOrCreateSet, AddQuestion, SubmitSet, SubmitWritten, SubmitTerminal, SubmitAlone,
       ReviewSet, DeleteSet, ComposeRead, ComposeWrite,
       ComposeFails, ReschedulePaper, DeletePaper

\* What a publication has checked is what it checked, until it is over.
LEMMA CheckedStep ==
    ASSUME TypeOK, Next, NEW o \in Officers
    PROVE  \/ checked'[o] = checked[o]
           \/ checked'[o] = None
           \/ \E s \in Series : PublishRead(o, s)
<1>1. ASSUME NEW r \in Officers, PublishWrite(r) \/ PublishFails(r)
      PROVE  checked'[o] = checked[o] \/ checked'[o] = None
  BY <1>1 DEF PublishWrite, PublishFails, TypeOK
<1>2. ASSUME NEW r \in Officers, NEW s \in Series, PublishRead(r, s), r # o
      PROVE  checked'[o] = checked[o]
  BY <1>2 DEF PublishRead, TypeOK
<1>3. ASSUME NEW s \in Series,
             \/ CreateSeries(s)
             \/ \E P \in SUBSET PaperIds : ScheduleSeries(s, P)
             \/ DeleteSeries(s)
      PROVE  checked' = checked
  BY <1>3 DEF CreateSeries, ScheduleSeries, DeleteSeries
<1>4. ASSUME NEW i \in SetIds,
             \/ AddQuestion(i) \/ SubmitSet(i) \/ DeleteSet(i)
             \/ \E d \in {"approve", "return"} : ReviewSet(i, d)
      PROVE  checked' = checked
  BY <1>4 DEF AddQuestion, SubmitSet, SubmitWritten, SubmitTerminal, SubmitAlone, DeleteSet,
              ReviewSet
<1>5. ASSUME NEW r \in Officers,
             (\E s \in Series : ComposeRead(r, s)) \/ ComposeWrite(r) \/ ComposeFails(r)
      PROVE  checked' = checked
  BY <1>5 DEF ComposeRead, ComposeWrite, ComposeFails
<1>6. ASSUME \/ \E c \in Series \union {None} : SaveCollection(c)
             \/ \E sc \in Scope, w \in BOOLEAN : FindOrCreateSet(sc, w)
             \/ \E p \in PaperIds : ReschedulePaper(p) \/ DeletePaper(p)
      PROVE  checked' = checked
  BY <1>6 DEF SaveCollection, FindOrCreateSet, ReschedulePaper, DeletePaper
<1>. QED
  BY <1>1, <1>2, <1>3, <1>4, <1>5, <1>6 DEF Next, PublishSeries

\* What was checked stays true: days and sitting windows are only moved.
LEMMA ChecksStep ==
    ASSUME TypeOK, TypeOK', Known, Next, ChecksAreSound
    PROVE  ChecksAreSound'
<1>. SUFFICES ASSUME NEW o \in Officers, checked'[o] # None,
                     Kind[checked'[o].series] # "practice"
              PROVE  /\ checked'[o].series \in sitting'
                     /\ \A p \in checked'[o].seen :
                            /\ p <= last'.paper
                            /\ papers'[p] # None => papers'[p].placed
  BY DEF ChecksAreSound
<1>1. CASE checked'[o] = checked[o]
  <2>1. checked[o].series \in sitting'
    BY <1>1, SittingStep DEF ChecksAreSound
  <2>2. ASSUME NEW p \in checked[o].seen
        PROVE  p <= last'.paper /\ (papers'[p] # None => papers'[p].placed)
    <3>1. p \in PaperIds
      BY <1>1, CheckRow DEF Check
    <3>2. p <= last.paper /\ (papers[p] # None => papers[p].placed)
      BY <1>1 DEF ChecksAreSound
    <3>3. p <= last'.paper
      <4>1. last'.paper \in Nat
        BY BoundAssumption DEF TypeOK
      <4>. QED
        BY <3>1, <3>2, <4>1, LastRow, LastStep DEF PaperIds
    <3>4. papers'[p] # None => papers'[p].placed
      BY <3>1, <3>2, PaperStays, FlagsStep
    <3>. QED
      BY <3>3, <3>4
  <2>. QED
    BY <1>1, <2>1, <2>2
<1>2. ASSUME NEW s \in Series, PublishRead(o, s)
      PROVE  /\ checked'[o].series \in sitting'
             /\ \A p \in checked'[o].seen :
                    /\ p <= last'.paper
                    /\ papers'[p] # None => papers'[p].placed
  <2>1. checked'[o].series = s /\ checked'[o].seen = PapersOf(s)
    BY <1>2 DEF PublishRead, TypeOK
  <2>2. UNCHANGED <<sitting, papers, last>> /\ Publishable(s)
    BY <1>2 DEF PublishRead
  <2>. QED
    BY <2>1, <2>2 DEF Publishable, PapersOf, Known
<1>. QED
  BY <1>1, <1>2, CheckedStep

\* What a step may do to a draft: the body of PublishedHasADay.
LEMMA DayStep ==
    ASSUME TypeOK, Known, ChecksAreSound, Next, NEW p \in PaperIds,
           papers[p] # None, ~papers[p].published, papers'[p] # None, papers'[p].published
    PROVE  \E o \in Officers :
                /\ checked[o] # None /\ checked'[o] = None
                /\ checked[o].series = papers[p].series
                /\ p \in checked[o].seen /\ Kind[papers[p].series] # "practice" =>
                    papers[p].placed /\ papers[p].series \in sitting
<1>1. PICK o \in Officers : PublishWrite(o) /\ p \in Drafts(checked[o].series)
  BY FlagsStep
<1>2. checked[o] # None /\ checked'[o] = None
  BY <1>1 DEF PublishWrite, TypeOK
<1>3. checked[o].series = papers[p].series
  BY <1>1 DEF Drafts, PapersOf
<1>. QED
  BY <1>2, <1>3 DEF ChecksAreSound

\* A set is whole when it is approved, and nothing is added to it afterwards.
LEMMA WholeStep ==
    ASSUME TypeOK, Known, Next, ApprovedIsWhole
    PROVE  ApprovedIsWhole'
<1>. DEFINE Concerns(i, q) ==
                /\ sets'[i] # None /\ sets'[i].status = "approved" /\ ~sets'[i].written
                /\ questions'[q] # None /\ questions'[q].set = i
<1>. SUFFICES ASSUME NEW i \in SetIds, NEW q \in QuestionIds, Concerns(i, q)
              PROVE  questions'[q].approval = "approved"
  BY DEF ApprovedIsWhole, QuestionsOf, Approved
<1>. DEFINE Goal == questions'[q].approval = "approved"
<1>0. /\ questions[q] # None => questions[q] \in Question
      /\ sets[i] # None => sets[i] \in QuestionSet
  BY QuestionRow, SetRow
<1>1. ASSUME sets'[i] = sets[i], questions'[q] = questions[q] PROVE Goal
  BY <1>1 DEF ApprovedIsWhole, QuestionsOf, Approved
<1>2. ASSUME NEW sc \in Scope, NEW w \in BOOLEAN, FindOrCreateSet(sc, w) PROVE Goal
  <2>1. questions' = questions
    BY <1>2 DEF FindOrCreateSet
  <2>2. sets'[i] = sets[i] \/ sets'[i].status # "approved"
    <3>1. CASE \E k \in SetIds : Editable(k) /\ sets' = [sets EXCEPT ![k].written = w]
      BY <1>0, <3>1 DEF Editable, TypeOK, QuestionSet
    <3>2. CASE sets' = [sets EXCEPT ![last.set + 1] =
                          [scope |-> sc, written |-> w, status |-> "draft"]]
      BY <3>2 DEF TypeOK
    <3>. QED
      BY <1>2, <3>1, <3>2 DEF FindOrCreateSet
  <2>. QED
    BY <1>1, <2>1, <2>2
<1>3. ASSUME NEW k \in SetIds, AddQuestion(k) PROVE Goal
  <2>1. i # k /\ sets' = sets
    BY <1>3 DEF AddQuestion, Editable
  <2>2. q # last.question + 1
    BY <1>3, <2>1 DEF AddQuestion, TypeOK
  <2>. QED
    BY <1>1, <1>3, <2>1, <2>2 DEF AddQuestion, TypeOK
<1>4. ASSUME NEW k \in SetIds, SubmitWritten(k) PROVE Goal
  <2>1. i # k
    BY <1>0, <1>4 DEF SubmitWritten, TypeOK, QuestionSet
  <2>. QED
    BY <1>1, <1>4, <2>1 DEF SubmitWritten, TypeOK
<1>5. ASSUME NEW k \in SetIds, SubmitTerminal(k) PROVE Goal
  <2>1. \/ sets'[i] = sets[i]
        \/ sets[i] # None /\ sets'[i] = [sets[i] EXCEPT !.status = "submitted"]
    BY <1>5 DEF SubmitTerminal, Editable
  <2>2. sets'[i] = sets[i]
    BY <1>0, <2>1 DEF QuestionSet
  <2>. QED
    BY <1>1, <1>5, <2>2 DEF SubmitTerminal
<1>6. ASSUME NEW k \in SetIds, NEW a \in Approval, questions' = Judged({k}, a),
             NEW st, sets' = [sets EXCEPT ![k].status = st], st = "approved" => a = "approved"
      PROVE  Goal
  <2>1. CASE i = k
    <3>1. st = "approved"
      BY <1>0, <1>6, <2>1 DEF TypeOK, QuestionSet
    <3>2. questions[q] # None /\ questions[q].set = k
      BY <1>0, <1>6, <2>1 DEF Judged, Question
    <3>. QED
      BY <1>0, <1>6, <3>1, <3>2 DEF Judged, Question
  <2>2. CASE i # k
    <3>1. sets'[i] = sets[i]
      BY <1>6, <2>2 DEF TypeOK
    <3>2. questions'[q] = questions[q]
      BY <1>0, <1>6, <2>2 DEF Judged, Question
    <3>. QED
      BY <1>1, <3>1, <3>2
  <2>. QED
    BY <2>1, <2>2
<1>7. ASSUME NEW k \in SetIds, SubmitAlone(k) PROVE Goal
  BY <1>6, <1>7 DEF SubmitAlone, Approval
<1>8. ASSUME NEW k \in SetIds, NEW d \in {"approve", "return"}, ReviewSet(k, d) PROVE Goal
  <2>1. CASE d = "approve"
    <3>1. sets' = [sets EXCEPT ![k].status = "approved"] /\ questions' = Judged({k}, "approved")
      BY <1>8, <2>1 DEF ReviewSet
    <3>2. "approved" \in Approval
      BY DEF Approval
    <3>. QED
      BY <1>6, <3>1, <3>2
  <2>2. CASE d # "approve"
    <3>1. sets' = [sets EXCEPT ![k].status = "returned"] /\ questions' = Judged({k}, "revision")
      BY <1>8, <2>2 DEF ReviewSet
    <3>2. "revision" \in Approval /\ "returned" # "approved"
      BY DEF Approval
    <3>. QED
      BY <1>6, <3>1, <3>2
  <2>. QED
    BY <2>1, <2>2
<1>9. ASSUME NEW k \in SetIds, DeleteSet(k) PROVE Goal
  BY <1>1, <1>9 DEF DeleteSet, TypeOK
<1>10. ASSUME NEW s \in Series,
              \/ CreateSeries(s)
              \/ \E P \in SUBSET PaperIds : ScheduleSeries(s, P)
              \/ DeleteSeries(s)
       PROVE  UNCHANGED <<sets, questions>>
  BY <1>10 DEF CreateSeries, ScheduleSeries, DeleteSeries
<1>11. ASSUME NEW o \in Officers,
              (\E s \in Series : ComposeRead(o, s)) \/ ComposeWrite(o) \/ ComposeFails(o)
              \/ PublishSeries(o)
       PROVE  UNCHANGED <<sets, questions>>
  BY <1>11, PublishLeaves DEF ComposeRead, ComposeWrite, ComposeFails
<1>12. ASSUME \/ \E c \in Series \union {None} : SaveCollection(c)
              \/ \E p \in PaperIds : ReschedulePaper(p) \/ DeletePaper(p)
       PROVE  UNCHANGED <<sets, questions>>
  BY <1>12 DEF SaveCollection, ReschedulePaper, DeletePaper
<1>. HIDE DEF Goal, Concerns
<1>13. Goal
  BY <1>1, <1>2, <1>3, <1>4, <1>5, <1>7, <1>8, <1>9, <1>10, <1>11, <1>12 DEF Next, SubmitSet
<1>. QED
  BY <1>13 DEF Goal

-----------------------------------------------------------------------------
LEMMA InvariantInit == Init => IInv
BY BoundAssumption DEF Init, IInv, TypeOK, Known, JobsAreSound, PoolsAreApproved,
    PreparingHasNoPapers, ChecksAreSound, ApprovedIsWhole, PapersOf

LEMMA InvariantStep ==
    ASSUME IInv, [Next]_vars
    PROVE  IInv'
<1>1. CASE Next
  <2>1. TypeOK'
    BY TypeStep DEF IInv
  <2>2. Known'
    BY <1>1, <2>1, KnownStep DEF IInv
  <2>3. JobsAreSound'
    BY <1>1, <2>1, JobsStep DEF IInv
  <2>4. PoolsAreApproved'
    BY <1>1, <2>1, PoolsStep DEF IInv
  <2>5. PreparingHasNoPapers'
    BY <1>1, <2>1, PreparingStep DEF IInv
  <2>6. ChecksAreSound'
    BY <1>1, <2>1, ChecksStep DEF IInv
  <2>7. ApprovedIsWhole'
    BY <1>1, WholeStep DEF IInv
  <2>. QED
    BY <2>1, <2>2, <2>3, <2>4, <2>5, <2>6, <2>7 DEF IInv
<1>2. CASE UNCHANGED vars
  <2>1. TypeOK' /\ Known'
    BY <1>2 DEF vars, IInv, TypeOK, Known
  <2>2. JobsAreSound'
    BY <1>2 DEF vars, IInv, JobsAreSound, FillIsSound, Candidates
  <2>3. PoolsAreApproved'
    BY <1>2 DEF vars, IInv, PoolsAreApproved
  <2>4. PreparingHasNoPapers'
    BY <1>2 DEF vars, IInv, PreparingHasNoPapers, PapersOf
  <2>5. ChecksAreSound'
    BY <1>2 DEF vars, IInv, ChecksAreSound
  <2>6. ApprovedIsWhole'
    BY <1>2 DEF vars, IInv, ApprovedIsWhole, QuestionsOf, Approved
  <2>. QED
    BY <2>1, <2>2, <2>3, <2>4, <2>5, <2>6 DEF IInv
<1>. QED
  BY <1>1, <1>2

LEMMA InvariantHolds == Spec => []IInv
BY InvariantInit, InvariantStep, PTL DEF Spec

(***************************************************************************)
(* Every question on a paper was approved with its set, for any number of  *)
(* officers that compose while others delete sets and hand them in.        *)
(***************************************************************************)
THEOREM PapersAreOfApprovedQuestions == Spec => []PoolsAreApproved
<1>1. IInv => PoolsAreApproved
  BY DEF IInv
<1>. QED
  BY <1>1, InvariantHolds, PTL

(***************************************************************************)
(* Deleting an examination still being prepared deletes no paper.          *)
(***************************************************************************)
THEOREM DeletedSeriesHaveNoPapers == Spec => []PreparingHasNoPapers
<1>1. IInv => PreparingHasNoPapers
  BY DEF IInv
<1>. QED
  BY <1>1, InvariantHolds, PTL

(***************************************************************************)
(* A paper that publishing checked is published with a day and a sitting   *)
(* window, whatever happens between the check and the publication.         *)
(***************************************************************************)
THEOREM PublishedPapersHaveADay == Spec => PublishedHasADay
<1>1. IInv /\ [Next]_vars =>
        [\A p \in PaperIds :
            papers[p] # None /\ ~papers[p].published /\ papers'[p] # None /\ papers'[p].published =>
                \E o \in Officers :
                    /\ checked[o] # None /\ checked'[o] = None
                    /\ checked[o].series = papers[p].series
                    /\ p \in checked[o].seen /\ Kind[papers[p].series] # "practice" =>
                        papers[p].placed /\ papers[p].series \in sitting]_vars
  BY DayStep DEF IInv
<1>. QED
  BY <1>1, InvariantHolds, PTL DEF Spec, PublishedHasADay

(***************************************************************************)
(* No typed set shows as approved over a question that nobody approved.    *)
(***************************************************************************)
THEOREM ApprovedSetsAreWhole == Spec => []ApprovedIsWhole
<1>1. IInv => ApprovedIsWhole
  BY DEF IInv
<1>. QED
  BY <1>1, InvariantHolds, PTL

-----------------------------------------------------------------------------
(***************************************************************************)
(* Enough questions.  A typed paper holds whole sets, each with as many    *)
(* approved questions as a student answers: a compose copies what is left  *)
(* of a set it has counted, and that is all of it or nothing.              *)
(***************************************************************************)
FillIsEnough(s, f) ==
    /\ ~f.written => sets[f.set] = None \/ Cardinality(Approved(f.set)) >= PerStudent[s]
    /\ f.paper # None =>
        /\ ~f.written
        /\ papers[f.paper] # None => papers[f.paper].pool = {} \/ ~papers[f.paper].written

JobsAreEnough ==
    \A o \in Officers, t \in Topics :
        job[o] # None /\ job[o].fill[t] # None => FillIsEnough(job[o].series, job[o].fill[t])

HoldsWhole(p, q) ==
    LET i == questions[q].set IN
    /\ Approved(i) \subseteq papers[p].pool
    /\ Cardinality(Approved(i)) >= PerStudent[papers[p].series]

PoolsAreWhole ==
    \A p \in PaperIds : papers[p] # None /\ ~papers[p].written =>
        \A q \in papers[p].pool : HoldsWhole(p, q)

\* An approved set neither gains nor loses a question while it is there.
LEMMA ApprovedSetStays ==
    ASSUME TypeOK, Known, Next, NEW i \in SetIds, sets[i] # None, sets[i].status = "approved",
           ~DeleteSet(i)
    PROVE  /\ Approved(i)' = Approved(i)
           /\ \A q \in QuestionsOf(i) : questions'[q] = questions[q]
<1>. DEFINE Mine(q) == questions[q] # None /\ questions[q].set = i
            Same == \A q \in QuestionIds :
                        Mine(q) \/ (questions'[q] # None /\ questions'[q].set = i) =>
                            questions'[q] = questions[q]
<1>0. \A q \in QuestionIds : questions[q] # None => questions[q] \in Question
  BY QuestionRow
<1>1. ASSUME questions' = questions PROVE Same
  BY <1>1
<1>2. ASSUME NEW k \in SetIds, AddQuestion(k) PROVE Same
  <2>1. k # i
    BY <1>2 DEF AddQuestion, Editable
  <2>2. questions[last.question + 1] = None
    <3>1. last.question + 1 \in QuestionIds
      BY <1>2, LastRow, BoundAssumption DEF AddQuestion, QuestionIds
    <3>. QED
      BY <3>1, LastRow DEF Known
  <2>3. questions' = [questions EXCEPT ![last.question + 1] = [set |-> k, approval |-> "pending"]]
    BY <1>2 DEF AddQuestion
  <2>4. ASSUME NEW q \in QuestionIds, Mine(q) \/ (questions'[q] # None /\ questions'[q].set = i)
        PROVE  questions'[q] = questions[q]
    <3>1. CASE q = last.question + 1
      BY <2>1, <2>2, <2>3, <2>4, <3>1 DEF TypeOK
    <3>2. CASE q # last.question + 1
      BY <2>3, <3>2 DEF TypeOK
    <3>. QED
      BY <3>1, <3>2
  <2>. QED
    BY <2>4
<1>3. ASSUME NEW k \in SetIds \ {i}, NEW a, questions' = Judged({k}, a) PROVE Same
  BY <1>0, <1>3 DEF Judged, Question
<1>4. ASSUME NEW k \in SetIds, DeleteSet(k) PROVE Same
  <2>1. k # i
    BY <1>4
  <2>. QED
    BY <1>4, <2>1 DEF DeleteSet, QuestionsOf
<1>5. ASSUME NEW k \in SetIds, SubmitSet(k) PROVE Same
  <2>1. CASE SubmitWritten(k) \/ SubmitTerminal(k)
    BY <1>1, <2>1 DEF SubmitWritten, SubmitTerminal
  <2>2. CASE SubmitAlone(k)
    BY <1>3, <2>2 DEF SubmitAlone, Editable
  <2>. QED
    BY <1>5, <2>1, <2>2 DEF SubmitSet
<1>6. ASSUME NEW k \in SetIds, NEW d \in {"approve", "return"}, ReviewSet(k, d) PROVE Same
  BY <1>3, <1>6 DEF ReviewSet
<1>7. ASSUME NEW s \in Series,
             \/ CreateSeries(s)
             \/ \E P \in SUBSET PaperIds : ScheduleSeries(s, P)
             \/ DeleteSeries(s)
      PROVE  questions' = questions
  BY <1>7 DEF CreateSeries, ScheduleSeries, DeleteSeries
<1>8. ASSUME NEW o \in Officers,
              (\E s \in Series : ComposeRead(o, s)) \/ ComposeWrite(o) \/ ComposeFails(o)
              \/ PublishSeries(o)
       PROVE  questions' = questions
  BY <1>8, PublishLeaves DEF ComposeRead, ComposeWrite, ComposeFails
<1>9. ASSUME \/ \E c \in Series \union {None} : SaveCollection(c)
             \/ \E sc \in Scope, w \in BOOLEAN : FindOrCreateSet(sc, w)
             \/ \E p \in PaperIds : ReschedulePaper(p) \/ DeletePaper(p)
      PROVE  questions' = questions
  BY <1>9 DEF SaveCollection, FindOrCreateSet, ReschedulePaper, DeletePaper
<1>. HIDE DEF Same
<1>10. Same
  BY <1>1, <1>2, <1>4, <1>5, <1>6, <1>7, <1>8, <1>9 DEF Next
<1>. QED
  BY <1>10 DEF Same, Approved, QuestionsOf

\* What is left of a set that is no more.
LEMMA NothingLeft ==
    ASSUME TypeOK, Known, NEW i \in SetIds, sets[i] = None
    PROVE  Approved(i) = {}
BY DEF Known, Approved, QuestionsOf

\* What a compose reads is enough when it reads it.
LEMMA FillsEnough ==
    ASSUME NEW s \in Series, NEW t \in Topics, NEW f \in Fills(s, t), f # None
    PROVE  FillIsEnough(s, f)
<1>1. ASSUME NEW i \in Ready(s, t)
      PROVE  sets[i].written \/ Cardinality(Approved(i)) >= PerStudent[s]
  BY DEF Ready
<1>2. ASSUME NEW i \in Ready(s, t) PROVE FillIsEnough(s, From(None, i))
  BY <1>1 DEF FillIsEnough, From
<1>3. ASSUME NEW i \in Ready(s, t), ~sets[i].written,
             NEW p \in {p \in PapersFor(s, t) : papers[p].pool = {}}
      PROVE  FillIsEnough(s, From(p, i))
  BY <1>1, <1>3 DEF FillIsEnough, From
<1>4. f \in NewFills(s, t) \union OldFills(s, t)
  BY DEF Fills
<1>. QED
  BY <1>2, <1>3, <1>4 DEF NewFills, OldFills

LEMMA EnoughStays ==
    ASSUME IInv, TypeOK', Next,
           NEW s \in Series, NEW t \in Topics, NEW f \in Fill,
           FillIsSound(s, t, f), FillIsEnough(s, f)
    PROVE  FillIsEnough(s, f)'
<1>0. TypeOK /\ Known /\ f.set \in SetIds /\ f.set <= last.set /\ f.paper \in PaperIds \union {None}
  BY DEF IInv, FillIsSound, Fill
<1>1. ASSUME ~f.written, sets'[f.set] # None
      PROVE  Cardinality(Approved(f.set)') >= PerStudent[s]
  <2>1. sets[f.set] # None
    BY <1>0, <1>1, SetsStep, LastRow DEF SetIds
  <2>2. sets[f.set].status = "approved"
    BY <2>1 DEF FillIsSound, Candidates
  <2>3. ~DeleteSet(f.set)
    BY <1>0, <1>1 DEF DeleteSet, TypeOK
  <2>4. Approved(f.set)' = Approved(f.set)
    BY <1>0, <2>1, <2>2, <2>3, ApprovedSetStays
  <2>. QED
    BY <1>1, <2>1, <2>4 DEF FillIsEnough
<1>2. ASSUME f.paper # None, papers'[f.paper] # None
      PROVE  papers'[f.paper].pool = {} \/ ~papers'[f.paper].written
  <2>1. f.paper \in PaperIds /\ f.paper <= last.paper
    BY <1>0, <1>2 DEF FillIsSound
  <2>2. papers[f.paper] # None
    BY <1>0, <1>2, <2>1, PaperStays
  <2>3. papers[f.paper].pool = {} \/ ~papers[f.paper].written
    BY <1>2, <2>2 DEF FillIsEnough
  <2>4. CASE ~ \E o \in Officers : ComposeWrite(o)
    BY <1>0, <1>2, <2>1, <2>3, <2>4, PapersStep
  <2>5. ASSUME NEW o \in Officers, ComposeWrite(o)
        PROVE  papers'[f.paper].pool = {} \/ ~papers'[f.paper].written
    <3>1. papers'[f.paper] = Filled(job[o], f.paper) \/ papers'[f.paper] = papers[f.paper]
      BY <1>0, <2>1, <2>5, WrittenPapers, LastRow DEF PaperIds
    <3>2. papers[f.paper] \in Paper
      BY <1>0, <2>1, <2>2, PaperRow
    <3>. QED
      BY <2>3, <3>1, <3>2 DEF Filled, Paper
  <2>. QED
    BY <2>4, <2>5
<1>. QED
  BY <1>1, <1>2 DEF FillIsEnough

LEMMA JobsEnoughStep ==
    ASSUME IInv, IInv', JobsAreEnough, Next
    PROVE  JobsAreEnough'
<1>. SUFFICES ASSUME NEW o \in Officers, NEW t \in Topics,
                     job'[o] # None, job'[o].fill[t] # None
              PROVE  FillIsEnough(job[o].series, job[o].fill[t])'
  BY DEF JobsAreEnough
<1>0. TypeOK /\ TypeOK' /\ Known
  BY DEF IInv
<1>1. CASE job'[o] = job[o]
  <2>1. job[o].series \in Series /\ job[o].fill[t] \in Fill
    BY <1>0, <1>1, JobRow DEF Job
  <2>2. /\ FillIsSound(job[o].series, t, job[o].fill[t])
        /\ FillIsEnough(job[o].series, job[o].fill[t])
    BY <1>1 DEF IInv, JobsAreSound, JobsAreEnough
  <2>3. PICK s \in Series, f \in Fill : s = job[o].series /\ f = job[o].fill[t]
    BY <2>1
  <2>4. FillIsEnough(s, f)'
    BY <1>0, <2>2, <2>3, EnoughStays
  <2>5. s = job'[o].series /\ f = job'[o].fill[t]
    BY <1>1, <2>3
  <2>. QED
    BY <2>4, <2>5 DEF FillIsEnough, Approved, QuestionsOf
<1>2. ASSUME NEW s \in Series, ComposeRead(o, s)
      PROVE  FillIsEnough(job[o].series, job[o].fill[t])'
  <2>1. PICK fill \in [Topics -> UNION {Fills(s, u) : u \in Topics}] :
            /\ \A u \in Topics : fill[u] \in Fills(s, u)
            /\ job' = [job EXCEPT ![o] = [series |-> s, fill |-> fill]]
    BY <1>2 DEF ComposeRead
  <2>2. job'[o].series = s /\ job'[o].fill[t] = fill[t]
    BY <1>0, <2>1 DEF TypeOK
  <2>3. FillIsEnough(s, fill[t])
    BY <2>1, <2>2, FillsEnough
  <2>4. UNCHANGED <<sets, questions, papers>>
    BY <1>2 DEF ComposeRead
  <2>. QED
    BY <2>2, <2>3, <2>4 DEF FillIsEnough, Approved, QuestionsOf
<1>. QED
  BY <1>0, <1>1, <1>2, JobIsReadOrKept

\* A typed paper gains whole sets, and loses one only with all its questions.
LEMMA WholePoolsStep ==
    ASSUME IInv, IInv', JobsAreEnough, PoolsAreWhole, Next
    PROVE  PoolsAreWhole'
<1>. SUFFICES ASSUME NEW p \in PaperIds, papers'[p] # None, ~papers'[p].written,
                     NEW q \in papers'[p].pool
              PROVE  HoldsWhole(p, q)'
  BY DEF PoolsAreWhole
<1>0. TypeOK /\ TypeOK' /\ Known /\ papers'[p] \in Paper /\ q \in QuestionIds
  BY DEF IInv, TypeOK, Paper
<1>1. ASSUME papers[p] # None, q \in papers[p].pool
      PROVE  /\ questions[q] # None /\ questions[q].set \in SetIds
             /\ sets[questions[q].set] # None /\ sets[questions[q].set].status = "approved"
  BY <1>0, <1>1, QuestionRow DEF IInv, PoolsAreApproved, Question
<1>2. ASSUME ~ \E o \in Officers : ComposeWrite(o)
      PROVE  HoldsWhole(p, q)'
  <2>. DEFINE i == questions[q].set
  <2>1. /\ papers[p] # None /\ ~papers[p].written /\ q \in papers[p].pool
        /\ papers'[p].series = papers[p].series
        /\ \/ papers'[p].pool = papers[p].pool
           \/ \E k \in SetIds :
                DeleteSet(k) /\ papers'[p].pool = papers[p].pool \ QuestionsOf(k)
    BY <1>0, <1>2, PapersStep
  <2>2. HoldsWhole(p, q)
    BY <2>1 DEF PoolsAreWhole
  <2>3. q \in QuestionsOf(i) /\ i \in SetIds
    BY <1>0, <1>1, <2>1 DEF QuestionsOf
  <2>4. ~DeleteSet(i)
    <3>1. ASSUME DeleteSet(i) PROVE FALSE
      <4>1. papers'[p] = [papers[p] EXCEPT !.pool = @ \ QuestionsOf(i)]
        BY <2>1, <3>1 DEF DeleteSet
      <4>. QED
        BY <1>0, <2>1, <2>3, <4>1, PaperRow DEF Paper
    <3>. QED
      BY <3>1
  <2>5. Approved(i)' = Approved(i) /\ questions'[q] = questions[q]
    BY <1>0, <1>1, <2>1, <2>3, <2>4, ApprovedSetStays
  <2>6. Approved(i) \subseteq papers'[p].pool
    <3>1. ASSUME NEW k \in SetIds, DeleteSet(k) PROVE Approved(i) \cap QuestionsOf(k) = {}
      BY <2>4, <3>1 DEF Approved, QuestionsOf
    <3>. QED
      BY <2>1, <2>2, <3>1 DEF HoldsWhole
  <2>. QED
    BY <2>1, <2>2, <2>5, <2>6 DEF HoldsWhole
<1>3. ASSUME NEW o \in Officers, ComposeWrite(o)
      PROVE  HoldsWhole(p, q)'
  <2>. DEFINE j == job[o]
  <2>1. UNCHANGED <<sets, questions>> /\ j # None /\ j \in Job
    BY <1>0, <1>3, JobRow DEF ComposeWrite
  <2>2. ASSUME NEW t \in Topics, j.fill[t] # None, ~j.fill[t].written,
               q \in Approved(j.fill[t].set)
        PROVE  /\ questions[q].set = j.fill[t].set
               /\ Cardinality(Approved(questions[q].set)) >= PerStudent[j.series]
    <3>1. questions[q] # None /\ questions[q].set = j.fill[t].set
      BY <2>2 DEF Approved, QuestionsOf
    <3>2. sets[j.fill[t].set] # None
      BY <1>0, <3>1 DEF Known
    <3>3. FillIsEnough(j.series, j.fill[t])
      BY <2>1, <2>2 DEF JobsAreEnough
    <3>. QED
      BY <2>2, <3>1, <3>2, <3>3 DEF FillIsEnough
  <2>3. ASSUME NEW t \in NewOf(j), papers'[p] = NewPaper(j, t)
        PROVE  /\ Approved(questions[q].set) \subseteq papers'[p].pool
               /\ Cardinality(Approved(questions[q].set)) >= PerStudent[papers'[p].series]
    BY <2>2, <2>3 DEF NewPaper, NewOf
  <2>4. ASSUME papers[p] # None, NEW t \in OldOf(j), j.fill[t].paper = p,
               papers'[p] = Filled(j, p)
        PROVE  /\ Approved(questions[q].set) \subseteq papers'[p].pool
               /\ Cardinality(Approved(questions[q].set)) >= PerStudent[papers'[p].series]
    <3>1. papers[p] \in Paper /\ t \in Topics /\ j.fill[t] # None
      BY <1>0, <2>4, PaperRow DEF OldOf
    <3>2. FillIsSound(j.series, t, j.fill[t]) /\ FillIsEnough(j.series, j.fill[t])
      BY <2>1, <3>1 DEF IInv, JobsAreSound, JobsAreEnough
    <3>3. /\ papers[p].series = j.series /\ papers[p].topic = t /\ ~j.fill[t].written
          /\ papers[p].pool = {} \/ ~papers[p].written
      BY <2>4, <3>2, JobAssumption DEF FillIsSound, FillIsEnough
    <3>4. /\ papers'[p].series = j.series
          /\ papers'[p].pool = papers[p].pool \union Approved(j.fill[t].set)
      BY <2>4, <3>1, <3>3 DEF Filled, Paper
    <3>5. CASE q \in Approved(j.fill[t].set)
      BY <2>2, <3>1, <3>3, <3>4, <3>5
    <3>6. CASE q \in papers[p].pool
      BY <2>4, <3>3, <3>4, <3>6 DEF PoolsAreWhole, HoldsWhole
    <3>. QED
      BY <3>4, <3>5, <3>6
  <2>5. ASSUME papers'[p] = papers[p]
        PROVE  /\ Approved(questions[q].set) \subseteq papers'[p].pool
               /\ Cardinality(Approved(questions[q].set)) >= PerStudent[papers'[p].series]
    BY <2>5 DEF PoolsAreWhole, HoldsWhole
  <2>6. /\ Approved(questions[q].set) \subseteq papers'[p].pool
        /\ Cardinality(Approved(questions[q].set)) >= PerStudent[papers'[p].series]
    BY <1>0, <1>3, <2>3, <2>4, <2>5, WrittenPapers
  <2>. QED
    BY <2>1, <2>6 DEF HoldsWhole, Approved, QuestionsOf
<1>. QED
  BY <1>2, <1>3

LEMMA EnoughHolds == Spec => [](JobsAreEnough /\ PoolsAreWhole)
<1>. DEFINE E == JobsAreEnough /\ PoolsAreWhole
<1>1. Init => E
  BY DEF Init, JobsAreEnough, PoolsAreWhole
<1>2. IInv /\ IInv' /\ E /\ [Next]_vars => E'
  <2>. SUFFICES ASSUME IInv, IInv', E, [Next]_vars PROVE E'
    OBVIOUS
  <2>1. CASE Next
    BY <2>1, JobsEnoughStep, WholePoolsStep
  <2>2. CASE UNCHANGED vars
    BY <2>2 DEF vars, JobsAreEnough, FillIsEnough, PoolsAreWhole, HoldsWhole, Approved, QuestionsOf
  <2>. QED
    BY <2>1, <2>2
<1>. HIDE DEF E
<1>3. Spec => []E
  BY <1>1, <1>2, InvariantHolds, PTL DEF Spec
<1>. QED
  BY <1>3, PTL DEF E

(***************************************************************************)
(* "A paper short of questions is not composed": composeSeries counts with *)
(* one statement and copies with another, and for any number of questions  *)
(* and of officers composing at once a typed paper is never left with      *)
(* fewer than a student answers, but for none at all.                      *)
(***************************************************************************)
THEOREM PapersHaveNoneOrEnough == Spec => []NoneOrEnough
<1>1. TypeOK /\ PoolsAreWhole => NoneOrEnough
  <2>. SUFFICES ASSUME TypeOK, PoolsAreWhole,
                       NEW p \in PaperIds, papers[p] # None, ~papers[p].written,
                       NEW q \in papers[p].pool
                PROVE  Cardinality(papers[p].pool) >= PerStudent[papers[p].series]
    BY DEF NoneOrEnough
  <2>. DEFINE whole == Approved(questions[q].set)
  <2>1. whole \subseteq papers[p].pool /\ Cardinality(whole) >= PerStudent[papers[p].series]
    BY DEF PoolsAreWhole, HoldsWhole
  <2>2. papers[p].pool \subseteq 1..MaxQuestions /\ PerStudent[papers[p].series] \in Nat
    BY PaperRow, SeriesAssumption DEF Paper, QuestionIds
  <2>3. IsFiniteSet(1..MaxQuestions)
    BY BoundAssumption, FS_Interval
  <2>4. IsFiniteSet(papers[p].pool) /\ IsFiniteSet(whole)
          /\ Cardinality(whole) <= Cardinality(papers[p].pool)
    BY <2>1, <2>2, <2>3, FS_Subset
  <2>5. Cardinality(whole) \in Nat /\ Cardinality(papers[p].pool) \in Nat
    BY <2>4, FS_CardinalityType
  <2>. QED
    BY <2>1, <2>2, <2>4, <2>5
<1>2. IInv => TypeOK
  BY DEF IInv
<1>. QED
  BY <1>1, <1>2, InvariantHolds, EnoughHolds, PTL
=============================================================================
