----------------------------- MODULE ExamPapers -----------------------------
(***************************************************************************)
(* From the questions teachers write to the papers candidates sit:         *)
(* question sets and their review (src/lib/exam/sets.ts, collection.ts),   *)
(* the examinations and their papers (compose.ts, timetable.ts).           *)
(*                                                                         *)
(* Writing, handing in and reviewing take the authoring lock, so each is   *)
(* one step.  Composing takes no lock and reads before it writes: it is    *)
(* two steps, and other transactions commit between them; so is            *)
(* publishing. Who may do what is left out, and a day on the timetable is  *)
(* only whether a paper has one.                                           *)
(***************************************************************************)
EXTENDS Integers, FiniteSets, Functions

CONSTANTS
    Series,         \* examinations, CA tests and practice papers
    Kind,           \* exam_series.series_type
    Term,           \* exam_series.term_id
    Mode,           \* exam_series.assessment_mode
    PerStudent,     \* exam_series.questions_per_student
    Topics,         \* a subject at a level: what a paper is for
    Streams,        \* department and WAEC structure: what else tells sets apart
    Officers,       \* the requests of the office that may compose or publish at once
    Quota,          \* question_sets.min_required of each half
    None            \* SQL null, and "no such row"

ASSUME SeriesAssumption ==
    /\ Kind \in [Series -> {"examination", "ca_test", "practice"}]
    /\ Mode \in [Series -> {"cbt", "written", "mixed"}]
    /\ PerStudent \in [Series -> Nat \ {0}]
    /\ Quota \in [{"objective", "theory"} -> Nat \ {0}]
    /\ IsFiniteSet(Topics)

(***************************************************************************)
(* Bounds of the model: the tables have none of them.                      *)
(***************************************************************************)
CONSTANTS MaxSets, MaxQuestions, MaxPapers

ASSUME BoundAssumption == {MaxSets, MaxQuestions, MaxPapers} \subseteq Nat

SetIds == 1..MaxSets
QuestionIds == 1..MaxQuestions
PaperIds == 1..MaxPapers

Terms == {Term[s] : s \in Series}
Halves == {"objective", "theory"}

\* The terminal bank, question_sets.series_id = 0, is written None here.
Scope == [bank : Series \union {None}, term : Terms, topic : Topics,
          stream : Streams, half : Halves]

QuestionSet == [scope : Scope, written : BOOLEAN,
                status : {"draft", "submitted", "returned", "approved"}]

Approval == {"pending", "approved", "revision"}

Question == [set : SetIds, approval : Approval]

Paper == [series : Series, topic : Topics, pool : SUBSET QuestionIds,
          written : BOOLEAN, placed : BOOLEAN, published : BOOLEAN]

ASSUME NoneAssumption ==
    /\ None \notin Series
    /\ None \notin QuestionSet /\ None \notin Question /\ None \notin Paper

VARIABLES
    status,         \* per series: exam_series.status, "none" before, "gone" after
    collecting,     \* the series teachers may write for now: settings.questionBank.seriesId,
                    \* None also while its submission dates do not include today
    sitting,        \* the series with a sitting window
    sets,           \* question_sets
    questions,      \* questions, with their options
    papers,         \* exam_papers, with their paper_questions
    last,           \* the highest id given to a set, a question and a paper
    job,            \* per officer: what a compose in progress has decided
    checked         \* per officer: what a publication in progress has checked

vars == <<status, collecting, sitting, sets, questions, papers, last, job, checked>>

\* What a compose does for one topic: nothing, or fill a paper from a set.
Fill == [paper : PaperIds \union {None}, set : SetIds, written : BOOLEAN]

Job == [series : Series, fill : [Topics -> Fill \union {None}]]

\* The papers a publication found ready, and whether the series was published.
Check == [series : Series, seen : SUBSET PaperIds, again : BOOLEAN]

ASSUME JobAssumption ==
    None \notin Fill /\ None \notin Job /\ None \notin PaperIds /\ None \notin Check

\* Types of the tables; a paper's pool and a job name possible rows.
TypeOK ==
    /\ status \in [Series -> {"none", "draft", "composed", "published", "gone"}]
    /\ collecting \in Series \union {None}
    /\ sitting \subseteq Series
    /\ sets \in [SetIds -> QuestionSet \union {None}]
    /\ questions \in [QuestionIds -> Question \union {None}]
    /\ papers \in [PaperIds -> Paper \union {None}]
    /\ last \in [set : 0..MaxSets, question : 0..MaxQuestions, paper : 0..MaxPapers]
    /\ job \in [Officers -> Job \union {None}]
    /\ checked \in [Officers -> Check \union {None}]

Init ==
    /\ status = [s \in Series |-> "none"]
    /\ collecting = None /\ sitting = {}
    /\ sets = [i \in SetIds |-> None]
    /\ questions = [q \in QuestionIds |-> None]
    /\ papers = [p \in PaperIds |-> None]
    /\ last = [set |-> 0, question |-> 0, paper |-> 0]
    /\ job = [o \in Officers |-> None]
    /\ checked = [o \in Officers |-> None]

Exists(s) == status[s] \in {"draft", "composed", "published"}

Idle(o) == job[o] = None /\ checked[o] = None

-----------------------------------------------------------------------------
(***************************************************************************)
(* Writing and handing in.                                                 *)
(***************************************************************************)

\* The series whose submission window governs a set (permittedCollection).
Governing(sc) == IF sc.bank = None THEN collecting ELSE sc.bank

CollectionOpen(sc) ==
    LET s == Governing(sc) IN
    /\ s # None
    /\ Exists(s)
    /\ Term[s] = sc.term
    /\ (sc.bank = None) <=> (Kind[s] = "examination")
    /\ Kind[s] # "practice" => collecting = s /\ status[s] = "draft"
    /\ Kind[s] # "examination" => sc.half = "objective"

\* Mutant: whatever is not being reviewed may be edited.
EditableUntilSubmitted(i) == sets[i] # None /\ sets[i].status # "submitted"

Editable(i) == sets[i] # None /\ sets[i].status \in {"draft", "returned"}

QuestionsOf(i) == {q \in QuestionIds : questions[q] # None /\ questions[q].set = i}

Approved(i) == {q \in QuestionsOf(i) : questions[q].approval = "approved"}

\* The questions with those of the sets I given the approval a.
Judged(I, a) ==
    [q \in QuestionIds |->
        IF questions[q] # None /\ questions[q].set \in I
        THEN [questions[q] EXCEPT !.approval = a]
        ELSE questions[q]]

\* The other half of a terminal examination, or no set.
Siblings(i) ==
    {j \in SetIds \ {i} : /\ sets[j] # None
                          /\ sets[j].scope.half # sets[i].scope.half
                          /\ sets[j].scope = [sets[i].scope EXCEPT !.half = sets[j].scope.half]}

Enough(i) == Cardinality(QuestionsOf(i)) >= Quota[sets[i].scope.half]

CreateSeries(s) ==
    /\ status[s] = "none"
    /\ status' = [status EXCEPT ![s] = "draft"]
    /\ UNCHANGED <<collecting, sitting, sets, questions, papers, last, job, checked>>

\* The office opens a collection or closes it; a window also ends by itself.
SaveCollection(c) ==
    /\ c # None => status[c] = "draft" /\ Kind[c] # "practice"
    /\ collecting' = c
    /\ UNCHANGED <<status, sitting, sets, questions, papers, last, job, checked>>

FindOrCreateSet(sc, w) ==
    /\ CollectionOpen(sc)
    /\ \/ /\ \A i \in SetIds : sets[i] # None => sets[i].scope # sc
          /\ last.set < MaxSets
          /\ last' = [last EXCEPT !.set = @ + 1]
          /\ sets' = [sets EXCEPT ![last.set + 1] =
                        [scope |-> sc, written |-> w, status |-> "draft"]]
       \/ \E i \in SetIds :
            /\ Editable(i) /\ sets[i].scope = sc
            /\ sets' = [sets EXCEPT ![i].written = w]
            /\ UNCHANGED last
    /\ UNCHANGED <<status, collecting, sitting, questions, papers, job, checked>>

AddQuestion(i) ==
    /\ Editable(i) /\ CollectionOpen(sets[i].scope)
    /\ last.question < MaxQuestions
    /\ last' = [last EXCEPT !.question = @ + 1]
    /\ questions' = [questions EXCEPT ![last.question + 1] = [set |-> i, approval |-> "pending"]]
    /\ UNCHANGED <<status, collecting, sitting, sets, papers, job, checked>>

\* The series says how it is assessed, and the set must agree with it.
Agrees(i) ==
    LET mode == Mode[Governing(sets[i].scope)] IN
    mode # "mixed" => (sets[i].written <=> mode = "written")

\* A written paper hands in an intent; only in a mixed series is it reviewed.
SubmitWritten(i) ==
    /\ Editable(i) /\ CollectionOpen(sets[i].scope) /\ Agrees(i)
    /\ sets[i].written
    /\ sets' = [sets EXCEPT ![i].status =
                    IF Mode[Governing(sets[i].scope)] = "mixed" THEN "submitted" ELSE "approved"]
    /\ UNCHANGED <<status, collecting, sitting, questions, papers, last, job, checked>>

\* The halves of a terminal examination are handed in together.
SubmitTerminal(i) ==
    /\ Editable(i) /\ CollectionOpen(sets[i].scope) /\ Agrees(i)
    /\ ~sets[i].written /\ sets[i].scope.bank = None
    /\ Enough(i)
    /\ \E j \in Siblings(i) :
        /\ Editable(j) \/ sets[j].status = "approved"
        /\ Enough(j)
        /\ sets' = [k \in SetIds |->
                        IF k = i \/ (k = j /\ Editable(j))
                        THEN [sets[k] EXCEPT !.status = "submitted"]
                        ELSE sets[k]]
    /\ UNCHANGED <<status, collecting, sitting, questions, papers, last, job, checked>>

\* CA tests and practice papers are approved as they are handed in.
SubmitAlone(i) ==
    /\ Editable(i) /\ CollectionOpen(sets[i].scope) /\ Agrees(i)
    /\ ~sets[i].written /\ sets[i].scope.bank # None
    /\ Enough(i)
    /\ sets' = [sets EXCEPT ![i].status = "approved"]
    /\ questions' = Judged({i}, "approved")
    /\ UNCHANGED <<status, collecting, sitting, papers, last, job, checked>>

SubmitSet(i) == SubmitWritten(i) \/ SubmitTerminal(i) \/ SubmitAlone(i)

ReviewSet(i, decision) ==
    /\ sets[i] # None /\ sets[i].status = "submitted"
    /\ sets' = [sets EXCEPT ![i].status = IF decision = "approve" THEN "approved" ELSE "returned"]
    /\ questions' = Judged({i}, IF decision = "approve" THEN "approved" ELSE "revision")
    /\ UNCHANGED <<status, collecting, sitting, papers, last, job, checked>>

\* The office may delete a set in any state.  Its questions go with it, and
\* paper_questions reference them ON DELETE CASCADE.
DeleteSet(i) ==
    /\ sets[i] # None
    /\ sets' = [sets EXCEPT ![i] = None]
    /\ questions' = [q \in QuestionIds |-> IF q \in QuestionsOf(i) THEN None ELSE questions[q]]
    /\ papers' = [p \in PaperIds |->
                    IF papers[p] = None THEN None
                    ELSE [papers[p] EXCEPT !.pool = @ \ QuestionsOf(i)]]
    /\ UNCHANGED <<status, collecting, sitting, last, job, checked>>

-----------------------------------------------------------------------------
(***************************************************************************)
(* Composing.  A transaction reads the candidate sets and the papers there *)
(* are (ComposeRead), and then writes (ComposeWrite) or is rolled back.    *)
(***************************************************************************)

\* Mutant: the theory half of an examination composes as well.
CandidatesOfBothHalves(s) ==
    {i \in SetIds : /\ sets[i] # None
                    /\ sets[i].status = "approved"
                    /\ sets[i].scope.bank = IF Kind[s] = "examination" THEN None ELSE s}

\* poolCandidates: approved objective sets of the terminal bank, of any term,
\* or of the series itself.
Candidates(s) ==
    {i \in SetIds : /\ sets[i] # None
                    /\ sets[i].status = "approved"
                    /\ sets[i].scope.half = "objective"
                    /\ sets[i].scope.bank = IF Kind[s] = "examination" THEN None ELSE s}

\* Mutant: one question short will do.
ReadyOneShort(s, t) ==
    {i \in Candidates(s) : /\ sets[i].scope.topic = t
                           /\ sets[i].written \/ Cardinality(Approved(i)) >= PerStudent[s] - 1}

Ready(s, t) ==
    {i \in Candidates(s) : /\ sets[i].scope.topic = t
                           /\ sets[i].written \/ Cardinality(Approved(i)) >= PerStudent[s]}

PapersFor(s, t) ==
    {p \in PaperIds : papers[p] # None /\ papers[p].series = s /\ papers[p].topic = t}

From(p, i) == [paper |-> p, set |-> i, written |-> sets[i].written]

\* Where there is no paper: the first candidate makes one, whichever it is, and
\* of what comes after only typed questions may still fill one left empty.
NewFills(s, t) ==
    LET typed == {i \in Ready(s, t) : ~sets[i].written}
        intent == Ready(s, t) \ typed
    IN  {From(None, i) : i \in typed \union {j \in intent : Approved(j) # {} \/ typed = {}}}

\* Where there is one: it is left alone unless it is empty.
OldFills(s, t) ==
    {From(p, i) : p \in {p \in PapersFor(s, t) : papers[p].pool = {}},
                  i \in {i \in Ready(s, t) : ~sets[i].written}}

Fills(s, t) ==
    LET new == NewFills(s, t)
        old == OldFills(s, t)
    IN  IF PapersFor(s, t) = {}
        THEN IF new = {} THEN {None} ELSE new
        ELSE IF old = {} \/ \E p \in PapersFor(s, t) : papers[p].pool # {}
             THEN old \union {None} ELSE old

\* Nothing to do leaves no trace and is not a step.
ComposeRead(o, s) ==
    /\ Idle(o)
    /\ Exists(s)
    /\ \E fill \in [Topics -> UNION {Fills(s, t) : t \in Topics}] :
        /\ \A t \in Topics : fill[t] \in Fills(s, t)
        /\ \E t \in Topics : fill[t] # None
        /\ job' = [job EXCEPT ![o] = [series |-> s, fill |-> fill]]
    /\ UNCHANGED <<status, collecting, sitting, sets, questions, papers, last, checked>>

\* The topics of a job that get a new paper, and that get one filled.
NewOf(j) == {t \in Topics : j.fill[t] # None /\ j.fill[t].paper = None}
OldOf(j) == {t \in Topics : j.fill[t] # None /\ j.fill[t].paper # None}

\* Foreign keys and the unique (paper, question) hold for what it inserts.
Insertable(j) ==
    /\ Exists(j.series)
    /\ \A t \in OldOf(j) : LET f == j.fill[t] IN
        IF papers[f.paper] = None
        THEN Approved(f.set) = {}
        ELSE papers[f.paper].pool \intersect Approved(f.set) = {}

NewPaper(j, t) ==
    [series |-> j.series, topic |-> t, pool |-> Approved(j.fill[t].set),
     written |-> j.fill[t].written, placed |-> FALSE, published |-> FALSE]

Filled(j, p) ==
    LET f == j.fill[papers[p].topic]
    IN  [papers[p] EXCEPT !.pool = @ \union Approved(f.set), !.written = FALSE]

\* Even of a series that was published.
Composed(s) == [status EXCEPT ![s] = "composed"]

ComposeWrite(o) ==
    LET j == job[o]
        ids == (last.paper + 1)..(last.paper + Cardinality(NewOf(j)))
    IN
    /\ j # None
    /\ Insertable(j)
    /\ last.paper + Cardinality(NewOf(j)) <= MaxPapers
    /\ \E topic \in Bijection(ids, NewOf(j)) :
        papers' = [p \in PaperIds |->
                    IF p \in ids THEN NewPaper(j, topic[p])
                    ELSE IF papers[p] # None /\ \E t \in OldOf(j) : j.fill[t].paper = p
                         THEN Filled(j, p)
                    ELSE papers[p]]
    /\ last' = [last EXCEPT !.paper = @ + Cardinality(NewOf(j))]
    /\ status' = Composed(j.series)
    /\ job' = [job EXCEPT ![o] = None]
    /\ UNCHANGED <<collecting, sitting, sets, questions, checked>>

\* Refused by a constraint, or the request died: nothing was written.
ComposeFails(o) ==
    /\ job[o] # None
    /\ job' = [job EXCEPT ![o] = None]
    /\ UNCHANGED <<status, collecting, sitting, sets, questions, papers, last, checked>>

-----------------------------------------------------------------------------
(***************************************************************************)
(* What becomes of the papers.                                             *)
(***************************************************************************)
PapersOf(s) == {p \in PaperIds : papers[p] # None /\ papers[p].series = s}

\* Each paper is given a day; those the days have no room for keep what they had.
ScheduleSeries(s, P) ==
    /\ Exists(s) /\ Kind[s] # "practice"
    /\ P \subseteq PapersOf(s) /\ P # {}
    /\ papers' = [p \in PaperIds |->
                    IF p \in P THEN [papers[p] EXCEPT !.placed = TRUE] ELSE papers[p]]
    /\ sitting' = sitting \union {s}
    /\ UNCHANGED <<status, collecting, sets, questions, last, job, checked>>

\* One paper is moved, or given the day it did not get (rescheduleExam).
ReschedulePaper(p) ==
    /\ papers[p] # None
    /\ papers' = [papers EXCEPT ![p].placed = TRUE]
    /\ UNCHANGED <<status, collecting, sitting, sets, questions, last, job, checked>>

\* Mutant: the series was scheduled, whichever papers it had.
PublishableOnceScheduled(s) ==
    /\ PapersOf(s) # {}
    /\ Kind[s] # "practice" => s \in sitting

Publishable(s) ==
    /\ PapersOf(s) # {}
    /\ Kind[s] # "practice" => s \in sitting /\ \A p \in PapersOf(s) : papers[p].placed

\* Publishing checks the papers there are (PublishRead) and then publishes the
\* drafts there are (PublishWrite): a paper composed between is not checked.
PublishRead(o, s) ==
    /\ Idle(o)
    /\ Exists(s)
    /\ Publishable(s)
    /\ checked' = [checked EXCEPT ![o] =
                    [series |-> s, seen |-> PapersOf(s), again |-> status[s] = "published"]]
    /\ UNCHANGED <<status, collecting, sitting, sets, questions, papers, last, job>>

Drafts(s) == {p \in PapersOf(s) : ~papers[p].published}

PublishWrite(o) ==
    LET c == checked[o] IN
    /\ c # None
    /\ c.again => Drafts(c.series) # {}
    /\ papers' = [p \in PaperIds |->
                    IF p \in Drafts(c.series)
                    THEN [papers[p] EXCEPT !.published = TRUE] ELSE papers[p]]
    /\ status' = [status EXCEPT ![c.series] = "published"]
    /\ checked' = [checked EXCEPT ![o] = None]
    /\ UNCHANGED <<collecting, sitting, sets, questions, last, job>>

\* Already published, or the request died: nothing was written.
PublishFails(o) ==
    /\ checked[o] # None
    /\ checked' = [checked EXCEPT ![o] = None]
    /\ UNCHANGED <<status, collecting, sitting, sets, questions, papers, last, job>>

PublishSeries(o) == (\E s \in Series : PublishRead(o, s)) \/ PublishWrite(o) \/ PublishFails(o)

\* Papers go with their series.
DeleteSeries(s) ==
    /\ status[s] = "draft"
    /\ status' = [status EXCEPT ![s] = "gone"]
    /\ papers' = [p \in PaperIds |-> IF p \in PapersOf(s) THEN None ELSE papers[p]]
    /\ UNCHANGED <<collecting, sitting, sets, questions, last, job, checked>>

DeletePaper(p) ==
    /\ papers[p] # None /\ ~papers[p].published
    /\ papers' = [papers EXCEPT ![p] = None]
    /\ UNCHANGED <<status, collecting, sitting, sets, questions, last, job, checked>>

-----------------------------------------------------------------------------
Next ==
    \/ \E s \in Series :
        \/ CreateSeries(s)
        \/ \E P \in SUBSET PaperIds : ScheduleSeries(s, P)
        \/ DeleteSeries(s)
    \/ \E c \in Series \union {None} : SaveCollection(c)
    \/ \E sc \in Scope, w \in BOOLEAN : FindOrCreateSet(sc, w)
    \/ \E i \in SetIds :
        \/ AddQuestion(i)
        \/ SubmitSet(i)
        \/ \E decision \in {"approve", "return"} : ReviewSet(i, decision)
        \/ DeleteSet(i)
    \/ \E o \in Officers :
        \/ \E s \in Series : ComposeRead(o, s)
        \/ ComposeWrite(o)
        \/ ComposeFails(o)
        \/ PublishSeries(o)
    \/ \E p \in PaperIds : ReschedulePaper(p) \/ DeletePaper(p)

Spec == Init /\ [][Next]_vars

-----------------------------------------------------------------------------
(***************************************************************************)
(* Properties.                                                             *)
(***************************************************************************)

(* "Only approved sets compose": whatever is deleted, handed in or         *)
(* composed meanwhile, every question on a paper exists, was approved, and *)
(* belongs to an approved objective set of the paper's own subject and     *)
(* bank (compose.ts, poolCandidates and composeSeries).                    *)
PoolsAreApproved ==
    \A p \in PaperIds : papers[p] # None =>
        \A q \in papers[p].pool :
            /\ questions[q] # None /\ questions[q].approval = "approved"
            /\ LET i == questions[q].set IN
                /\ sets[i] # None /\ sets[i].status = "approved"
                /\ sets[i].scope.half = "objective"
                /\ sets[i].scope.topic = papers[p].topic
                /\ sets[i].scope.bank =
                    IF Kind[papers[p].series] = "examination" THEN None ELSE papers[p].series

(* "A paper short of questions is not composed": a typed paper has all the *)
(* questions a student answers, or has lost every one with its set; it is  *)
(* never quietly shortened, though the questions are counted by one        *)
(* statement and copied by a later one (composeSeries).                    *)
NoneOrEnough ==
    \A p \in PaperIds : papers[p] # None /\ ~papers[p].written =>
        papers[p].pool = {} \/ Cardinality(papers[p].pool) >= PerStudent[papers[p].series]

(* Only an examination still being prepared can be deleted, because there  *)
(* is nothing in it to lose: such a series has no papers (composeSeries,   *)
(* deleteSeries).                                                          *)
PreparingHasNoPapers ==
    \A s \in Series : status[s] \in {"none", "draft", "gone"} => PapersOf(s) = {}

(* A paper of an examination or a CA test is published with a day and a    *)
(* sitting window, although papers are composed, moved, deleted and        *)
(* published again between the check and the publication - unless the      *)
(* check did not see it (publishSeries).                                   *)
PublishedHasADay ==
    [][\A p \in PaperIds :
        papers[p] # None /\ ~papers[p].published /\ papers'[p] # None /\ papers'[p].published =>
            \E o \in Officers :
                /\ checked[o] # None /\ checked'[o] = None
                /\ checked[o].series = papers[p].series
                /\ p \in checked[o].seen /\ Kind[papers[p].series] # "practice" =>
                    papers[p].placed /\ papers[p].series \in sitting]_vars

(* "The two can never disagree": no typed set shows as approved while it   *)
(* holds a question that nobody approved, whichever questions are added    *)
(* and whichever half is handed in or sent back meanwhile (reviewSet,      *)
(* submitSet).                                                             *)
ApprovedIsWhole ==
    \A i \in SetIds :
        sets[i] # None /\ sets[i].status = "approved" /\ ~sets[i].written =>
            QuestionsOf(i) \subseteq Approved(i)

(* "Re-composing does not duplicate": a series has one paper for a subject *)
(* and level (composeSeries).                                              *)
OnePaper ==
    \A s \in Series, t \in Topics : Cardinality(PapersFor(s, t)) <= 1
=============================================================================
