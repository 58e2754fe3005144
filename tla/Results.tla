-------------------------------- MODULE Results --------------------------------
(***************************************************************************)
(* The results of a term: marks are entered, a class is compiled, and its  *)
(* results are reviewed, published, locked and taken back                  *)
(* (src/lib/results/workflow.ts, src/lib/exam/results.ts), while           *)
(* registrations, classes and standings change around them.                *)
(*                                                                         *)
(* Score entry, compilation and lifecycle changes hold the lock of the     *)
(* term (src/lib/ca/lock.ts).  Everything else does not: an examination    *)
(* may be handed in, or a student leave, between what compileClassResults  *)
(* or transitionClassResults reads and what it writes.  Their transaction  *)
(* is `job': a Begin action takes the lock and reads, a Finish writes.     *)
(***************************************************************************)
EXTENDS ResultRules

CONSTANTS
    Classes,
    Core,           \* the compulsory subjects
    Written,        \* the subjects examined on paper, the mark typed in
    Policies,       \* the ranking policies the school may choose
    Starts,         \* how far marking may have got at the start
    Populated,      \* the classes that have students at the start
    Movable,        \* students whose class the office may change
    Returning,      \* students the office may reinstate
    AllSubjects,    \* no onlySubject
    MaxChanges      \* bound: changes of marks, classes, subjects and settings

ASSUME SubjectAssumption ==
    Core \subseteq Subjects /\ Written \subseteq Subjects /\ AllSubjects \notin Subjects
ASSUME PolicyAssumption == Policies \subseteq Policy
ASSUME StartAssumption == Starts \subseteq Work
ASSUME OfficeAssumption ==
    Populated \subseteq Classes /\ Movable \subseteq Students /\ Returning \subseteq Students

VARIABLES
    classOf,        \* enrollments.class_id of the session
    enrolment,      \* its status
    active,         \* the students whose standing is active
    registered,     \* student_subjects
    offered,        \* the subjects that are not retired
    work,           \* assessment_scores, attempts and their answers
    config,         \* the school's academic settings
    row,            \* subject_results
    audit,          \* per class: the latest results.compiled in the audit log
    job,            \* the compilation or transition that holds the term's lock
    changes

inputs == <<classOf, enrolment, active, registered, offered, work, config>>
vars == <<inputs, row, audit, job, changes>>

Config == [scale : Nat \ {0}, policy : Policies]

\* What is stored of a result besides its state.
Value == [work : Work, position : Nat, size : Nat, config : Config]

Row == [state : States, published : BOOLEAN, complete : BOOLEAN, value : Value]

NoRow == [state |-> "none"]

\* What inputs() reads for a class; its SHA-256 is the fingerprint.
Data == [students : SUBSET Students, offerings : SUBSET Pairs, work : [Pairs -> Work],
         config : Config]

NoAudit == [scope |-> "none"]
Audit == [scope : {"class", "subject"}, data : Data]

NoJob == [kind |-> "none"]
Job == [kind : {"compile"}, class : Classes, only : Subjects \union {AllSubjects}, data : Data]
         \union [kind : {"transition"}, class : Classes, to : States, data : Data]

TypeOK ==
    /\ classOf \in [Students -> Classes]
    /\ enrolment \in [Students -> {"none", "active", "inactive"}]
    /\ active \subseteq Students
    /\ registered \subseteq Pairs
    /\ offered \subseteq Subjects
    /\ work \in [Pairs -> Work]
    /\ config \in Config
    /\ row \in [Pairs -> Row \union {NoRow}]
    /\ audit \in [Classes -> Audit \union {NoAudit}]
    /\ job \in Job \union {NoJob}
    /\ changes \in Nat

HasRow(p) == row[p] # NoRow

\* A closed result is reviewed, published or locked.
Closed(r) == r.state \in {"reviewed", "published", "locked"}

Enrolled == {s \in Students : enrolment[s] = "active"}

Blank == [ca |-> NoMark, exam |-> NoMark]

\* Before the first compilation of the term.
Init ==
    /\ classOf \in [Students -> Populated]
    /\ enrolment \in [Students -> {"none", "active"}]
    /\ active = Enrolled
    /\ registered = Enrolled \X Subjects
    /\ offered = Subjects
    /\ \E start \in Starts :
          work = [p \in Pairs |-> IF p[1] \in Enrolled THEN start ELSE Blank]
    /\ \E policy \in Policies : config = [scale |-> 1, policy |-> policy]
    /\ row = [p \in Pairs |-> NoRow]
    /\ audit = [c \in Classes |-> NoAudit]
    /\ job = NoJob
    /\ changes = 0

-----------------------------------------------------------------------------
(***************************************************************************)
(* Score entry, under the lock.                                            *)
(***************************************************************************)
Change ==
    /\ changes < MaxChanges
    /\ changes' = changes + 1

LockFree == job = NoJob

\* Only an editable result, or none, lets its marks be changed ...
Correctable(p) == ~Closed(row[p])

\* ... and a compiled one is a draft again, to be compiled anew.
Stale(r) == IF r.state = "compiled" THEN [r EXCEPT !.state = "draft", !.complete = FALSE] ELSE r

Correct(corrected) ==
    row' = [p \in Pairs |-> IF p \in corrected THEN Stale(row[p]) ELSE row[p]]

\* validateCaContext.
MayScore(p) ==
    /\ p[1] \in active \intersect Enrolled
    /\ p \in registered
    /\ p[2] \in offered

\* enterScore: a CA component, or the mark of an examination written on paper.
EnterScore(p, m) ==
    /\ Change
    /\ LockFree
    /\ MayScore(p)
    /\ Correctable(p)
    /\ \/ work' = [work EXCEPT ![p].ca = m]
       \/ /\ p[2] \in Written
          /\ work' = [work EXCEPT ![p].exam = m]
    /\ Correct({p})
    /\ UNCHANGED <<classOf, enrolment, active, registered, offered, config, audit, job>>

(***************************************************************************)
(* saveModeration: scores for several students of a class, all or none.    *)
(* It then asks for a compilation of the class in a transaction of its     *)
(* own, which may be refused or never come: BeginCompile.                  *)
(***************************************************************************)
Moderate(c, entries, m) ==
    /\ Change
    /\ LockFree
    /\ entries \subseteq registered
    /\ \A p \in entries : /\ p[1] \in Enrolled
                          /\ classOf[p[1]] = c
                          /\ Correctable(p)
    /\ work' = [p \in Pairs |-> IF p \in entries THEN [work[p] EXCEPT !.ca = m] ELSE work[p]]
    /\ Correct(entries)
    /\ UNCHANGED <<classOf, enrolment, active, registered, offered, config, audit, job>>

\* What marking one answer by hand makes of the examination mark.
Awarded(exam) ==
    CASE exam = NoMark -> {NoMark}
      [] exam = Unmarked -> Marks \union {Unmarked}
      [] OTHER -> Marks

\* awardMarks
AwardMarks(p, exam) ==
    /\ Change
    /\ LockFree
    /\ p[1] \in Enrolled
    /\ p[2] \notin Written
    /\ exam \in Awarded(work[p].exam)
    /\ Correctable(p)
    /\ work' = [work EXCEPT ![p].exam = exam]
    /\ Correct({p})
    /\ UNCHANGED <<classOf, enrolment, active, registered, offered, config, audit, job>>

\* saveAcademic: its lock shuts out every holder of a term's lock.
SaveAcademic(policy, regraded) ==
    /\ Change
    /\ LockFree
    /\ config' = [scale |-> IF regraded THEN config.scale + 1 ELSE config.scale,
                  policy |-> policy]
    /\ config' # config
    /\ UNCHANGED <<classOf, enrolment, active, registered, offered, work, row, audit, job>>

-----------------------------------------------------------------------------
(***************************************************************************)
(* What changes without the lock.                                          *)
(***************************************************************************)
\* An examination is handed in, marked at once or waiting for its marker.
Submit(p, exam) ==
    /\ Change
    /\ p[1] \in Enrolled
    /\ p[2] \notin Written
    /\ work[p].exam = NoMark
    /\ exam \in Marks \union {Unmarked}
    /\ work' = [work EXCEPT ![p].exam = exam]
    /\ UNCHANGED <<classOf, enrolment, active, registered, offered, config, row, audit, job>>

\* grantReattempt: the answers are deleted.
Reattempt(p) ==
    /\ Change
    /\ p[2] \notin Written
    /\ work[p].exam # NoMark
    /\ work' = [work EXCEPT ![p].exam = NoMark]
    /\ UNCHANGED <<classOf, enrolment, active, registered, offered, config, row, audit, job>>

\* A student who joins: enrolled by the office, or approved.
Admit(s, c) ==
    /\ Change
    /\ enrolment[s] = "none"
    /\ enrolment' = [enrolment EXCEPT ![s] = "active"]
    /\ classOf' = [classOf EXCEPT ![s] = c]
    /\ active' = active \union {s}
    /\ UNCHANGED <<registered, offered, work, config, row, audit, job>>

\* setStudentSubjects: the compulsory ones, the electives chosen, and what has scores.
Register(s, electives) ==
    /\ Change
    /\ enrolment[s] # "none"
    /\ LET scored == {j \in Subjects : work[<<s, j>>].ca # NoMark
                        \/ (j \in Written /\ work[<<s, j>>].exam # NoMark)}
           final == (Core \intersect offered) \union electives \union scored
       IN  registered' = {p \in registered : p[1] # s} \union ({s} \X final)
    /\ electives \subseteq offered \ Core
    /\ UNCHANGED <<classOf, enrolment, active, offered, work, config, row, audit, job>>

\* people/students.ts moveStudent: the class changes and nothing else.
MoveStudent(s, c) ==
    /\ Change
    /\ s \in Movable
    /\ enrolment[s] # "none"
    /\ classOf[s] # c
    /\ classOf' = [classOf EXCEPT ![s] = c]
    /\ UNCHANGED <<enrolment, active, registered, offered, work, config, row, audit, job>>

\* setStudentStanding: a suspended student stays enrolled ...
Suspend(s) ==
    /\ Change
    /\ s \in active
    /\ active' = active \ {s}
    /\ UNCHANGED <<classOf, enrolment, registered, offered, work, config, row, audit, job>>

\* ... one withdrawn or expelled does not.
Withdraw(s) ==
    /\ Change
    /\ s \in active \union Enrolled
    /\ active' = active \ {s}
    /\ enrolment' = [enrolment EXCEPT ![s] = IF @ = "active" THEN "inactive" ELSE @]
    /\ UNCHANGED <<classOf, registered, offered, work, config, row, audit, job>>

\* setStudentStanding back to active, which leaves the enrolment as it is.
Reinstate(s) ==
    /\ Change
    /\ s \in Returning \ active
    /\ active' = active \union {s}
    /\ UNCHANGED <<classOf, enrolment, registered, offered, work, config, row, audit, job>>

\* deleteSubject of one in use, and seedStandardSubjects, which revives it.
RetireOrRevive(j) ==
    /\ Change
    /\ offered' = IF j \in offered THEN offered \ {j} ELSE offered \union {j}
    /\ UNCHANGED <<classOf, enrolment, active, registered, work, config, row, audit, job>>

-----------------------------------------------------------------------------
(***************************************************************************)
(* compileClassResults and transitionClassResults.                         *)
(***************************************************************************)
Cohort(c) == {s \in active \intersect Enrolled : classOf[s] = c}

\* inputs()
Read(c) ==
    [students |-> Cohort(c),
     offerings |-> {p \in registered : p[1] \in Cohort(c) /\ p[2] \in offered},
     work |-> [p \in Pairs |-> IF p[1] \in Cohort(c) THEN work[p] ELSE Blank],
     config |-> config]

\* A mutant of Stored: rows of subjects that are no longer taken are overlooked.
StoredOffered(data) == {p \in data.offerings : HasRow(p)}

\* The rows of the students read; only the lock's holder writes rows.
Stored(data) == {p \in data.students \X Subjects : HasRow(p)}

Chosen(data, only) == {p \in data.offerings : only \in {AllSubjects, p[2]}}

\* What is stored of a pair: the whole cohort of the subject is ranked.
ValueOf(data, p) ==
    LET cohort == {s \in data.students : <<s, p[2]>> \in data.offerings}
        sheet == [s \in cohort |-> data.work[<<s, p[2]>>]]
    IN  [work |-> data.work[p], position |-> Position(p[1], sheet, data.config.policy),
         size |-> Cardinality(cohort), config |-> data.config]

CompiledRow(data, p) ==
    [state |-> "compiled", published |-> FALSE, complete |-> Complete(data.work[p]),
     value |-> ValueOf(data, p)]

\* A mutant of MayCompile: closed results are compiled over.
MayCompileOver(c, only) == Chosen(Read(c), only) # {}

MayCompile(c, only) ==
    /\ Chosen(Read(c), only) # {}
    /\ \A p \in Stored(Read(c)) : ~Closed(row[p])

BeginCompile(c, only) ==
    /\ LockFree
    /\ MayCompile(c, only)
    /\ job' = [kind |-> "compile", class |-> c, only |-> only, data |-> Read(c)]
    /\ UNCHANGED <<inputs, row, audit, changes>>

\* Rows of the cohort that are no longer offered are removed.
FinishCompile ==
    /\ job.kind = "compile"
    /\ row' = [p \in Pairs |->
                 IF p \in Chosen(job.data, job.only) THEN CompiledRow(job.data, p)
                 ELSE IF p[1] \in job.data.students /\ job.only \in {AllSubjects, p[2]}
                 THEN NoRow ELSE row[p]]
    /\ audit' = [audit EXCEPT ![job.class] =
                   [scope |-> IF job.only = AllSubjects THEN "class" ELSE "subject",
                    data |-> job.data]]
    /\ job' = NoJob
    /\ UNCHANGED <<inputs, changes>>

IsSignOff(from, to) ==
    \/ from = "compiled" /\ to = "reviewed"
    \/ from = "reviewed" /\ to = "published"
    \/ to = "locked"

\* Mutants of ReadyForSignOff: marks may be missing; a partial compilation will do.
ReadyIncomplete(c, data) ==
    Stored(data) = data.offerings /\ audit[c] = [scope |-> "class", data |-> data]
ReadyPartly(c, data) ==
    /\ Stored(data) = data.offerings
    /\ \A p \in data.offerings : Complete(data.work[p]) /\ row[p].complete
    /\ audit[c].scope # "none" /\ audit[c].data = data

\* Everything is complete, and nothing has changed since the class was last compiled.
ReadyForSignOff(c, data) ==
    /\ \A s \in data.students : \E j \in Subjects : <<s, j>> \in data.offerings
    /\ Stored(data) = data.offerings
    /\ \A p \in data.offerings : Complete(data.work[p]) /\ row[p].complete
    /\ audit[c] = [scope |-> "class", data |-> data]

\* By the principal, with a written reason where something is taken back.
MayMove(c, to) ==
    /\ Stored(Read(c)) # {}
    /\ \E from \in States \ {to} :
          /\ \A p \in Stored(Read(c)) : row[p].state = from
          /\ CanTransition(from, to)
          /\ ~(from = "draft" /\ to = "compiled")
          /\ IsSignOff(from, to) => ReadyForSignOff(c, Read(c))

BeginTransition(c, to) ==
    /\ LockFree
    /\ MayMove(c, to)
    /\ job' = [kind |-> "transition", class |-> c, to |-> to, data |-> Read(c)]
    /\ UNCHANGED <<inputs, row, audit, changes>>

FinishTransition ==
    /\ job.kind = "transition"
    /\ row' = [p \in Pairs |->
                 IF p \in Stored(job.data)
                 THEN [row[p] EXCEPT !.state = job.to, !.published = IsVisibleToFamily(job.to)]
                 ELSE row[p]]
    /\ job' = NoJob
    /\ UNCHANGED <<inputs, audit, changes>>

\* A statement fails or the instance dies: rolled back, and the lock released.
Abandon ==
    /\ job # NoJob
    /\ job' = NoJob
    /\ UNCHANGED <<inputs, row, audit, changes>>

Entry ==
    \/ \E p \in Pairs, m \in Marks : EnterScore(p, m)
    \/ \E c \in Classes, entries \in SUBSET Pairs \ {{}}, m \in Marks : Moderate(c, entries, m)
    \/ \E p \in Pairs, exam \in Marks \union {NoMark, Unmarked} : AwardMarks(p, exam)
    \/ \E policy \in Policies, regraded \in BOOLEAN : SaveAcademic(policy, regraded)

Around ==
    \/ \E p \in Pairs, exam \in Marks \union {Unmarked} : Submit(p, exam)
    \/ \E p \in Pairs : Reattempt(p)
    \/ \E s \in Students, c \in Classes : Admit(s, c)
    \/ \E s \in Students, electives \in SUBSET Subjects : Register(s, electives)
    \/ \E s \in Students, c \in Classes : MoveStudent(s, c)
    \/ \E s \in Students : Suspend(s)
    \/ \E s \in Students : Withdraw(s)
    \/ \E s \in Students : Reinstate(s)
    \/ \E j \in Subjects : RetireOrRevive(j)

Office ==
    \/ \E c \in Classes, only \in Subjects \union {AllSubjects} : BeginCompile(c, only)
    \/ FinishCompile
    \/ \E c \in Classes, to \in States : BeginTransition(c, to)
    \/ FinishTransition
    \/ Abandon

Next == Entry \/ Around \/ Office

Spec == Init /\ [][Next]_vars

-----------------------------------------------------------------------------
(***************************************************************************)
(* What is signed off is complete: no result that a student, a parent or a *)
(* class teacher may see lacks a component (transitionClassResults, and    *)
(* the corrections that would make it incomplete are refused).             *)
(***************************************************************************)
ClosedIsComplete ==
    \A p \in Pairs : Closed(row[p]) => row[p].complete /\ Complete(row[p].value.work)

(***************************************************************************)
(* "A published result is a historical record" (exam/results.ts): from     *)
(* sign-off until it is taken back, a result keeps its marks, its grade    *)
(* and its position, whatever is entered, compiled or configured.          *)
(***************************************************************************)
ClosedNeverRewritten ==
    [][\A p \in Pairs : Closed(row[p]) => /\ row'[p] # NoRow
                                          /\ row'[p].value = row[p].value]_vars

\* The result is signed off as compiling the class as it was read would store it.
SignedOffAsCompiled(p) ==
    ~Closed(row[p]) /\ Closed(row'[p]) => row'[p].value = ValueOf(job.data, p)

(***************************************************************************)
(* A student who stays in a class has results signed off with the marks,   *)
(* the settings and the position that compiling the class would give now:  *)
(* partial compilations, late scripts, students who come and go and        *)
(* changed settings are found out by the fingerprint that                  *)
(* compileClassResults leaves and transitionClassResults compares.         *)
(***************************************************************************)
StayersAreSignedOffAsCompiled ==
    [][\A p \in Pairs : p[1] \notin Movable => SignedOffAsCompiled(p)]_vars

(***************************************************************************)
(* The same of everyone, as exam/results.ts has it: "Positions are         *)
(* computed across the whole cohort".  Violated: a student moved to        *)
(* another class, compiled there and moved back leaves the fingerprint of  *)
(* the first class as it was, with a position among the second.            *)
(***************************************************************************)
EveryoneIsSignedOffAsCompiled ==
    [][\A p \in Pairs : SignedOffAsCompiled(p)]_vars

(***************************************************************************)
(* A result passes from stage to stage as the lifecycle of academic.ts     *)
(* says, and is never removed once signed off.                             *)
(***************************************************************************)
LifecycleIsOrdered ==
    [][\A p \in Pairs : HasRow(p) /\ row'[p].state # row[p].state =>
          \/ CanTransition(row[p].state, row'[p].state)
          \/ ~Closed(row[p]) /\ row'[p] = NoRow]_vars

Steady == Students \ (Movable \union Returning)

(***************************************************************************)
(* Compiling a class asks that closed results be reopened first, and the   *)
(* lifecycle moves a class only when its results are all in one stage.  A  *)
(* class that no student is moved or reinstated into can always be         *)
(* reopened, whoever joins or leaves and whatever is registered meanwhile. *)
(* (One that a student is moved into may be stuck: neither is allowed.)    *)
(***************************************************************************)
CanBeReopened ==
    \A c \in Classes :
        Cohort(c) \subseteq Steady /\ (\E p \in Stored(Read(c)) : Closed(row[p]))
            => \E to \in States : MayMove(c, to)
================================================================================
