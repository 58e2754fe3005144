------------------------------ MODULE Promotion ------------------------------
(***************************************************************************)
(* The enrolment roll and the promotion of a year group                    *)
(* (src/lib/promotion/promotion.ts), with what else moves students and     *)
(* classes meanwhile: src/lib/people/students.ts,                          *)
(* src/lib/school/classes.ts and the choice of the current session.        *)
(*                                                                         *)
(* Each operation is one transaction of one person and is one step here.   *)
(***************************************************************************)
EXTENDS PromotionRules, Sequences

CONSTANTS
    Students, Sessions,
    RuleSets,       \* the rules a school may save for a level
    DefaultRules,   \* the rules of a level none were saved for
    Years,          \* the years a student may have had
    MaxBatches,     \* bound: promotion batches
    MaxChanges      \* bound: overrides, and changes made around the promotions

\* A year of which nothing is published.
Unpublished == [average |-> 0, passed |-> 0, offered |-> 0, coreFailed |-> FALSE]

ASSUME RulesAssumption == RuleSets \subseteq Rules /\ DefaultRules \in RuleSets
ASSUME YearsAssumption == Years \subseteq Year /\ Unpublished \in Years

VARIABLES
    row,        \* enrollments: one row per student and session
    lastId,     \* per student: the highest id among the rows inserted so far
    standing,   \* students.status
    active,     \* the classes whose status is active
    current,    \* the current session
    rules,      \* per level: the promotion rules in force
    year,       \* per student and session: what has been published
    batches,    \* promotion_batches with their promotion_decisions
    changes     \* how many overrides and changes there were

vars == <<row, lastId, standing, active, current, rules, year, batches, changes>>

NoRow == [id |-> 0]

\* by is a history field: the batch that wrote the row, 0 when none did.
Row == [id : Nat \ {0}, class : Classes, active : BOOLEAN, by : Nat]

Decision == [from : Classes, to : Classes \union {NoClass}, year : Years,
             proposed : Outcomes \union {"unresolved"},
             final : Outcomes \union {"unresolved"}, overridden : BOOLEAN]

\* A student who is not in the batch.
NoDecision == [final |-> "none"]

Batch == [from : Sessions, to : Sessions, level : 1..TopLevel, rules : RuleSets,
          status : {"proposed", "committed", "reversed"},
          decision : [Students -> Decision \union {NoDecision}]]

\* Correctness of the types: every row names a class, every batch is complete.
TypeOK ==
    /\ row \in [Students -> [Sessions -> Row \union {NoRow}]]
    /\ lastId \in [Students -> Nat]
    /\ standing \in [Students -> {"active", "withdrawn", "graduated"}]
    /\ active \subseteq Classes
    /\ current \in Sessions
    /\ rules \in [1..TopLevel -> RuleSets]
    /\ year \in [Students -> [Sessions -> Years]]
    /\ batches \in Seq(Batch)
    /\ changes \in Nat

NewRow(id, c) == [id |-> id, class |-> c, active |-> TRUE, by |-> 0]

Enrolled(s, x) == row[s][x] # NoRow

ActiveIn(s) == {x \in Sessions : Enrolled(s, x) /\ row[s][x].active}

\* The active row with the highest id.
Latest(s, x) ==
    /\ x \in ActiveIn(s)
    /\ \A y \in ActiveIn(s) : row[s][y].id <= row[s][x].id

\* The roll of the current session, and what has been published of it.
Init ==
    /\ standing = [s \in Students |-> "active"]
    /\ active = Classes
    /\ current \in Sessions
    /\ \E class \in [Students -> Classes \union {NoClass}] :
          /\ row = [s \in Students |-> [x \in Sessions |->
                       IF x = current /\ class[s] # NoClass THEN NewRow(1, class[s]) ELSE NoRow]]
          /\ lastId = [s \in Students |-> IF class[s] = NoClass THEN 0 ELSE 1]
    /\ rules = [level \in 1..TopLevel |-> DefaultRules]
    /\ \E y \in [Students -> Years] :
          year = [s \in Students |-> [x \in Sessions |->
                     IF x = current THEN y[s] ELSE Unpublished]]
    /\ batches = << >>
    /\ changes = 0

-----------------------------------------------------------------------------
(***************************************************************************)
(* Changes around a promotion; MaxChanges bounds them and the overrides.   *)
(***************************************************************************)
Change ==
    /\ changes < MaxChanges
    /\ changes' = changes + 1

Insert(s, x, c) ==
    /\ row' = [row EXCEPT ![s][x] = NewRow(lastId[s] + 1, c)]
    /\ lastId' = [lastId EXCEPT ![s] = @ + 1]

\* students.ts: registration, and a class change in the current session.
Place(s, c) ==
    /\ Change
    /\ c \in active
    /\ IF Enrolled(s, current)
       THEN /\ row' = [row EXCEPT ![s][current].class = c]
            /\ UNCHANGED lastId
       ELSE Insert(s, current, c)
    /\ UNCHANGED <<standing, active, current, rules, year, batches>>

(***************************************************************************)
(* promotion.ts moveStudent: the latest active row moves; with none, a row *)
(* is inserted, which fails when the session has an inactive one.          *)
(***************************************************************************)
Move(s, c, outcome) ==
    /\ Change
    /\ c \in active
    /\ \/ /\ \E x \in Sessions : /\ Latest(s, x)
                                 /\ row' = [row EXCEPT ![s][x].class = c]
          /\ UNCHANGED lastId
       \/ /\ ActiveIn(s) = {}
          /\ ~Enrolled(s, current)
          /\ Insert(s, current, c)
    /\ standing' = [standing EXCEPT ![s] = IF outcome = "graduate" THEN "graduated" ELSE @]
    /\ UNCHANGED <<active, current, rules, year, batches>>

\* setStudentStanding: who leaves is taken off every class.
SetStanding(s, standingTo) ==
    /\ Change
    /\ standing[s] # standingTo
    /\ standing' = [standing EXCEPT ![s] = standingTo]
    /\ row' = IF standingTo = "withdrawn"
              THEN [row EXCEPT ![s] = [x \in Sessions |->
                        IF x \in ActiveIn(s) THEN [@[x] EXCEPT !.active = FALSE] ELSE @[x]]]
              ELSE row
    /\ UNCHANGED <<lastId, active, current, rules, year, batches>>

\* removeClass: refused while someone is enrolled in it.
RemoveClass(c) ==
    /\ Change
    /\ c \in active
    /\ \A s \in Students : \A x \in ActiveIn(s) : row[s][x].class # c
    /\ active' = active \ {c}
    /\ UNCHANGED <<row, lastId, standing, current, rules, year, batches>>

\* createClasses on an archived class.
ReviveClass(c) ==
    /\ Change
    /\ c \in Classes \ active
    /\ active' = active \union {c}
    /\ UNCHANGED <<row, lastId, standing, current, rules, year, batches>>

SetCurrent(x) ==
    /\ Change
    /\ current # x
    /\ current' = x
    /\ UNCHANGED <<row, lastId, standing, active, rules, year, batches>>

\* Results of a session are published, or withdrawn, by the results workflow.
Publish(s, x, y) ==
    /\ Change
    /\ year[s][x] # y
    /\ year' = [year EXCEPT ![s][x] = y]
    /\ UNCHANGED <<row, lastId, standing, active, current, rules, batches>>

\* Mutant: a batch refers to the rules of its level instead of keeping its own.
SaveRulesEverywhere(level, r) ==
    /\ Change
    /\ rules[level] # r
    /\ rules' = [rules EXCEPT ![level] = r]
    /\ batches' = [b \in DOMAIN batches |->
                      IF batches[b].level = level THEN [batches[b] EXCEPT !.rules = r]
                      ELSE batches[b]]
    /\ UNCHANGED <<row, lastId, standing, active, current, year>>

\* savePromotionRules.
SaveRules(level, r) ==
    /\ Change
    /\ rules[level] # r
    /\ rules' = [rules EXCEPT ![level] = r]
    /\ UNCHANGED <<row, lastId, standing, active, current, year, batches>>

-----------------------------------------------------------------------------
(***************************************************************************)
(* A promotion batch.                                                      *)
(***************************************************************************)
Roster(from, level) ==
    {s \in Students : from \in ActiveIn(s) /\ row[s][from].class.level = level}

OpenProposal(from, level) ==
    \E b \in DOMAIN batches : /\ batches[b].from = from
                              /\ batches[b].level = level
                              /\ batches[b].status = "proposed"

NewDecision(s, from, level, to) ==
    LET outcome == Judge(rules[level], year[s][from], level)
    IN  [from |-> row[s][from].class, to |-> to, year |-> year[s][from],
         proposed |-> outcome, final |-> outcome, overridden |-> FALSE]

\* evaluateLevel on one student; the order of equal classes is the database's.
Evaluated(s, from, level, to) ==
    to \in Proposed(active, Judge(rules[level], year[s][from], level), row[s][from].class)

NewBatch(from, to, level, destination) ==
    [from |-> from, to |-> to, level |-> level, rules |-> rules[level], status |-> "proposed",
     decision |-> [s \in Students |->
         IF s \in Roster(from, level) THEN NewDecision(s, from, level, destination[s])
         ELSE NoDecision]]

\* The students of a batch.
Decided(b) == {s \in Students : batches[b].decision[s] # NoDecision}

\* Mutant: the sessions may be the same.
ProposeAnySession(from, to, level) ==
    /\ Len(batches) < MaxBatches
    /\ Roster(from, level) # {}
    /\ ~OpenProposal(from, level)
    /\ \E destination \in [Roster(from, level) -> Classes \union {NoClass}] :
          /\ \A s \in Roster(from, level) : Evaluated(s, from, level, destination[s])
          /\ batches' = Append(batches, NewBatch(from, to, level, destination))
    /\ UNCHANGED <<row, lastId, standing, active, current, rules, year, changes>>

\* proposePromotion, with the rules saved for the level: nobody moves yet.
Propose(from, to, level) ==
    /\ Len(batches) < MaxBatches
    /\ from # to
    /\ ~OpenProposal(from, level)
    /\ Roster(from, level) # {}
    /\ \E destination \in [Roster(from, level) -> Classes \union {NoClass}] :
          /\ \A s \in Roster(from, level) : Evaluated(s, from, level, destination[s])
          /\ batches' = Append(batches, NewBatch(from, to, level, destination))
    /\ UNCHANGED <<row, lastId, standing, active, current, rules, year, changes>>

Overridden(d, outcome, destination) ==
    [d EXCEPT !.final = outcome, !.to = destination, !.overridden = TRUE]

\* overridePromotion and bulkOverridePromotion: one human decision on some students.
Override(b, who, outcome) ==
    /\ Change
    /\ batches[b].status = "proposed"
    /\ who \subseteq Decided(b)
    /\ \E destination \in [who -> Classes \union {NoClass}] :
          /\ \A s \in who : destination[s] \in DestinationFor(active, outcome,
                               batches[b].decision[s].from, batches[b].decision[s].to)
          /\ batches' = [batches EXCEPT ![b].decision = [s \in Students |->
                IF s \in who THEN Overridden(@[s], outcome, destination[s]) ELSE @[s]]]
    /\ UNCHANGED <<row, lastId, standing, active, current, rules, year>>

Final(b, outcomes) ==
    {s \in Decided(b) : batches[b].decision[s].final \in outcomes}

Committable(b) ==
    /\ batches[b].status = "proposed"
    /\ Final(b, {"unresolved"}) = {}
    /\ \A s \in Final(b, {"promote", "trial"}) : batches[b].decision[s].to # NoClass

\* The upsert on (student, session): an existing row keeps its id.
Written(b, s) ==
    LET x == batches[b].to IN
    [id |-> IF Enrolled(s, x) THEN row[s][x].id ELSE lastId[s] + 1,
     class |-> batches[b].decision[s].to, active |-> TRUE, by |-> b]

Enrol(b, who) ==
    /\ row' = [s \in Students |->
                  IF s \in who THEN [row[s] EXCEPT ![batches[b].to] = Written(b, s)]
                  ELSE row[s]]
    /\ lastId' = [s \in Students |->
                     IF s \in who /\ ~Enrolled(s, batches[b].to) THEN lastId[s] + 1
                     ELSE lastId[s]]

\* Mutant: the students the refusal is about are passed over.
CommitResolved(b) ==
    /\ batches[b].status = "proposed"
    /\ Enrol(b, {s \in Final(b, {"promote", "trial", "repeat"}) :
                    batches[b].decision[s].to # NoClass})
    /\ standing' = [s \in Students |->
                       IF s \in Final(b, {"graduate"}) THEN "graduated" ELSE standing[s]]
    /\ batches' = [batches EXCEPT ![b].status = "committed"]
    /\ UNCHANGED <<active, current, rules, year, changes>>

\* commitPromotion: graduates leave, everybody else is enrolled in the next session.
Commit(b) ==
    /\ Committable(b)
    /\ Enrol(b, Final(b, {"promote", "trial", "repeat"}))
    /\ standing' = [s \in Students |->
                       IF s \in Final(b, {"graduate"}) THEN "graduated" ELSE standing[s]]
    /\ batches' = [batches EXCEPT ![b].status = "committed"]
    /\ UNCHANGED <<active, current, rules, year, changes>>

\* reversePromotion: every student of the batch loses the row of that session.
Reverse(b) ==
    /\ batches[b].status = "committed"
    /\ row' = [s \in Students |->
                  IF s \in Decided(b)
                  THEN [row[s] EXCEPT ![batches[b].to] = NoRow]
                  ELSE row[s]]
    /\ standing' = [s \in Students |->
                       IF s \in Final(b, {"graduate"}) /\ standing[s] = "graduated"
                       THEN "active" ELSE standing[s]]
    /\ batches' = [batches EXCEPT ![b].status = "reversed"]
    /\ UNCHANGED <<lastId, active, current, rules, year, changes>>

-----------------------------------------------------------------------------
Next ==
    \/ \E s \in Students, c \in Classes : Place(s, c)
    \/ \E s \in Students, c \in Classes, outcome \in Outcomes : Move(s, c, outcome)
    \/ \E s \in Students, to \in {"active", "withdrawn"} : SetStanding(s, to)
    \/ \E c \in Classes : RemoveClass(c)
    \/ \E c \in Classes : ReviveClass(c)
    \/ \E x \in Sessions : SetCurrent(x)
    \/ \E s \in Students, x \in Sessions, y \in Years : Publish(s, x, y)
    \/ \E level \in 1..TopLevel, r \in RuleSets : SaveRules(level, r)
    \/ \E from \in Sessions, to \in Sessions, level \in 1..TopLevel : Propose(from, to, level)
    \/ \E b \in DOMAIN batches, who \in SUBSET Students \ {{}}, outcome \in Outcomes :
          Override(b, who, outcome)
    \/ \E b \in DOMAIN batches : Commit(b)
    \/ \E b \in DOMAIN batches : Reverse(b)

Spec == Init /\ [][Next]_vars

-----------------------------------------------------------------------------
CommitsNow(b) == batches[b].status = "proposed" /\ batches'[b].status = "committed"

(***************************************************************************)
(* Nobody is lost from the roll: the step that commits a batch leaves      *)
(* every student it decided on graduated, or enrolled in the next session  *)
(* in an actual class, the one decided.                                    *)
(***************************************************************************)
NobodyIsLost ==
    [][\A b \in DOMAIN batches : CommitsNow(b) =>
          \A s \in Decided(b) :
             LET d == batches[b].decision[s] IN
             IF d.final = "graduate" THEN standing'[s] = "graduated"
             ELSE /\ row'[s][batches[b].to] # NoRow
                  /\ row'[s][batches[b].to].active
                  /\ row'[s][batches[b].to].class = d.to]_vars

(***************************************************************************)
(* Promotion never overwrites history: neither the commit nor the reversal *)
(* of a batch touches a row of the session it promotes from.               *)
(***************************************************************************)
HistoryIsKept ==
    [][\A b \in DOMAIN batches : batches'[b].status # batches[b].status =>
          \A s \in Students : row'[s][batches[b].from] = row[s][batches[b].from]]_vars

(***************************************************************************)
(* What is decided stays on file: once a batch is committed its decisions  *)
(* do not change, and it can only be reversed, once.                       *)
(***************************************************************************)
DecidedIsFrozen ==
    [][\A b \in DOMAIN batches : batches[b].status # "proposed" =>
          /\ batches'[b].decision = batches[b].decision
          /\ batches'[b].status # batches[b].status =>
                batches[b].status = "committed" /\ batches'[b].status = "reversed"]_vars

\* At most one proposal is open for a level and a session.
OneProposal ==
    \A b, c \in DOMAIN batches :
        /\ batches[b].status = "proposed" /\ batches[c].status = "proposed"
        /\ batches[b].from = batches[c].from /\ batches[b].level = batches[c].level
        => b = c

(***************************************************************************)
(* Every decision stays explainable: the outcome proposed is what the      *)
(* rules kept on the batch make of the year kept on the decision, whatever *)
(* became of either since, and a final outcome that differs is a human's.  *)
(***************************************************************************)
Explainable ==
    \A b \in DOMAIN batches : \A s \in Decided(b) :
        LET d == batches[b].decision[s] IN
        /\ d.proposed = Judge(batches[b].rules, d.year, batches[b].level)
        /\ d.final # d.proposed => d.overridden

(***************************************************************************)
(* A repeater stays in his own class, whatever the decision was before it  *)
(* was overridden; so the commit never looks for a class he lacks.         *)
(***************************************************************************)
RepeatersStay ==
    \A b \in DOMAIN batches : \A s \in Decided(b) :
        batches[b].decision[s].final = "repeat" =>
            batches[b].decision[s].to = batches[b].decision[s].from

(***************************************************************************)
(* Who is promoted moves up: the class a promoted student joins is at a    *)
(* higher level than the one he leaves.  (An override of a repeat keeps    *)
(* the repeater's class.)                                                  *)
(***************************************************************************)
PromotedMovesUp ==
    \A b \in DOMAIN batches : \A s \in Decided(b) :
        LET d == batches[b].decision[s] IN
        d.final \in {"promote", "trial"} /\ d.to # NoClass => d.to.level > d.from.level
=============================================================================
