----------------------------- MODULE ResultsProofs -----------------------------
(***************************************************************************)
(* Proofs about the ranking of a cohort and the results of a term.         *)
(***************************************************************************)
EXTENDS Results, FiniteSetTheorems, TLAPS

-----------------------------------------------------------------------------
(***************************************************************************)
(* Ranking.                                                                *)
(***************************************************************************)
Sheet == UNION {[S -> Work] : S \in SUBSET Students}

LEMMA SheetType ==
    ASSUME NEW sheet \in Sheet
    PROVE  /\ DOMAIN sheet \subseteq Students /\ IsFiniteSet(DOMAIN sheet)
           /\ \A s \in DOMAIN sheet : sheet[s] \in Work
<1>1. PICK S \in SUBSET Students : sheet \in [S -> Work]
  BY DEF Sheet
<1>. QED
  BY <1>1, FS_Subset, StudentAssumption

LEMMA TotalType ==
    ASSUME NEW w \in Work, NEW policy \in Policy
    PROVE  Total(w) \in Nat /\ Tiebreak(w, policy) \in Nat
BY MarkAssumption DEF Work, Marks, NoMark, Unmarked, Total, CaTotal, ExamTotal, Tiebreak, Policy

\* The order of two pieces of work is a strict weak order.
LEMMA AheadOrders ==
    ASSUME NEW a \in Work, NEW b \in Work, NEW c \in Work, NEW policy \in Policy
    PROVE  /\ ~Ahead(a, a, policy)
           /\ Ahead(a, b, policy) /\ Ahead(b, c, policy) => Ahead(a, c, policy)
           /\ Tied(a, b, policy) /\ Ahead(b, c, policy) => Ahead(a, c, policy)
           /\ Ahead(a, b, policy) /\ Tied(b, c, policy) => Ahead(a, c, policy)
           /\ Tied(a, b, policy) <=> /\ Total(a) = Total(b)
                                     /\ Tiebreak(a, policy) = Tiebreak(b, policy)
<1>1. /\ Total(a) \in Nat /\ Total(b) \in Nat /\ Total(c) \in Nat
      /\ Tiebreak(a, policy) \in Nat /\ Tiebreak(b, policy) \in Nat /\ Tiebreak(c, policy) \in Nat
  BY TotalType
<1>. QED
  BY <1>1 DEF Ahead, Tied

\* The students before one, or their totals, are finitely many, at most the others.
LEMMA BeforeFinite ==
    ASSUME NEW sheet \in Sheet, NEW policy \in Policy, NEW s \in Eligible(sheet, policy)
    PROVE  /\ IsFiniteSet(Before(s, sheet, policy))
           /\ Cardinality(Before(s, sheet, policy)) \in Nat
           /\ Cardinality(Before(s, sheet, policy)) < Cardinality(Eligible(sheet, policy))
<1>. DEFINE E == Eligible(sheet, policy)
            ahead == {t \in E : Ahead(sheet[t], sheet[s], policy)}
            key == [t \in ahead |-> <<Total(sheet[t]), Tiebreak(sheet[t], policy)>>]
            keys == {<<Total(sheet[t]), Tiebreak(sheet[t], policy)>> : t \in ahead}
            lower == {t \in E : Tied(sheet[t], sheet[s], policy) /\ t < s}
<1>1. /\ E \subseteq DOMAIN sheet /\ IsFiniteSet(E)
      /\ sheet[s] \in Work /\ s \in Nat
  BY SheetType, FS_Subset, StudentAssumption DEF Eligible
<1>2. s \notin ahead /\ s \notin lower
  BY <1>1, AheadOrders
<1>3. /\ IsFiniteSet(E \ {s}) /\ Cardinality(E \ {s}) = Cardinality(E) - 1
      /\ Cardinality(E) \in Nat
  BY <1>1, FS_RemoveElement, FS_CardinalityType
<1>4. \A S : S \subseteq E \ {s} => /\ IsFiniteSet(S) /\ Cardinality(S) \in Nat
                                    /\ Cardinality(S) < Cardinality(E)
  BY <1>3, FS_Subset, FS_CardinalityType
<1>5. ahead \subseteq E \ {s} /\ ahead \union lower \subseteq E \ {s}
  BY <1>2
<1>6. /\ IsFiniteSet(keys) /\ Cardinality(keys) \in Nat
      /\ Cardinality(keys) < Cardinality(E)
  <2>1. key \in Surjection(ahead, keys)
    BY DEF Surjection
  <2>2. IsFiniteSet(ahead) /\ Cardinality(ahead) \in Nat /\ Cardinality(ahead) < Cardinality(E)
    BY <1>4, <1>5
  <2>3. IsFiniteSet(keys) /\ Cardinality(keys) <= Cardinality(ahead)
    BY <2>1, <2>2, FS_Surjection
  <2>. QED
    BY <2>2, <2>3, <1>3, FS_CardinalityType
<1>7. Before(s, sheet, policy) \in {ahead, keys, ahead \union lower}
  BY DEF Before, Policy
<1>. QED
  BY <1>4, <1>5, <1>6, <1>7

(***************************************************************************)
(* A ranked student's position is one of 1..n in a cohort of n, and one    *)
(* who is not ranked has none (rank, and classSize in                      *)
(* compileClassResults).                                                   *)
(***************************************************************************)
THEOREM PositionInCohort ==
    ASSUME NEW sheet \in Sheet, NEW policy \in Policy, NEW s \in DOMAIN sheet
    PROVE  /\ Position(s, sheet, policy) \in 0..Cardinality(DOMAIN sheet)
           /\ Position(s, sheet, policy) = 0 <=> s \notin Eligible(sheet, policy)
<1>1. /\ IsFiniteSet(DOMAIN sheet) /\ Cardinality(DOMAIN sheet) \in Nat
      /\ Eligible(sheet, policy) \subseteq DOMAIN sheet
  BY SheetType, FS_CardinalityType DEF Eligible
<1>2. /\ Cardinality(Eligible(sheet, policy)) \in Nat
      /\ Cardinality(Eligible(sheet, policy)) <= Cardinality(DOMAIN sheet)
  BY <1>1, FS_Subset, FS_CardinalityType
<1>3. CASE s \in Eligible(sheet, policy)
  BY <1>1, <1>2, <1>3, BeforeFinite DEF Position
<1>4. CASE s \notin Eligible(sheet, policy)
  BY <1>1, <1>4 DEF Position
<1>. QED
  BY <1>3, <1>4

(***************************************************************************)
(* Better work is ranked strictly higher, under every policy (rank).       *)
(***************************************************************************)
THEOREM BetterRanksHigher ==
    ASSUME NEW sheet \in Sheet, NEW policy \in Policy,
           NEW s \in Eligible(sheet, policy), NEW t \in Eligible(sheet, policy),
           Ahead(sheet[s], sheet[t], policy)
    PROVE  Position(s, sheet, policy) < Position(t, sheet, policy)
<1>. DEFINE E == Eligible(sheet, policy)
            key(u) == <<Total(sheet[u]), Tiebreak(sheet[u], policy)>>
<1>1. \A u \in E : sheet[u] \in Work /\ u \in Nat
  BY SheetType, StudentAssumption DEF Eligible
<1>2. \A u \in E : Ahead(sheet[u], sheet[s], policy) => Ahead(sheet[u], sheet[t], policy)
  BY <1>1, AheadOrders
<1>3. \A u \in E : Tied(sheet[u], sheet[s], policy) => Ahead(sheet[u], sheet[t], policy)
  BY <1>1, AheadOrders
<1>4. \A u \in E : Ahead(sheet[u], sheet[s], policy) => key(u) # key(s)
  BY <1>1, AheadOrders DEF Tied
<1>5. /\ Before(s, sheet, policy) \subseteq Before(t, sheet, policy)
      /\ \E u \in Before(t, sheet, policy) : u \notin Before(s, sheet, policy)
  <2>1. CASE policy.tie = "competition"
    BY <2>1, <1>1, <1>2, AheadOrders DEF Before
  <2>2. CASE policy.tie = "dense"
    <3>1. /\ Before(s, sheet, policy) = {key(u) : u \in {v \in E : Ahead(sheet[v], sheet[s], policy)}}
          /\ Before(t, sheet, policy) = {key(u) : u \in {v \in E : Ahead(sheet[v], sheet[t], policy)}}
      BY <2>2 DEF Before
    <3>2. key(s) \in Before(t, sheet, policy) /\ key(s) \notin Before(s, sheet, policy)
      BY <3>1, <1>4
    <3>. QED
      BY <3>1, <3>2, <1>2
  <2>3. CASE policy.tie = "ordinal"
    <3>1. /\ \A u : u \in Before(s, sheet, policy) <=>
                u \in E /\ (\/ Ahead(sheet[u], sheet[s], policy)
                            \/ Tied(sheet[u], sheet[s], policy) /\ u < s)
          /\ \A u : u \in Before(t, sheet, policy) <=>
                u \in E /\ (\/ Ahead(sheet[u], sheet[t], policy)
                            \/ Tied(sheet[u], sheet[t], policy) /\ u < t)
      BY <2>3 DEF Before
    <3>2. s \in Before(t, sheet, policy) /\ s \notin Before(s, sheet, policy)
      BY <3>1, <1>1, AheadOrders
    <3>. QED
      BY <3>1, <3>2, <1>2, <1>3
  <2>. QED
    BY <2>1, <2>2, <2>3 DEF Policy
<1>6. Cardinality(Before(s, sheet, policy)) < Cardinality(Before(t, sheet, policy))
  BY <1>5, BeforeFinite, FS_Subset
<1>. QED
  BY <1>6, BeforeFinite DEF Position

(***************************************************************************)
(* Equal work shares a position, except where the school ranks strictly:   *)
(* there no two students have the same (rank, separates).                  *)
(***************************************************************************)
THEOREM TiesShareUnlessOrdinal ==
    ASSUME NEW sheet \in Sheet, NEW policy \in Policy,
           NEW s \in Eligible(sheet, policy), NEW t \in Eligible(sheet, policy), s # t,
           Tied(sheet[s], sheet[t], policy)
    PROVE  Position(s, sheet, policy) = Position(t, sheet, policy) <=> policy.tie # "ordinal"
<1>. DEFINE E == Eligible(sheet, policy)
<1>1. \A u \in E : sheet[u] \in Work /\ u \in Nat
  BY SheetType, StudentAssumption DEF Eligible
<1>2. \A u \in E : Ahead(sheet[u], sheet[s], policy) <=> Ahead(sheet[u], sheet[t], policy)
  BY <1>1, AheadOrders DEF Tied
<1>3. CASE policy.tie # "ordinal"
  <2>1. Before(s, sheet, policy) = Before(t, sheet, policy)
    BY <1>2, <1>3 DEF Before, Policy
  <2>. QED
    BY <2>1, <1>3 DEF Position
<1>4. CASE policy.tie = "ordinal"
  <2>1. SUFFICES ASSUME NEW a \in E, NEW b \in E, a < b, Tied(sheet[a], sheet[b], policy),
                        \A u \in E : Ahead(sheet[u], sheet[a], policy)
                                        <=> Ahead(sheet[u], sheet[b], policy)
                 PROVE  Position(a, sheet, policy) < Position(b, sheet, policy)
    <3>1. s < t \/ t < s
      BY <1>1
    <3>2. \A u \in E : Position(u, sheet, policy) \in Int
      BY BeforeFinite DEF Position
    <3>3. Tied(sheet[t], sheet[s], policy)
      BY DEF Tied
    <3>. QED
      BY <2>1, <3>1, <3>2, <3>3, <1>2, <1>4
  <2>2. \A u \in E : Tied(sheet[u], sheet[a], policy) => Tied(sheet[u], sheet[b], policy)
    BY <1>1, <2>1, AheadOrders
  <2>3. /\ \A u : u \in Before(a, sheet, policy) <=>
              u \in E /\ (\/ Ahead(sheet[u], sheet[a], policy)
                          \/ Tied(sheet[u], sheet[a], policy) /\ u < a)
        /\ \A u : u \in Before(b, sheet, policy) <=>
              u \in E /\ (\/ Ahead(sheet[u], sheet[b], policy)
                          \/ Tied(sheet[u], sheet[b], policy) /\ u < b)
    BY <1>4 DEF Before
  <2>4. Before(a, sheet, policy) \subseteq Before(b, sheet, policy)
    BY <1>1, <2>1, <2>2, <2>3
  <2>5. a \in Before(b, sheet, policy) /\ a \notin Before(a, sheet, policy)
    BY <1>1, <2>1, <2>3, AheadOrders
  <2>6. Cardinality(Before(a, sheet, policy)) < Cardinality(Before(b, sheet, policy))
    BY <2>4, <2>5, BeforeFinite, FS_Subset
  <2>. QED
    BY <2>6, BeforeFinite DEF Position
<1>. QED
  BY <1>3, <1>4

-----------------------------------------------------------------------------
(***************************************************************************)
(* The invariant.                                                          *)
(***************************************************************************)
\* A row is of an enrolled student, and is complete only with all its marks; a
\* closed one is complete.
RowsInv ==
    \A p \in Pairs : HasRow(p) =>
        /\ enrolment[p[1]] # "none"
        /\ row[p].complete => Complete(row[p].value.work)
        /\ Closed(row[p]) => row[p].complete

\* What was read of a class speaks of students who are still of it, unless moved.
ReadOf(c, data) ==
    /\ \A s \in data.students : enrolment[s] # "none" /\ (s \notin Movable => classOf[s] = c)
    /\ \A p \in data.offerings : p[1] \in data.students

\* What was compiled last in a class is in the rows, unless they were removed.
AuditInv ==
    \A c \in Classes : audit[c] # NoAudit =>
        /\ ReadOf(c, audit[c].data)
        /\ audit[c].scope = "class" =>
             \A p \in audit[c].data.offerings :
                p[1] \notin Movable /\ HasRow(p) => row[p].value = ValueOf(audit[c].data, p)

\* The steady members of a class with a closed result are all in one stage.
OneStage ==
    \A c \in Classes, p \in Pairs, q \in Pairs :
        /\ p[1] \in Cohort(c) \intersect Steady
        /\ q[1] \in Cohort(c) \intersect Steady
        /\ Closed(row[p])
        /\ HasRow(q)
        => row[q].state = row[p].state

ClosedStates == {"reviewed", "published", "locked"}

\* A compilation has found no closed row, a transition rows that may move; and
\* one that signs off has found them as they were compiled.
JobInv ==
    /\ job # NoJob =>
         /\ ReadOf(job.class, job.data)
         /\ \A p \in Pairs : HasRow(p) /\ p[1] \in Cohort(job.class) \intersect Steady
                => p[1] \in job.data.students
    /\ job.kind = "compile" => \A p \in Stored(job.data) : ~Closed(row[p])
    /\ job.kind = "transition" =>
         \A p \in Stored(job.data) :
            /\ CanTransition(row[p].state, job.to)
            /\ \A q \in Stored(job.data) : row[q].state = row[p].state
            /\ job.to \in ClosedStates => row[p].complete
            /\ job.to \in ClosedStates /\ ~Closed(row[p]) =>
                 /\ audit[job.class] = [scope |-> "class", data |-> job.data]
                 /\ p \in job.data.offerings

Inv == TypeOK /\ RowsInv /\ AuditInv /\ OneStage /\ JobInv

-----------------------------------------------------------------------------
(***************************************************************************)
(* Types.                                                                  *)
(***************************************************************************)
LEMMA RowType ==
    ASSUME NEW r \in Row \union {NoRow}
    PROVE  /\ r # NoRow <=> r \in Row
           /\ r # NoRow <=> r.state \in States
           /\ r # NoRow => /\ r.state \in States /\ r.complete \in BOOLEAN /\ r.value \in Value
                           /\ r.published \in BOOLEAN
           /\ Closed(r) <=> r.state \in ClosedStates
           /\ Closed(r) => r # NoRow
           /\ r # NoRow /\ ~Closed(r) => r.state \in {"draft", "compiled"}
BY DEF Row, NoRow, States, Closed, ClosedStates

LEMMA ConfigType ==
    ASSUME NEW c \in Config
    PROVE  c.policy \in Policy
BY PolicyAssumption DEF Config

LEMMA BlankType == Blank \in Work /\ NoMark \in Marks \union {NoMark, Unmarked}
BY DEF Blank, Work

LEMMA CohortType ==
    \A c : Cohort(c) \subseteq Students
BY DEF Cohort, Enrolled

LEMMA ReadType ==
    ASSUME TypeOK, NEW c \in Classes
    PROVE  /\ Read(c) \in Data
           /\ Read(c).students = Cohort(c)
           /\ \A p \in Read(c).offerings : p \in Pairs /\ p[1] \in Cohort(c)
<1>1. Read(c).work \in [Pairs -> Work]
  BY BlankType DEF TypeOK, Read
<1>. QED
  BY <1>1, CohortType DEF TypeOK, Read, Data

LEMMA ValueType ==
    ASSUME NEW data \in Data, NEW p \in data.offerings
    PROVE  ValueOf(data, p) \in Value /\ ValueOf(data, p).work = data.work[p]
<1>. DEFINE cohort == {s \in data.students : <<s, p[2]>> \in data.offerings}
            sheet == [s \in cohort |-> data.work[<<s, p[2]>>]]
            policy == data.config.policy
<1>1. /\ p \in Pairs /\ cohort \subseteq Students /\ data.config \in Config
      /\ data.work[p] \in Work
      /\ \A s \in cohort : <<s, p[2]>> \in Pairs /\ data.work[<<s, p[2]>>] \in Work
  BY DEF Data
<1>2. sheet \in Sheet
  <2>1. sheet \in [cohort -> Work]
    BY <1>1
  <2>. QED
    BY <2>1, <1>1 DEF Sheet
<1>3. Cardinality(cohort) \in Nat
  BY <1>1, StudentAssumption, FS_Subset, FS_CardinalityType
<1>4. Position(p[1], sheet, policy) \in Nat
  <2>1. CASE p[1] \in Eligible(sheet, policy)
    BY <2>1, <1>1, <1>2, ConfigType, BeforeFinite DEF Position
  <2>2. CASE p[1] \notin Eligible(sheet, policy)
    BY <2>2 DEF Position
  <2>. QED
    BY <2>1, <2>2
<1>5. ValueOf(data, p) = [work |-> data.work[p], position |-> Position(p[1], sheet, policy),
                          size |-> Cardinality(cohort), config |-> data.config]
  BY DEF ValueOf
<1>. QED
  BY <1>1, <1>3, <1>4, <1>5 DEF Value

LEMMA CompiledRowType ==
    ASSUME NEW data \in Data, NEW p \in data.offerings
    PROVE  /\ CompiledRow(data, p) \in Row
           /\ ~Closed(CompiledRow(data, p))
           /\ CompiledRow(data, p).complete = Complete(CompiledRow(data, p).value.work)
           /\ CompiledRow(data, p).value = ValueOf(data, p)
           /\ CompiledRow(data, p).state = "compiled"
<1>1. Complete(data.work[p]) \in BOOLEAN
  BY DEF Complete
<1>. QED
  BY <1>1, ValueType DEF CompiledRow, Row, States, Closed

LEMMA StaleType ==
    ASSUME NEW r \in Row \union {NoRow}
    PROVE  /\ Stale(r) \in Row \union {NoRow}
           /\ Closed(r) => Stale(r) = r
           /\ r = NoRow <=> Stale(r) = NoRow
           /\ r # NoRow => /\ Stale(r).value = r.value
                           /\ Stale(r).state \in {r.state, "draft"}
                           /\ Stale(r).complete => r.complete
                           /\ Closed(Stale(r)) <=> Closed(r)
                           /\ Stale(r).state # r.state => r.state = "compiled"
<1>1. CASE r.state = "compiled"
  <2>1. r \in Row
    BY <1>1, RowType DEF States
  <2>2. Stale(r) = [r EXCEPT !.state = "draft", !.complete = FALSE]
    BY <1>1 DEF Stale
  <2>. QED
    BY <1>1, <2>1, <2>2, RowType DEF Row, States, Closed, ClosedStates, NoRow
<1>2. CASE r.state # "compiled"
  BY <1>2 DEF Stale
<1>. QED
  BY <1>1, <1>2

LEMMA StoredType ==
    ASSUME TypeOK, NEW data \in Data
    PROVE  \A p : p \in Stored(data) <=> p \in Pairs /\ p[1] \in data.students /\ HasRow(p)
BY DEF Stored, Data, Pairs

LEMMA JobType ==
    ASSUME TypeOK
    PROVE  /\ job # NoJob => /\ job \in Job /\ job.class \in Classes /\ job.data \in Data
                             /\ job.kind \in {"compile", "transition"}
           /\ job.kind = "compile" => /\ job # NoJob
                                      /\ job.only \in Subjects \union {AllSubjects}
           /\ job.kind = "transition" => job # NoJob /\ job.to \in States
BY DEF TypeOK, Job, NoJob

LEMMA AuditType ==
    ASSUME TypeOK, NEW c \in Classes
    PROVE  /\ audit[c] # NoAudit <=> audit[c] \in Audit
           /\ audit[c] # NoAudit => /\ audit[c].data \in Data
                                    /\ audit[c].scope \in {"class", "subject"}
BY DEF TypeOK, Audit, NoAudit

LEMMA ChosenType ==
    ASSUME NEW data \in Data, NEW only
    PROVE  /\ Chosen(data, only) \subseteq data.offerings
           /\ data.offerings \subseteq Pairs
           /\ only = AllSubjects => Chosen(data, only) = data.offerings
BY DEF Chosen, Data

LEMMA CorrectType ==
    ASSUME TypeOK, NEW corrected, Correct(corrected)
    PROVE  /\ row' \in [Pairs -> Row \union {NoRow}]
           /\ \A p \in Pairs : row'[p] = IF p \in corrected THEN Stale(row[p]) ELSE row[p]
BY StaleType DEF TypeOK, Correct

LEMMA FinishCompileType ==
    ASSUME TypeOK, FinishCompile
    PROVE  /\ row' \in [Pairs -> Row \union {NoRow}]
           /\ \A p \in Pairs :
                 /\ p \in Chosen(job.data, job.only) => row'[p] = CompiledRow(job.data, p)
                 /\ p \notin Chosen(job.data, job.only) =>
                      \/ row'[p] = row[p]
                      \/ row'[p] = NoRow /\ p[1] \in job.data.students
<1>1. /\ job.data \in Data
      /\ Chosen(job.data, job.only) \subseteq job.data.offerings
  BY JobType, ChosenType DEF FinishCompile
<1>2. \A p \in Chosen(job.data, job.only) : CompiledRow(job.data, p) \in Row
  BY <1>1, CompiledRowType
<1>. QED
  BY <1>2 DEF TypeOK, FinishCompile

LEMMA FinishTransitionType ==
    ASSUME TypeOK, FinishTransition
    PROVE  /\ row' \in [Pairs -> Row \union {NoRow}]
           /\ \A p \in Pairs : p \notin Stored(job.data) => row'[p] = row[p]
           /\ \A p \in Stored(job.data) :
                /\ p \in Pairs /\ HasRow(p)
                /\ row'[p].state = job.to
                /\ row'[p].complete = row[p].complete
                /\ row'[p].value = row[p].value
<1>1. job.data \in Data /\ job.to \in States
  BY JobType DEF FinishTransition
<1>2. \A p \in Stored(job.data) : p \in Pairs /\ HasRow(p) /\ row[p] \in Row
  BY <1>1, StoredType, RowType DEF TypeOK, HasRow
<1>3. IsVisibleToFamily(job.to) \in BOOLEAN
  BY DEF IsVisibleToFamily
<1>4. \A p \in Stored(job.data) :
         LET r == [row[p] EXCEPT !.state = job.to, !.published = IsVisibleToFamily(job.to)]
         IN  /\ r \in Row /\ r.state = job.to /\ r.complete = row[p].complete
             /\ r.value = row[p].value
  BY <1>1, <1>2, <1>3 DEF Row
<1>5. \A p \in Pairs :
         row'[p] = IF p \in Stored(job.data)
                   THEN [row[p] EXCEPT !.state = job.to, !.published = IsVisibleToFamily(job.to)]
                   ELSE row[p]
  BY DEF FinishTransition
<1>6. row' \in [Pairs -> Row \union {NoRow}]
  BY <1>2, <1>4 DEF TypeOK, FinishTransition
<1>. QED
  BY <1>2, <1>4, <1>5, <1>6

LEMMA InitType == Init => TypeOK
<1>. SUFFICES ASSUME Init PROVE TypeOK
  OBVIOUS
<1>1. work \in [Pairs -> Work]
  BY BlankType, StartAssumption DEF Init
<1>2. config \in Config
  BY DEF Init, Config
<1>3. classOf \in [Students -> Classes] /\ Enrolled \subseteq Students
  BY OfficeAssumption DEF Init, Enrolled
<1>. QED
  BY <1>1, <1>2, <1>3 DEF Init, TypeOK, Pairs

LEMMA TypeStep == TypeOK /\ [Next]_vars => TypeOK'
<1>. SUFFICES ASSUME TypeOK, [Next]_vars PROVE TypeOK'
  OBVIOUS
<1>. USE DEF Change
<1>1. CASE Entry
  <2>1. ASSUME NEW p \in Pairs, NEW m \in Marks, EnterScore(p, m) PROVE TypeOK'
    <3>1. work' \in [Pairs -> Work]
      BY <2>1 DEF EnterScore, TypeOK, Work
    <3>. QED
      BY <2>1, <3>1, CorrectType DEF EnterScore, TypeOK
  <2>2. ASSUME NEW c \in Classes, NEW entries \in SUBSET Pairs, NEW m \in Marks,
               Moderate(c, entries, m)
        PROVE  TypeOK'
    <3>1. work' \in [Pairs -> Work]
      BY <2>2 DEF Moderate, TypeOK, Work
    <3>. QED
      BY <2>2, <3>1, CorrectType DEF Moderate, TypeOK
  <2>3. ASSUME NEW p \in Pairs, NEW exam \in Marks \union {NoMark, Unmarked}, AwardMarks(p, exam)
        PROVE  TypeOK'
    <3>1. work' \in [Pairs -> Work]
      BY <2>3 DEF AwardMarks, TypeOK, Work
    <3>. QED
      BY <2>3, <3>1, CorrectType DEF AwardMarks, TypeOK
  <2>4. ASSUME NEW policy \in Policies, NEW regraded \in BOOLEAN, SaveAcademic(policy, regraded)
        PROVE  TypeOK'
    <3>1. config' \in Config
      BY <2>4 DEF SaveAcademic, TypeOK, Config
    <3>. QED
      BY <2>4, <3>1 DEF SaveAcademic, TypeOK
  <2>. QED
    BY <1>1, <2>1, <2>2, <2>3, <2>4 DEF Entry
<1>2. CASE Around
  <2>1. ASSUME NEW p \in Pairs, NEW exam \in Marks \union {Unmarked}, Submit(p, exam) PROVE TypeOK'
    <3>1. work' \in [Pairs -> Work]
      BY <2>1 DEF Submit, TypeOK, Work
    <3>. QED
      BY <2>1, <3>1 DEF Submit, TypeOK
  <2>2. ASSUME NEW p \in Pairs, Reattempt(p) PROVE TypeOK'
    <3>1. work' \in [Pairs -> Work]
      BY <2>2 DEF Reattempt, TypeOK, Work
    <3>. QED
      BY <2>2, <3>1 DEF Reattempt, TypeOK
  <2>3. ASSUME NEW s \in Students, NEW c \in Classes, Admit(s, c) PROVE TypeOK'
    BY <2>3 DEF Admit, TypeOK
  <2>4. ASSUME NEW s \in Students, NEW electives \in SUBSET Subjects, Register(s, electives)
        PROVE  TypeOK'
    <3>1. registered' \subseteq Pairs
      BY <2>4, SubjectAssumption DEF Register, TypeOK, Pairs
    <3>. QED
      BY <2>4, <3>1 DEF Register, TypeOK
  <2>5. ASSUME NEW s \in Students, NEW c \in Classes, MoveStudent(s, c) PROVE TypeOK'
    BY <2>5 DEF MoveStudent, TypeOK
  <2>6. ASSUME NEW s \in Students, Suspend(s) \/ Reinstate(s) PROVE TypeOK'
    BY <2>6 DEF Suspend, Reinstate, TypeOK
  <2>7. ASSUME NEW s \in Students, Withdraw(s) PROVE TypeOK'
    BY <2>7 DEF Withdraw, TypeOK
  <2>8. ASSUME NEW j \in Subjects, RetireOrRevive(j) PROVE TypeOK'
    BY <2>8 DEF RetireOrRevive, TypeOK
  <2>. QED
    BY <1>2, <2>1, <2>2, <2>3, <2>4, <2>5, <2>6, <2>7, <2>8 DEF Around
<1>3. CASE Office
  <2>1. ASSUME NEW c \in Classes, NEW only \in Subjects \union {AllSubjects}, BeginCompile(c, only)
        PROVE  TypeOK'
    <3>1. job' \in Job
      BY <2>1, ReadType DEF BeginCompile, Job
    <3>. QED
      BY <2>1, <3>1 DEF BeginCompile, TypeOK, inputs
  <2>2. CASE FinishCompile
    <3>1. job.class \in Classes /\ job.data \in Data
      BY <2>2, JobType DEF FinishCompile
    <3>2. audit' \in [Classes -> Audit \union {NoAudit}]
      BY <2>2, <3>1 DEF FinishCompile, TypeOK, Audit
    <3>. QED
      BY <2>2, <3>2, FinishCompileType DEF FinishCompile, TypeOK, inputs
  <2>3. ASSUME NEW c \in Classes, NEW to \in States, BeginTransition(c, to) PROVE TypeOK'
    <3>1. job' \in Job
      BY <2>3, ReadType DEF BeginTransition, Job
    <3>. QED
      BY <2>3, <3>1 DEF BeginTransition, TypeOK, inputs
  <2>4. CASE FinishTransition
    BY <2>4, FinishTransitionType DEF FinishTransition, TypeOK, inputs
  <2>5. CASE Abandon
    BY <2>5 DEF Abandon, TypeOK, inputs
  <2>. QED
    BY <1>3, <2>1, <2>2, <2>3, <2>4, <2>5 DEF Office
<1>4. CASE UNCHANGED vars
  BY <1>4 DEF vars, inputs, TypeOK
<1>. QED
  BY <1>1, <1>2, <1>3, <1>4 DEF Next

-----------------------------------------------------------------------------
(***************************************************************************)
(* The kinds of steps.                                                     *)
(***************************************************************************)
\* Marks are entered: results that are not closed may become drafts.
Marked ==
    /\ job = NoJob
    /\ UNCHANGED <<classOf, enrolment, active, audit, job>>
    /\ \E corrected \in SUBSET Pairs :
          (\A p \in corrected : ~Closed(row[p])) /\ Correct(corrected)

\* What no step outside the lock does to the students of a class: nobody stops
\* being enrolled somewhere, and nobody steady changes class or comes back.
Outside ==
    /\ UNCHANGED <<row, audit, job>>
    /\ \A s \in Students : enrolment[s] # "none" =>
          /\ enrolment'[s] # "none"
          /\ s \notin Movable => classOf'[s] = classOf[s]
          /\ s \in Steady /\ enrolment'[s] = "active" /\ s \in active'
                => enrolment[s] = "active" /\ s \in active

LEMMA Kinds ==
    ASSUME TypeOK, [Next]_vars
    PROVE  Marked \/ Outside \/ Office
<1>1. CASE Entry
  <2>1. ASSUME NEW p \in Pairs, NEW m \in Marks, EnterScore(p, m) PROVE Marked
    BY <2>1 DEF EnterScore, LockFree, Correctable, Marked
  <2>2. ASSUME NEW c \in Classes, NEW entries \in SUBSET Pairs, NEW m \in Marks,
               Moderate(c, entries, m)
        PROVE  Marked
    BY <2>2 DEF Moderate, LockFree, Correctable, Marked
  <2>3. ASSUME NEW p \in Pairs, NEW exam \in Marks \union {NoMark, Unmarked}, AwardMarks(p, exam)
        PROVE  Marked
    BY <2>3 DEF AwardMarks, LockFree, Correctable, Marked
  <2>4. ASSUME NEW policy \in Policies, NEW regraded \in BOOLEAN, SaveAcademic(policy, regraded)
        PROVE  Outside
    BY <2>4 DEF SaveAcademic, Outside
  <2>. QED
    BY <1>1, <2>1, <2>2, <2>3, <2>4 DEF Entry
<1>2. CASE Around
  <2>1. ASSUME NEW p \in Pairs, NEW exam, Submit(p, exam) \/ Reattempt(p) PROVE Outside
    BY <2>1 DEF Submit, Reattempt, Outside
  <2>2. ASSUME NEW s \in Students, NEW c \in Classes, Admit(s, c) PROVE Outside
    BY <2>2 DEF Admit, Outside, TypeOK
  <2>3. ASSUME NEW s \in Students, NEW electives, Register(s, electives) PROVE Outside
    BY <2>3 DEF Register, Outside
  <2>4. ASSUME NEW s \in Students, NEW c \in Classes, MoveStudent(s, c) PROVE Outside
    BY <2>4 DEF MoveStudent, Outside, TypeOK
  <2>5. ASSUME NEW s \in Students, Suspend(s) \/ Reinstate(s) PROVE Outside
    BY <2>5 DEF Suspend, Reinstate, Steady, Outside
  <2>6. ASSUME NEW s \in Students, Withdraw(s) PROVE Outside
    BY <2>6 DEF Withdraw, Outside, TypeOK
  <2>7. ASSUME NEW j \in Subjects, RetireOrRevive(j) PROVE Outside
    BY <2>7 DEF RetireOrRevive, Outside
  <2>. QED
    BY <1>2, <2>1, <2>2, <2>3, <2>4, <2>5, <2>6, <2>7 DEF Around
<1>3. CASE UNCHANGED vars
  BY <1>3 DEF vars, inputs, Outside
<1>. QED
  BY <1>1, <1>2, <1>3 DEF Next

\* The steady members of a class who have results have been members all along.
LEMMA OutsideCohort ==
    ASSUME TypeOK, Outside, NEW c \in Classes, NEW s \in Steady, enrolment[s] # "none",
           s \in Cohort(c)'
    PROVE  s \in Cohort(c)
BY DEF Outside, Cohort, Enrolled, Steady

LEMMA MarkedRows ==
    ASSUME TypeOK, Marked
    PROVE  /\ \A c : Cohort(c)' = Cohort(c)
           /\ \A p \in Pairs :
                /\ HasRow(p)' <=> HasRow(p)
                /\ Closed(row'[p]) <=> Closed(row[p])
                /\ Closed(row[p]) => row'[p] = row[p]
                /\ HasRow(p) => /\ row'[p].value = row[p].value
                                /\ row'[p].complete => row[p].complete
                                /\ row'[p].state # row[p].state =>
                                     row[p].state = "compiled" /\ row'[p].state = "draft"
<1>1. \A c : Cohort(c)' = Cohort(c)
  BY DEF Marked, Cohort, Enrolled
<1>2. PICK corrected \in SUBSET Pairs :
         (\A p \in corrected : ~Closed(row[p])) /\ Correct(corrected)
  BY DEF Marked
<1>3. \A p \in Pairs : row'[p] = IF p \in corrected THEN Stale(row[p]) ELSE row[p]
  BY <1>2, CorrectType
<1>4. ASSUME NEW p \in Pairs
      PROVE  /\ HasRow(p)' <=> HasRow(p)
             /\ Closed(row'[p]) <=> Closed(row[p])
             /\ Closed(row[p]) => row'[p] = row[p]
             /\ HasRow(p) => /\ row'[p].value = row[p].value
                             /\ row'[p].complete => row[p].complete
                             /\ row'[p].state # row[p].state =>
                                  row[p].state = "compiled" /\ row'[p].state = "draft"
  <2>1. row[p] \in Row \union {NoRow}
    BY DEF TypeOK
  <2>2. CASE row'[p] = row[p]
    BY <2>1, <2>2, RowType DEF HasRow
  <2>3. CASE row'[p] = Stale(row[p])
    BY <2>1, <2>3, StaleType, RowType DEF HasRow
  <2>. QED
    BY <1>3, <2>2, <2>3
<1>. QED
  BY <1>1, <1>4

-----------------------------------------------------------------------------
(***************************************************************************)
(* The invariant is kept.                                                  *)
(***************************************************************************)
LEMMA MarkedKeeps == ASSUME Inv, TypeOK', Marked PROVE Inv'
<1>1. RowsInv'
  BY MarkedRows DEF Inv, RowsInv, Marked
<1>2. AuditInv'
  <2>1. \A c \in Classes : audit[c] # NoAudit => audit[c].data.offerings \subseteq Pairs
    BY AuditType DEF Inv, Data
  <2>. QED
    BY <2>1, MarkedRows DEF Inv, AuditInv, ReadOf, Marked
<1>3. OneStage'
  BY MarkedRows DEF Inv, OneStage, Closed
<1>4. JobInv'
  <2>1. job' = NoJob
    BY DEF Marked
  <2>. QED
    BY <2>1 DEF JobInv, NoJob
<1>. QED
  BY <1>1, <1>2, <1>3, <1>4 DEF Inv

LEMMA OutsideKeeps == ASSUME Inv, TypeOK', Outside PROVE Inv'
<1>0. TypeOK /\ UNCHANGED <<row, audit, job>>
  BY DEF Inv, Outside
<1>1. RowsInv'
  BY <1>0 DEF Inv, RowsInv, Outside, HasRow, Pairs
<1>2. ASSUME NEW c \in Classes, NEW data \in Data, ReadOf(c, data) PROVE ReadOf(c, data)'
  BY <1>2 DEF ReadOf, Outside, Data
<1>3. AuditInv'
  BY <1>0, <1>2, AuditType DEF Inv, AuditInv, HasRow
<1>4. ASSUME NEW c \in Classes, NEW p \in Pairs, HasRow(p), p[1] \in Cohort(c)' \intersect Steady
      PROVE  p[1] \in Cohort(c)
  BY <1>0, <1>4, OutsideCohort DEF Inv, RowsInv
<1>5. OneStage'
  <2>. SUFFICES ASSUME NEW c \in Classes, NEW p \in Pairs, NEW q \in Pairs,
                       p[1] \in Cohort(c)' \intersect Steady,
                       q[1] \in Cohort(c)' \intersect Steady, Closed(row[p]), HasRow(q)
                PROVE  row[q].state = row[p].state
    BY <1>0 DEF OneStage, HasRow
  <2>1. HasRow(p)
    BY <1>0, RowType DEF HasRow, TypeOK
  <2>. QED
    BY <2>1, <1>4 DEF Inv, OneStage
<1>6. JobInv'
  <2>1. \A data : Stored(data)' = Stored(data)
    BY <1>0 DEF Stored, HasRow
  <2>2. job # NoJob => /\ ReadOf(job.class, job.data)'
                       /\ \A p \in Pairs : HasRow(p) /\ p[1] \in Cohort(job.class)' \intersect Steady
                             => p[1] \in job.data.students
    BY <1>0, <1>2, <1>4, JobType DEF Inv, JobInv
  <2>. QED
    BY <1>0, <2>1, <2>2 DEF Inv, JobInv, HasRow
<1>. QED
  BY <1>1, <1>3, <1>5, <1>6 DEF Inv

\* A steady student of a class cannot be among those read of another.
LEMMA ReadOfOne ==
    ASSUME TypeOK, NEW b \in Classes, NEW c \in Classes, NEW data, ReadOf(b, data),
           NEW s \in Steady \intersect Cohort(c), s \in data.students
    PROVE  c = b
BY DEF ReadOf, Cohort, Steady

LEMMA BeginKeeps ==
    ASSUME Inv, TypeOK', NEW c \in Classes,
           \/ \E only \in Subjects \union {AllSubjects} : BeginCompile(c, only)
           \/ \E to \in States : BeginTransition(c, to)
    PROVE  Inv'
<1>1. TypeOK /\ UNCHANGED <<inputs, row, audit>>
  BY DEF Inv, BeginCompile, BeginTransition
<1>2. \A b, data : Cohort(b)' = Cohort(b) /\ Stored(data)' = Stored(data)
  BY <1>1 DEF Cohort, Enrolled, Stored, HasRow, inputs
<1>3. RowsInv' /\ AuditInv' /\ OneStage'
  BY <1>1, <1>2 DEF Inv, RowsInv, AuditInv, OneStage, ReadOf, HasRow, inputs
<1>4. ReadOf(c, Read(c))
  <2>1. \A s \in Cohort(c) : enrolment[s] = "active" /\ classOf[s] = c
    BY DEF Cohort, Enrolled
  <2>. QED
    BY <1>1, <2>1, ReadType DEF ReadOf
<1>5. /\ job' # NoJob /\ job'.class = c /\ job'.data = Read(c)
      /\ job'.kind = "compile" => \A p \in Stored(Read(c)) : ~Closed(row[p])
      /\ job'.kind = "transition" => BeginTransition(c, job'.to) /\ job'.to \in States
      /\ job'.kind \in {"compile", "transition"}
  BY DEF BeginCompile, BeginTransition, MayCompile, NoJob
<1>6. ASSUME job'.kind = "transition", NEW p \in Stored(Read(c))
      PROVE  /\ CanTransition(row[p].state, job'.to)
             /\ \A q \in Stored(Read(c)) : row[q].state = row[p].state
             /\ job'.to \in ClosedStates => row[p].complete
             /\ job'.to \in ClosedStates /\ ~Closed(row[p]) =>
                  /\ audit[c] = [scope |-> "class", data |-> Read(c)]
                  /\ p \in Read(c).offerings
  <2>1. PICK from \in States \ {job'.to} :
           /\ \A q \in Stored(Read(c)) : row[q].state = from
           /\ CanTransition(from, job'.to)
           /\ IsSignOff(from, job'.to) => ReadyForSignOff(c, Read(c))
    BY <1>5, <1>6 DEF BeginTransition, MayMove
  <2>2. p \in Pairs /\ HasRow(p) /\ row[p] \in Row
    BY <1>1, <1>6, ReadType, StoredType, RowType DEF TypeOK, HasRow
  <2>3. job'.to \in ClosedStates => IsSignOff(from, job'.to) \/ Closed(row[p])
    BY <2>1, <1>6 DEF IsSignOff, Closed, CanTransition, Transitions, States, ClosedStates
  <2>4. Closed(row[p]) => row[p].complete
    BY <2>2 DEF Inv, RowsInv
  <2>5. ReadyForSignOff(c, Read(c)) =>
          /\ audit[c] = [scope |-> "class", data |-> Read(c)]
          /\ p \in Read(c).offerings /\ row[p].complete
    BY <1>6 DEF ReadyForSignOff
  <2>6. CASE IsSignOff(from, job'.to)
    BY <1>6, <2>1, <2>5, <2>6
  <2>7. CASE ~IsSignOff(from, job'.to)
    BY <1>6, <2>1, <2>3, <2>4, <2>7
  <2>. QED
    BY <2>6, <2>7
<1>7. JobInv'
  <2>1. PICK data : data = Read(c)
    OBVIOUS
  <2>2. job'.class = c /\ job'.data = data
    BY <1>5, <2>1
  <2>3. ReadOf(c, data)'
    BY <1>1, <1>4, <2>1 DEF ReadOf, inputs
  <2>4. \A p \in Pairs : HasRow(p)' /\ p[1] \in Cohort(c)' \intersect Steady
           => p[1] \in data.students
    BY <1>1, <1>2, <2>1, ReadType
  <2>5. job'.kind = "compile" => \A p \in Stored(data)' : ~Closed(row'[p])
    BY <1>1, <1>2, <1>5, <2>1
  <2>6. job'.kind = "transition" =>
          \A p \in Stored(data)' :
             /\ CanTransition(row'[p].state, job'.to)
             /\ \A q \in Stored(data)' : row'[q].state = row'[p].state
             /\ job'.to \in ClosedStates => row'[p].complete
             /\ job'.to \in ClosedStates /\ ~Closed(row'[p]) =>
                  /\ audit'[c] = [scope |-> "class", data |-> data]
                  /\ p \in data.offerings
    BY <1>1, <1>2, <1>6, <2>1
  <2>. QED
    BY <2>2, <2>3, <2>4, <2>5, <2>6 DEF JobInv
<1>. QED
  BY <1>3, <1>7 DEF Inv

LEMMA FinishCompileKeeps == ASSUME Inv, TypeOK', FinishCompile PROVE Inv'
<1>1. /\ TypeOK /\ UNCHANGED inputs /\ job' = NoJob /\ job # NoJob
      /\ job.class \in Classes /\ job.data \in Data
  BY JobType DEF Inv, FinishCompile
<1>2. \A c : Cohort(c)' = Cohort(c)
  BY <1>1 DEF Cohort, Enrolled, inputs
<1>. DEFINE chosen == Chosen(job.data, job.only)
<1>3. /\ chosen \subseteq job.data.offerings /\ job.data.offerings \subseteq Pairs
      /\ job.only = AllSubjects => chosen = job.data.offerings
      /\ \A p \in chosen : p[1] \in job.data.students
      /\ ReadOf(job.class, job.data)
      /\ \A p \in Pairs : HasRow(p) /\ p[1] \in Cohort(job.class) \intersect Steady
             => p[1] \in job.data.students
      /\ \A p \in Stored(job.data) : ~Closed(row[p])
  BY <1>1, ChosenType DEF Inv, JobInv, ReadOf, FinishCompile
<1>4. \A p \in chosen : /\ row'[p] \in Row
                        /\ row'[p] # NoRow /\ ~Closed(row'[p])
                        /\ row'[p].complete = Complete(row'[p].value.work)
                        /\ row'[p].value = ValueOf(job.data, p)
  BY <1>1, <1>3, FinishCompileType, CompiledRowType, RowType
<1>5. \A p \in Pairs \ chosen : \/ row'[p] = row[p]
                                \/ row'[p] = NoRow /\ p[1] \in job.data.students
  BY <1>1, FinishCompileType
<1>6. RowsInv'
  <2>1. enrolment' = enrolment /\ ~Closed(NoRow)
    BY <1>1 DEF inputs, Closed, NoRow
  <2>. QED
    BY <2>1, <1>3, <1>4, <1>5 DEF Inv, RowsInv, HasRow, ReadOf
<1>7. AuditInv'
  <2>. SUFFICES ASSUME NEW c \in Classes, NEW data, audit'[c] # NoAudit, data = audit'[c].data
                PROVE  /\ ReadOf(c, data)'
                       /\ audit'[c].scope = "class" =>
                            \A p \in data.offerings :
                               p[1] \notin Movable /\ HasRow(p)' =>
                                  row'[p].value = ValueOf(data, p)
    BY DEF AuditInv
  <2>1. ReadOf(c, data)' <=> ReadOf(c, data)
    BY <1>1 DEF ReadOf, inputs
  <2>2. CASE c = job.class
    <3>1. audit'[c] = [scope |-> IF job.only = AllSubjects THEN "class" ELSE "subject",
                       data |-> job.data]
      BY <1>1, <2>2 DEF FinishCompile, TypeOK
    <3>2. audit'[c].scope = "class" => chosen = job.data.offerings
      BY <1>3, <3>1
    <3>. QED
      BY <1>3, <1>4, <2>1, <2>2, <3>1, <3>2
  <2>3. CASE c # job.class
    <3>1. audit'[c] = audit[c]
      BY <1>1, <2>3 DEF FinishCompile, TypeOK
    <3>2. ReadOf(c, audit[c].data) /\ audit[c].data \in Data
      BY <1>1, <3>1, AuditType DEF Inv, AuditInv
    <3>3. ASSUME NEW p \in audit[c].data.offerings, p[1] \notin Movable, HasRow(p)',
                 audit[c].scope = "class"
          PROVE  row'[p].value = ValueOf(audit[c].data, p)
      <4>1. p \in Pairs /\ p[1] \in Students /\ classOf[p[1]] = c
        BY <3>2, <3>3 DEF ReadOf, Data, Pairs
      <4>2. p \notin chosen
        BY <1>3, <2>3, <3>3, <4>1 DEF ReadOf
      <4>3. row'[p] = row[p]
        BY <1>5, <3>3, <4>1, <4>2 DEF HasRow
      <4>. QED
        BY <3>1, <3>3, <4>3 DEF Inv, AuditInv, HasRow
    <3>. QED
      BY <2>1, <3>1, <3>2, <3>3
  <2>. QED
    BY <2>2, <2>3
<1>8. OneStage'
  <2>. SUFFICES ASSUME NEW c \in Classes, NEW p \in Pairs, NEW q \in Pairs,
                       p[1] \in Cohort(c) \intersect Steady, q[1] \in Cohort(c) \intersect Steady,
                       Closed(row'[p]), HasRow(q)'
                PROVE  row'[q].state = row'[p].state
    BY <1>2 DEF OneStage
  <2>1. row'[p] = row[p] /\ HasRow(p) /\ Closed(row[p])
    BY <1>1, <1>4, <1>5, RowType DEF TypeOK, Closed, NoRow, HasRow
  <2>2. c # job.class
    BY <1>1, <1>3, <2>1, StoredType
  <2>3. q[1] \notin job.data.students
    BY <1>1, <1>3, <2>2, ReadOfOne
  <2>4. row'[q] = row[q]
    BY <1>3, <1>5, <2>3
  <2>. QED
    BY <2>1, <2>4 DEF Inv, OneStage, HasRow
<1>. QED
  BY <1>1, <1>6, <1>7, <1>8 DEF Inv, JobInv, NoJob

LEMMA FinishTransitionKeeps == ASSUME Inv, TypeOK', FinishTransition PROVE Inv'
<1>1. /\ TypeOK /\ UNCHANGED <<inputs, audit>> /\ job' = NoJob /\ job # NoJob
      /\ job.class \in Classes /\ job.data \in Data /\ job.kind = "transition"
      /\ job.to \in States
  BY JobType DEF Inv, FinishTransition
<1>2. \A c : Cohort(c)' = Cohort(c)
  BY <1>1 DEF Cohort, Enrolled, inputs
<1>. DEFINE stored == Stored(job.data)
<1>3. /\ \A p \in Pairs \ stored : row'[p] = row[p]
      /\ \A p \in stored : /\ p \in Pairs /\ HasRow(p) /\ row'[p].state = job.to
                           /\ row'[p].complete = row[p].complete
                           /\ row'[p].value = row[p].value
  BY <1>1, FinishTransitionType
<1>4. \A p \in Pairs : HasRow(p)' <=> HasRow(p)
  <2>1. \A p \in stored : row'[p].state # "none"
    BY <1>1, <1>3 DEF States
  <2>. QED
    BY <1>3, <2>1 DEF HasRow, NoRow
<1>5. \A p \in stored : Closed(row'[p]) => row[p].complete
  BY <1>1, <1>3 DEF Inv, JobInv, Closed, ClosedStates
<1>6. RowsInv'
  <2>1. enrolment' = enrolment
    BY <1>1 DEF inputs
  <2>. QED
    BY <2>1, <1>3, <1>4, <1>5 DEF Inv, RowsInv
<1>7. AuditInv'
  <2>1. \A c, data : ReadOf(c, data)' <=> ReadOf(c, data)
    BY <1>1 DEF ReadOf, inputs
  <2>2. \A c \in Classes : audit[c] # NoAudit => audit[c].data.offerings \subseteq Pairs
    BY <1>1, AuditType DEF Data
  <2>3. \A p \in Pairs : HasRow(p) => row'[p].value = row[p].value
    BY <1>3
  <2>4. audit' = audit
    BY <1>1
  <2>. QED
    BY <1>4, <2>1, <2>2, <2>3, <2>4 DEF Inv, AuditInv
<1>8. OneStage'
  <2>. SUFFICES ASSUME NEW c \in Classes, NEW p \in Pairs, NEW q \in Pairs,
                       p[1] \in Cohort(c) \intersect Steady, q[1] \in Cohort(c) \intersect Steady,
                       Closed(row'[p]), HasRow(q)'
                PROVE  row'[q].state = row'[p].state
    BY <1>2 DEF OneStage
  <2>1. HasRow(p) /\ HasRow(q)
    BY <1>1, <1>4, RowType DEF TypeOK, HasRow
  <2>2. CASE c = job.class
    <3>1. p \in stored /\ q \in stored
      BY <1>1, <2>1, <2>2, StoredType DEF Inv, JobInv
    <3>. QED
      BY <1>3, <3>1
  <2>3. CASE c # job.class
    <3>1. p[1] \notin job.data.students /\ q[1] \notin job.data.students
      BY <1>1, <2>3, ReadOfOne DEF Inv, JobInv
    <3>2. row'[p] = row[p] /\ row'[q] = row[q]
      BY <1>1, <1>3, <3>1, StoredType
    <3>. QED
      BY <2>1, <3>2 DEF Inv, OneStage
  <2>. QED
    BY <2>2, <2>3
<1>. QED
  BY <1>1, <1>6, <1>7, <1>8 DEF Inv, JobInv, NoJob

LEMMA AbandonKeeps == ASSUME Inv, TypeOK', Abandon PROVE Inv'
BY DEF Inv, RowsInv, AuditInv, OneStage, JobInv, NoJob, Abandon, inputs, HasRow, ReadOf,
       Cohort, Enrolled

LEMMA InvInit == Init => Inv
<1>. SUFFICES ASSUME Init PROVE Inv
  OBVIOUS
<1>1. \A p \in Pairs : ~HasRow(p) /\ ~Closed(row[p])
  BY DEF Init, HasRow, Closed, NoRow
<1>. QED
  BY <1>1, InitType DEF Inv, RowsInv, AuditInv, OneStage, JobInv, Init, NoJob, NoAudit

LEMMA InvStep == Inv /\ [Next]_vars => Inv'
<1>. SUFFICES ASSUME Inv, [Next]_vars PROVE Inv'
  OBVIOUS
<1>1. TypeOK'
  BY TypeStep DEF Inv
<1>2. CASE Office
  BY <1>1, <1>2, BeginKeeps, FinishCompileKeeps, FinishTransitionKeeps, AbandonKeeps DEF Office
<1>. QED
  BY <1>1, <1>2, Kinds, MarkedKeeps, OutsideKeeps DEF Inv

-----------------------------------------------------------------------------
(***************************************************************************)
(* The properties.                                                         *)
(***************************************************************************)
LEMMA AlwaysInv == Spec => []Inv
BY InvInit, InvStep, PTL DEF Spec

\* Types are kept: in particular every position stored is a number, of a cohort.
THEOREM TypeCorrect == Spec => []TypeOK
<1>1. Inv => TypeOK
  BY DEF Inv
<1>. QED
  BY <1>1, AlwaysInv, PTL

\* No reviewed, published or locked result lacks a mark (transitionClassResults).
THEOREM AlwaysComplete == Spec => []ClosedIsComplete
<1>1. Inv => ClosedIsComplete
  <2>. SUFFICES ASSUME Inv, NEW p \in Pairs, Closed(row[p])
                PROVE  row[p].complete /\ Complete(row[p].value.work)
    BY DEF ClosedIsComplete
  <2>1. HasRow(p)
    BY RowType DEF Inv, TypeOK, HasRow
  <2>. QED
    BY <2>1 DEF Inv, RowsInv
<1>. QED
  BY <1>1, AlwaysInv, PTL

\* A class no student is moved or reinstated into can be reopened, however many
\* students and classes there are (compileClassResults, transitionClassResults).
THEOREM AlwaysReopenable == Spec => []CanBeReopened
<1>1. Inv => CanBeReopened
  <2>. SUFFICES ASSUME Inv, NEW c \in Classes, Cohort(c) \subseteq Steady,
                       NEW p \in Stored(Read(c)), Closed(row[p])
                PROVE  \E to \in States : MayMove(c, to)
    BY DEF CanBeReopened
  <2>1. \A q \in Stored(Read(c)) : q \in Pairs /\ q[1] \in Cohort(c) /\ HasRow(q)
    BY ReadType, StoredType DEF Inv
  <2>2. \A q \in Stored(Read(c)) : row[q].state = row[p].state
    BY <2>1 DEF Inv, OneStage
  <2>3. row[p].state \in ClosedStates
    BY DEF Closed, ClosedStates
  <2>. DEFINE back == CASE row[p].state = "reviewed" -> "compiled"
                        [] row[p].state = "published" -> "reviewed"
                        [] row[p].state = "locked" -> "published"
  <2>4. /\ back \in States /\ row[p].state \in States \ {back}
        /\ CanTransition(row[p].state, back) /\ ~IsSignOff(row[p].state, back)
        /\ row[p].state # "draft"
    BY <2>3 DEF ClosedStates, States, CanTransition, Transitions, IsSignOff
  <2>5. MayMove(c, back)
    BY <2>2, <2>4 DEF MayMove
  <2>. QED
    BY <2>4, <2>5
<1>. QED
  BY <1>1, AlwaysInv, PTL

\* Only entered marks, a compilation and a lifecycle change write results.
LEMMA RowSteps ==
    ASSUME Inv, [Next]_vars
    PROVE  row' = row \/ Marked \/ FinishCompile \/ FinishTransition
<1>1. CASE Office
  BY <1>1 DEF Office, BeginCompile, BeginTransition, Abandon
<1>. QED
  BY <1>1, Kinds DEF Inv, Outside

\* What a compilation leaves alone.
LEMMA CompilesOpen ==
    ASSUME Inv, FinishCompile, NEW p \in Pairs, Closed(row[p])
    PROVE  row'[p] = row[p]
<1>1. /\ TypeOK /\ job.data \in Data
      /\ \A q \in Stored(job.data) : ~Closed(row[q])
      /\ \A q \in Chosen(job.data, job.only) : q[1] \in job.data.students
  BY JobType, ChosenType DEF Inv, JobInv, ReadOf, FinishCompile
<1>2. p \notin Stored(job.data) /\ HasRow(p)
  BY <1>1, RowType DEF TypeOK, HasRow
<1>3. p[1] \notin job.data.students
  BY <1>1, <1>2, StoredType
<1>. QED
  BY <1>1, <1>3, FinishCompileType

\* A signed-off result is not removed, and keeps its marks, grade and position
\* (enterScore, awardMarks, saveModeration, compileClassResults).
THEOREM NeverRewritten == Spec => ClosedNeverRewritten
<1>1. ASSUME Inv, [Next]_vars, NEW p \in Pairs, Closed(row[p])
      PROVE  row'[p] # NoRow /\ row'[p].value = row[p].value
  <2>1. row[p] # NoRow /\ TypeOK
    BY <1>1, RowType DEF Inv, TypeOK
  <2>2. CASE Marked
    BY <1>1, <2>1, <2>2, MarkedRows
  <2>3. CASE FinishCompile
    BY <1>1, <2>1, <2>3, CompilesOpen
  <2>4. CASE FinishTransition
    <3>1. job.to \in States
      BY <2>1, <2>4, JobType DEF FinishTransition
    <3>2. p \in Stored(job.data) => row'[p].state # "none" /\ row'[p].value = row[p].value
      BY <2>1, <2>4, <3>1, FinishTransitionType DEF States
    <3>3. p \notin Stored(job.data) => row'[p] = row[p]
      BY <2>1, <2>4, FinishTransitionType
    <3>. QED
      BY <2>1, <3>2, <3>3 DEF NoRow
  <2>. QED
    BY <1>1, <2>1, <2>2, <2>3, <2>4, RowSteps
<1>2. Inv /\ [Next]_vars =>
        [\A p \in Pairs : Closed(row[p]) => /\ row'[p] # NoRow
                                            /\ row'[p].value = row[p].value]_vars
  BY <1>1
<1>. QED
  BY <1>2, AlwaysInv, PTL DEF Spec, ClosedNeverRewritten

\* Results pass from stage to stage as TRANSITIONS says, and only open ones are
\* removed, although compilations and corrections never consult TRANSITIONS.
THEOREM LifecycleOrdered == Spec => LifecycleIsOrdered
<1>1. ASSUME Inv, [Next]_vars, NEW p \in Pairs, HasRow(p), row'[p].state # row[p].state
      PROVE  \/ CanTransition(row[p].state, row'[p].state)
             \/ ~Closed(row[p]) /\ row'[p] = NoRow
  <2>1. TypeOK /\ row[p] \in Row \union {NoRow} /\ row[p] # NoRow
    BY <1>1 DEF Inv, TypeOK, HasRow
  <2>2. CASE Marked
    BY <1>1, <2>1, <2>2, MarkedRows DEF CanTransition, Transitions
  <2>3. CASE FinishCompile
    <3>1. ~Closed(row[p])
      BY <1>1, <2>3, CompilesOpen
    <3>2. row[p].state \in {"draft", "compiled"}
      BY <2>1, <3>1, RowType
    <3>3. job.data \in Data /\ Chosen(job.data, job.only) \subseteq job.data.offerings
      BY <2>1, <2>3, JobType, ChosenType DEF FinishCompile
    <3>4. row'[p].state = "compiled" \/ row'[p] = NoRow
      BY <1>1, <2>1, <2>3, <3>3, FinishCompileType, CompiledRowType
    <3>. QED
      BY <3>1, <3>2, <3>4 DEF CanTransition, Transitions
  <2>4. CASE FinishTransition
    <3>1. p \in Stored(job.data) /\ row'[p].state = job.to
      BY <1>1, <2>1, <2>4, FinishTransitionType
    <3>2. job.kind = "transition" /\ JobInv
      BY <1>1, <2>4 DEF Inv, FinishTransition
    <3>3. CanTransition(row[p].state, job.to)
      BY <3>1, <3>2 DEF JobInv
    <3>. QED
      BY <3>1, <3>3
  <2>. QED
    BY <1>1, <2>2, <2>3, <2>4, RowSteps
<1>2. Inv /\ [Next]_vars =>
        [\A p \in Pairs : HasRow(p) /\ row'[p].state # row[p].state =>
            \/ CanTransition(row[p].state, row'[p].state)
            \/ ~Closed(row[p]) /\ row'[p] = NoRow]_vars
  BY <1>1
<1>. QED
  BY <1>2, AlwaysInv, PTL DEF Spec, LifecycleIsOrdered

\* A student who stays in a class is signed off with what compiling the class as
\* it was read would store, whatever happens without the lock.
THEOREM StayersSignedOffAsCompiled == Spec => StayersAreSignedOffAsCompiled
<1>1. ASSUME Inv, [Next]_vars, NEW p \in Pairs, p[1] \notin Movable,
             ~Closed(row[p]), Closed(row'[p])
      PROVE  row'[p].value = ValueOf(job.data, p)
  <2>1. TypeOK
    BY <1>1 DEF Inv
  <2>2. ~Marked
    BY <1>1, <2>1, MarkedRows
  <2>3. ~FinishCompile
    <3>. SUFFICES ASSUME FinishCompile PROVE FALSE
      OBVIOUS
    <3>1. job.data \in Data /\ Chosen(job.data, job.only) \subseteq job.data.offerings
      BY <2>1, JobType, ChosenType DEF FinishCompile
    <3>2. p \in Chosen(job.data, job.only) => ~Closed(row'[p])
      BY <2>1, <3>1, FinishCompileType, CompiledRowType
    <3>3. p \notin Chosen(job.data, job.only) => row'[p] = row[p] \/ row'[p] = NoRow
      BY <2>1, FinishCompileType
    <3>4. ~Closed(NoRow)
      BY DEF Closed, NoRow
    <3>. QED
      BY <1>1, <3>2, <3>3, <3>4
  <2>4. FinishTransition
    BY <1>1, <2>2, <2>3, RowSteps
  <2>5. /\ p \in Stored(job.data) /\ HasRow(p) /\ row'[p].state = job.to
        /\ row'[p].value = row[p].value
    BY <1>1, <2>1, <2>4, FinishTransitionType
  <2>6. /\ audit[job.class] = [scope |-> "class", data |-> job.data]
        /\ p \in job.data.offerings /\ job.class \in Classes
    BY <1>1, <2>1, <2>4, <2>5, JobType DEF Inv, JobInv, Closed, ClosedStates, FinishTransition
  <2>7. audit[job.class] # NoAudit
    BY <2>6 DEF NoAudit
  <2>. QED
    BY <1>1, <2>5, <2>6, <2>7 DEF Inv, AuditInv
<1>2. Inv /\ [Next]_vars =>
        [\A p \in Pairs : p[1] \notin Movable => SignedOffAsCompiled(p)]_vars
  BY <1>1 DEF SignedOffAsCompiled
<1>. QED
  BY <1>2, AlwaysInv, PTL DEF Spec, StayersAreSignedOffAsCompiled
================================================================================
