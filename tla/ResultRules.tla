------------------------------ MODULE ResultRules ------------------------------
(***************************************************************************)
(* The calculations of src/domain/academic.ts that results are compiled    *)
(* with: the total of the components, the positions in a cohort, and the   *)
(* stages a result passes through.                                         *)
(*                                                                         *)
(* Continuous assessment is one component besides the examination.  The    *)
(* grade is a function of the total and of the scale in force, so a result *)
(* keeps the version of the scale in its place.                            *)
(***************************************************************************)
EXTENDS Integers, FiniteSets

CONSTANTS
    Students,   \* known by their admission numbers
    Subjects,
    MaxMark     \* bound: a component is marked out of this

ASSUME StudentAssumption == Students \subseteq Nat /\ IsFiniteSet(Students)
ASSUME MarkAssumption == MaxMark \in Nat

Pairs == Students \X Subjects

Marks == 0..MaxMark

\* No score, or no finished attempt; and an attempt that waits for its marker.
NoMark == -1
Unmarked == -2

Work == [ca : Marks \union {NoMark}, exam : Marks \union {NoMark, Unmarked}]

\* rankingPolicy. Once totals are equal, equal examination marks mean equal CA: of
\* the tiebreakers only the first that is not `none' can matter.
Policy == [tie : {"competition", "dense", "ordinal"}, breaker : {"exam", "ca", "none"},
           rankIncomplete : BOOLEAN]

-----------------------------------------------------------------------------
\* computeTotal: what is missing counts nothing and is noted.
Complete(work) == work.ca >= 0 /\ work.exam >= 0

CaTotal(work) == IF work.ca >= 0 THEN work.ca ELSE 0
ExamTotal(work) == IF work.exam >= 0 THEN work.exam ELSE 0
Total(work) == CaTotal(work) + ExamTotal(work)

\* What the policy's tiebreaker looks at.
Tiebreak(work, policy) ==
    CASE policy.breaker = "exam" -> ExamTotal(work)
      [] policy.breaker = "ca" -> CaTotal(work)
      [] policy.breaker = "none" -> 0

Ahead(a, b, policy) ==
    \/ Total(a) > Total(b)
    \/ Total(a) = Total(b) /\ Tiebreak(a, policy) > Tiebreak(b, policy)

Tied(a, b, policy) == ~Ahead(a, b, policy) /\ ~Ahead(b, a, policy)

Eligible(sheet, policy) ==
    {s \in DOMAIN sheet : policy.rankIncomplete \/ Complete(sheet[s])}

\* The student's place: how many are before them, counting a tie as the policy says.
Before(s, sheet, policy) ==
    LET ahead == {t \in Eligible(sheet, policy) : Ahead(sheet[t], sheet[s], policy)}
    IN  CASE policy.tie = "competition" -> ahead
          [] policy.tie = "dense" ->
                {<<Total(sheet[t]), Tiebreak(sheet[t], policy)>> : t \in ahead}
          [] policy.tie = "ordinal" ->
                ahead \union {t \in Eligible(sheet, policy) :
                                Tied(sheet[t], sheet[s], policy) /\ t < s}

\* rank: sheet is the work of a cohort in one subject; 0 is not ranked.
Position(s, sheet, policy) ==
    IF s \in Eligible(sheet, policy) THEN 1 + Cardinality(Before(s, sheet, policy)) ELSE 0

-----------------------------------------------------------------------------
\* The result lifecycle.
States == {"draft", "compiled", "reviewed", "published", "locked"}

Transitions ==
    [draft |-> {"compiled"}, compiled |-> {"draft", "compiled", "reviewed"},
     reviewed |-> {"compiled", "published"}, published |-> {"reviewed", "locked"},
     locked |-> {"published"}]

CanTransition(from, to) == to \in Transitions[from]

IsEditable(state) == state \in {"draft", "compiled"}

IsVisibleToFamily(state) == state \in {"published", "locked"}
================================================================================
