--------------------------- MODULE PromotionProofs ---------------------------
(***************************************************************************)
(* Proofs about the promotion rules and the promotion batches; and, at the *)
(* end, about the pupils registered, placed and taken off the books.       *)
(***************************************************************************)
EXTENDS Promotion, Students, SequenceTheorems, FiniteSetTheorems, TLAPS

-----------------------------------------------------------------------------
(***************************************************************************)
(* The rules.                                                              *)
(***************************************************************************)

\* The outcome is one of the five of the code's type PromotionOutcome.
LEMMA JudgeType ==
    ASSUME NEW r \in Rules, NEW y \in Year, NEW level \in 1..TopLevel
    PROVE  Judge(r, y, level) \in Outcomes \union {"unresolved"}
BY DEF Judge, JudgeFinalist, JudgeOthers, Outcomes

\* How well an outcome speaks of the year.
Merit(outcome) ==
    CASE outcome = "repeat" -> 0
      [] outcome = "trial" -> 1
      [] OTHER -> 2

\* y is at least as good a year as z, in the same number of subjects.
NoWorse(y, z) ==
    /\ y.average >= z.average
    /\ y.passed >= z.passed
    /\ y.offered = z.offered
    /\ y.coreFailed => z.coreFailed

(***************************************************************************)
(* The rules are monotone: whatever thresholds a school saves, a student   *)
(* whose year is no worse than another's is never judged worse             *)
(* (evaluateLevel).                                                        *)
(***************************************************************************)
THEOREM BetterIsNotJudgedWorse ==
    ASSUME NEW r \in Rules, NEW y \in Year, NEW z \in Year, NEW level \in 1..TopLevel,
           NoWorse(y, z)
    PROVE  Merit(Judge(r, y, level)) >= Merit(Judge(r, z, level))
<1>1. FailedCore(r, y) => FailedCore(r, z)
  BY DEF NoWorse, FailedCore
<1>2. Required(r, y) = Required(r, z)
  BY DEF NoWorse, Required
<1>3. /\ Required(r, y) \in Nat /\ y.average \in Nat /\ z.average \in Nat
      /\ y.passed \in Nat /\ z.passed \in Nat /\ r.promote \in Nat /\ r.trial \in Nat
  BY DEF Rules, Year, Required
<1>4. Merit(JudgeFinalist(r, y)) >= Merit(JudgeFinalist(r, z))
  BY <1>1, <1>3 DEF NoWorse, JudgeFinalist, Merit
<1>5. Merit(JudgeOthers(r, y)) >= Merit(JudgeOthers(r, z))
  BY <1>1, <1>2, <1>3 DEF NoWorse, JudgeOthers, Merit
<1>. QED
  BY <1>4, <1>5 DEF NoWorse, Judge, Merit

\* Where an outcome leads is a class of the school, or none.
LEMMA ProposedType ==
    ASSUME NEW there, there \subseteq Classes, NEW outcome, NEW from \in Classes,
           NEW to \in Proposed(there, outcome, from)
    PROVE  to \in Classes \union {NoClass}
BY DEF Proposed, NextClass, TargetClass, FirstArm

LEMMA DestinationType ==
    ASSUME NEW there, there \subseteq Classes, NEW outcome, NEW from \in Classes,
           NEW stored \in Classes \union {NoClass},
           NEW to \in DestinationFor(there, outcome, from, stored)
    PROVE  to \in Classes \union {NoClass}
BY ProposedType DEF DestinationFor

\* A repeater always has a destination, and it is a class.
LEMMA RepeaterStays ==
    ASSUME NEW there, NEW from, NEW stored, NEW to \in DestinationFor(there, "repeat", from, stored)
    PROVE  to = from
BY DEF DestinationFor, Proposed

-----------------------------------------------------------------------------
(***************************************************************************)
(* Types.                                                                  *)
(***************************************************************************)
LEMMA EnrolledRow ==
    ASSUME TypeOK, NEW s \in Students, NEW x \in Sessions, Enrolled(s, x)
    PROVE  row[s][x] \in Row
BY DEF TypeOK, Enrolled

LEMMA NewRowType == ASSUME NEW id \in Nat \ {0}, NEW c \in Classes PROVE NewRow(id, c) \in Row
BY DEF NewRow, Row

LEMMA DecisionType ==
    ASSUME TypeOK, NEW b \in DOMAIN batches, NEW s \in Decided(b)
    PROVE  batches[b].decision[s] \in Decision
<1>1. batches[b] \in Batch
  BY DEF TypeOK
<1>2. batches[b].decision[s] \in Decision \union {NoDecision} /\ batches[b].decision[s] # NoDecision
  BY <1>1 DEF Batch, Decided
<1>. QED
  BY <1>2

LEMMA NewDecisionType ==
    ASSUME TypeOK, NEW from \in Sessions, NEW level \in 1..TopLevel,
           NEW s \in Roster(from, level), NEW to \in Classes \union {NoClass}
    PROVE  /\ NewDecision(s, from, level, to) \in Decision
           /\ NewDecision(s, from, level, to) # NoDecision
<1>1. s \in Students /\ row[s][from] \in Row
  BY EnrolledRow DEF Roster, ActiveIn
<1>2. rules[level] \in Rules /\ year[s][from] \in Year /\ year[s][from] \in Years
  BY <1>1, RulesAssumption, YearsAssumption DEF TypeOK
<1>3. Judge(rules[level], year[s][from], level) \in Outcomes \union {"unresolved"}
  BY <1>2, JudgeType
<1>4. NewDecision(s, from, level, to) \in Decision
  BY <1>1, <1>2, <1>3 DEF NewDecision, Decision, Row
<1>5. NewDecision(s, from, level, to).final # "none"
  BY <1>3 DEF NewDecision, Outcomes
<1>. QED
  BY <1>4, <1>5 DEF NoDecision

LEMMA NewBatchType ==
    ASSUME TypeOK, NEW from \in Sessions, NEW to \in Sessions, NEW level \in 1..TopLevel,
           NEW destination \in [Roster(from, level) -> Classes \union {NoClass}]
    PROVE  NewBatch(from, to, level, destination) \in Batch
<1>1. \A s \in Roster(from, level) :
         NewDecision(s, from, level, destination[s]) \in Decision
  BY NewDecisionType
<1>2. rules[level] \in RuleSets
  BY DEF TypeOK
<1>. QED
  BY <1>1, <1>2 DEF NewBatch, Batch

\* The batches after an override.
LEMMA OverrideType ==
    ASSUME TypeOK, NEW b \in DOMAIN batches, NEW who \in SUBSET Students,
           NEW outcome \in Outcomes, Override(b, who, outcome)
    PROVE  /\ batches' \in Seq(Batch)
           /\ DOMAIN batches' = DOMAIN batches
           /\ \A c \in DOMAIN batches : c # b => batches'[c] = batches[c]
           /\ batches'[b] = [batches[b] EXCEPT !.decision = batches'[b].decision]
           /\ \A s \in Students : s \notin who =>
                 batches'[b].decision[s] = batches[b].decision[s]
           /\ \A s \in who : \E to \in Classes \union {NoClass} :
                 batches'[b].decision[s] = Overridden(batches[b].decision[s], outcome, to)
           /\ who \subseteq Decided(b)
<1>1. PICK destination \in [who -> Classes \union {NoClass}] :
         batches' = [batches EXCEPT ![b].decision = [s \in Students |->
                IF s \in who THEN Overridden(@[s], outcome, destination[s]) ELSE @[s]]]
  BY DEF Override
<1>2. who \subseteq Decided(b) /\ batches \in Seq(Batch) /\ batches[b] \in Batch
  BY DEF Override, TypeOK
<1>3. \A s \in who : Overridden(batches[b].decision[s], outcome, destination[s]) \in Decision
  BY <1>2, DecisionType DEF Overridden, Decision
<1>4. [batches[b] EXCEPT !.decision = [s \in Students |->
          IF s \in who THEN Overridden(batches[b].decision[s], outcome, destination[s])
          ELSE batches[b].decision[s]]] \in Batch
  BY <1>2, <1>3 DEF Batch
<1>5. batches' = [batches EXCEPT ![b] = [batches[b] EXCEPT !.decision = [s \in Students |->
          IF s \in who THEN Overridden(batches[b].decision[s], outcome, destination[s])
          ELSE batches[b].decision[s]]]]
  BY <1>1, <1>2 DEF Batch
<1>6. /\ batches' \in Seq(Batch)
      /\ DOMAIN batches' = DOMAIN batches
      /\ \A c \in DOMAIN batches : c # b => batches'[c] = batches[c]
  BY <1>2, <1>4, <1>5, ExceptSeq
<1>7. batches'[b].decision = [s \in Students |->
          IF s \in who THEN Overridden(batches[b].decision[s], outcome, destination[s])
          ELSE batches[b].decision[s]]
  BY <1>2, <1>5 DEF Batch
<1>8. batches'[b] = [batches[b] EXCEPT !.decision = batches'[b].decision]
  BY <1>5, <1>7
<1>. QED
  BY <1>2, <1>6, <1>7, <1>8

\* The batches after a change of status.
LEMMA StatusType ==
    ASSUME TypeOK, NEW b \in DOMAIN batches, NEW after \in {"committed", "reversed"},
           batches' = [batches EXCEPT ![b].status = after]
    PROVE  /\ batches' \in Seq(Batch)
           /\ DOMAIN batches' = DOMAIN batches
           /\ \A c \in DOMAIN batches : c # b => batches'[c] = batches[c]
           /\ batches'[b] = [batches[b] EXCEPT !.status = after]
<1>1. batches \in Seq(Batch) /\ batches[b] \in Batch
  BY DEF TypeOK
<1>2. [batches[b] EXCEPT !.status = after] \in Batch
  BY <1>1 DEF Batch
<1>3. batches' = [batches EXCEPT ![b] = [batches[b] EXCEPT !.status = after]]
  OBVIOUS
<1>. QED
  BY <1>1, <1>2, <1>3, ExceptSeq

\* The batches after a proposal.
LEMMA ProposeType ==
    ASSUME TypeOK, NEW from \in Sessions, NEW to \in Sessions, NEW level \in 1..TopLevel,
           Propose(from, to, level)
    PROVE  \E destination \in [Roster(from, level) -> Classes \union {NoClass}] :
              /\ batches' \in Seq(Batch)
              /\ DOMAIN batches' = DOMAIN batches \union {Len(batches) + 1}
              /\ \A b \in DOMAIN batches : batches'[b] = batches[b] /\ b # Len(batches) + 1
              /\ batches'[Len(batches) + 1] = NewBatch(from, to, level, destination)
<1>1. PICK destination \in [Roster(from, level) -> Classes \union {NoClass}] :
         batches' = Append(batches, NewBatch(from, to, level, destination))
  BY DEF Propose
<1>2. batches \in Seq(Batch) /\ NewBatch(from, to, level, destination) \in Batch
  BY NewBatchType DEF TypeOK
<1>. QED
  BY <1>1, <1>2

\* Whoever a commit enrols has a class to go to.
LEMMA CommitDestination ==
    ASSUME TypeOK, RepeatersStay, NEW b \in DOMAIN batches, Committable(b),
           NEW s \in Final(b, {"promote", "trial", "repeat"})
    PROVE  batches[b].decision[s].to \in Classes
<1>1. s \in Decided(b) /\ batches[b].decision[s] \in Decision
  BY DecisionType DEF Final
<1>2. CASE s \in Final(b, {"promote", "trial"})
  BY <1>1, <1>2 DEF Committable, Decision
<1>3. CASE batches[b].decision[s].final = "repeat"
  BY <1>1, <1>3 DEF RepeatersStay, Decision
<1>. QED
  BY <1>2, <1>3 DEF Final

LEMMA InitTyped == Init => TypeOK
<1> SUFFICES ASSUME Init PROVE TypeOK
  OBVIOUS
<1>1. PICK class \in [Students -> Classes \union {NoClass}] :
         /\ row = [s \in Students |-> [x \in Sessions |->
                      IF x = current /\ class[s] # NoClass THEN NewRow(1, class[s]) ELSE NoRow]]
         /\ lastId = [s \in Students |-> IF class[s] = NoClass THEN 0 ELSE 1]
  BY DEF Init
<1>2. \A s \in Students : class[s] # NoClass => NewRow(1, class[s]) \in Row
  BY NewRowType
<1>3. row \in [Students -> [Sessions -> Row \union {NoRow}]] /\ lastId \in [Students -> Nat]
  BY <1>1, <1>2
<1>4. year \in [Students -> [Sessions -> Years]]
  BY YearsAssumption DEF Init
<1>5. rules \in [1..TopLevel -> RuleSets]
  BY RulesAssumption DEF Init
<1>. QED
  BY <1>3, <1>4, <1>5 DEF Init, TypeOK

LEMMA TypeStep == TypeOK /\ RepeatersStay /\ [Next]_vars => TypeOK'
<1> SUFFICES ASSUME TypeOK, RepeatersStay, [Next]_vars PROVE TypeOK'
  OBVIOUS
<1>0. ASSUME NEW s \in Students, NEW x \in Sessions, NEW c \in Classes, Insert(s, x, c)
      PROVE  /\ row' \in [Students -> [Sessions -> Row \union {NoRow}]]
             /\ lastId' \in [Students -> Nat]
  <2>1. lastId[s] + 1 \in Nat \ {0}
    BY DEF TypeOK
  <2>2. NewRow(lastId[s] + 1, c) \in Row
    BY <2>1, NewRowType
  <2>. QED
    BY <1>0, <2>2 DEF Insert, TypeOK
<1>a. ASSUME NEW s \in Students, NEW x \in Sessions, NEW c \in Classes, Enrolled(s, x),
             row' = [row EXCEPT ![s][x].class = c]
      PROVE  row' \in [Students -> [Sessions -> Row \union {NoRow}]]
  <2>1. row[s][x] \in Row
    BY <1>a, EnrolledRow
  <2>2. [row[s][x] EXCEPT !.class = c] \in Row
    BY <2>1 DEF Row
  <2>3. row' = [row EXCEPT ![s] = [row[s] EXCEPT ![x] = [row[s][x] EXCEPT !.class = c]]]
    BY <1>a DEF TypeOK
  <2>. QED
    BY <2>2, <2>3 DEF TypeOK
<1>1. ASSUME NEW s \in Students, NEW c \in Classes, Place(s, c) PROVE TypeOK'
  <2>1. current \in Sessions
    BY DEF TypeOK
  <2>2. /\ row' \in [Students -> [Sessions -> Row \union {NoRow}]]
        /\ lastId' \in [Students -> Nat]
    <3>1. CASE Enrolled(s, current)
      <4>1. row' = [row EXCEPT ![s][current].class = c] /\ lastId' = lastId
        BY <1>1, <3>1 DEF Place
      <4>. QED
        BY <1>a, <2>1, <3>1, <4>1 DEF TypeOK
    <3>2. CASE ~Enrolled(s, current)
      <4>1. Insert(s, current, c)
        BY <1>1, <3>2 DEF Place
      <4>. QED
        BY <1>0, <2>1, <4>1
    <3>. QED
      BY <3>1, <3>2
  <2>. QED
    BY <1>1, <2>2 DEF Place, Change, TypeOK
<1>2. ASSUME NEW s \in Students, NEW c \in Classes, NEW outcome \in Outcomes,
             Move(s, c, outcome)
      PROVE TypeOK'
  <2>1. current \in Sessions
    BY DEF TypeOK
  <2>2. /\ row' \in [Students -> [Sessions -> Row \union {NoRow}]]
        /\ lastId' \in [Students -> Nat]
    <3>1. CASE /\ \E x \in Sessions : /\ Latest(s, x)
                                      /\ row' = [row EXCEPT ![s][x].class = c]
               /\ UNCHANGED lastId
      <4>1. PICK x \in Sessions : Latest(s, x) /\ row' = [row EXCEPT ![s][x].class = c]
        BY <3>1
      <4>2. Enrolled(s, x)
        BY <4>1 DEF Latest, ActiveIn
      <4>. QED
        BY <1>a, <3>1, <4>1, <4>2 DEF TypeOK
    <3>2. CASE Insert(s, current, c)
      BY <1>0, <2>1, <3>2
    <3>. QED
      BY <1>2, <3>1, <3>2 DEF Move
  <2>3. standing' \in [Students -> {"active", "withdrawn", "graduated"}]
    BY <1>2 DEF Move, TypeOK
  <2>. QED
    BY <1>2, <2>2, <2>3 DEF Move, Change, TypeOK
<1>3. ASSUME NEW s \in Students, NEW to \in {"active", "withdrawn"}, SetStanding(s, to)
      PROVE TypeOK'
  <2>1. \A x \in ActiveIn(s) : [row[s][x] EXCEPT !.active = FALSE] \in Row
    BY EnrolledRow DEF ActiveIn, Row
  <2>2. row' \in [Students -> [Sessions -> Row \union {NoRow}]]
    BY <1>3, <2>1 DEF SetStanding, TypeOK
  <2>. QED
    BY <1>3, <2>2 DEF SetStanding, Change, TypeOK
<1>4. ASSUME NEW c \in Classes, RemoveClass(c) PROVE TypeOK'
  BY <1>4 DEF RemoveClass, Change, TypeOK
<1>5. ASSUME NEW c \in Classes, ReviveClass(c) PROVE TypeOK'
  BY <1>5 DEF ReviveClass, Change, TypeOK
<1>6. ASSUME NEW x \in Sessions, SetCurrent(x) PROVE TypeOK'
  BY <1>6 DEF SetCurrent, Change, TypeOK
<1>7. ASSUME NEW s \in Students, NEW x \in Sessions, NEW y \in Years, Publish(s, x, y)
      PROVE TypeOK'
  BY <1>7 DEF Publish, Change, TypeOK
<1>8. ASSUME NEW level \in 1..TopLevel, NEW r \in RuleSets, SaveRules(level, r)
      PROVE TypeOK'
  BY <1>8 DEF SaveRules, Change, TypeOK
<1>9. ASSUME NEW from \in Sessions, NEW to \in Sessions, NEW level \in 1..TopLevel,
             Propose(from, to, level)
      PROVE TypeOK'
  <2>1. batches' \in Seq(Batch)
    BY <1>9, ProposeType
  <2>. QED
    BY <1>9, <2>1 DEF Propose, TypeOK
<1>10. ASSUME NEW b \in DOMAIN batches, NEW who \in SUBSET Students, NEW outcome \in Outcomes,
              Override(b, who, outcome)
       PROVE TypeOK'
  <2>1. batches' \in Seq(Batch)
    BY <1>10, OverrideType
  <2>. QED
    BY <1>10, <2>1 DEF Override, Change, TypeOK
<1>11. ASSUME NEW b \in DOMAIN batches, Commit(b) PROVE TypeOK'
  <2>1. batches' \in Seq(Batch) /\ batches[b] \in Batch /\ b \in Nat
    <3>1. batches' = [batches EXCEPT ![b].status = "committed"]
      BY <1>11 DEF Commit
    <3>2. batches[b] \in Batch /\ b \in Nat
      BY DEF TypeOK
    <3>. QED
      BY <3>1, <3>2, StatusType
  <2>2. \A s \in Final(b, {"promote", "trial", "repeat"}) : Written(b, s) \in Row
    <3> SUFFICES ASSUME NEW s \in Final(b, {"promote", "trial", "repeat"})
                 PROVE  Written(b, s) \in Row
      OBVIOUS
    <3>1. s \in Students /\ batches[b].to \in Sessions
      BY <2>1 DEF Final, Decided, Batch
    <3>2. batches[b].decision[s].to \in Classes
      BY <1>11, CommitDestination DEF Commit
    <3>3. lastId[s] + 1 \in Nat \ {0}
      BY <3>1 DEF TypeOK
    <3>4. Enrolled(s, batches[b].to) => row[s][batches[b].to].id \in Nat \ {0}
      BY <3>1, EnrolledRow DEF Row
    <3>. QED
      BY <2>1, <3>2, <3>3, <3>4 DEF Written, Row
  <2>3. /\ row' \in [Students -> [Sessions -> Row \union {NoRow}]]
        /\ lastId' \in [Students -> Nat]
    BY <1>11, <2>1, <2>2 DEF Commit, Enrol, TypeOK, Batch
  <2>4. standing' \in [Students -> {"active", "withdrawn", "graduated"}]
    BY <1>11 DEF Commit, TypeOK
  <2>5. UNCHANGED <<active, current, rules, year, changes>>
    BY <1>11 DEF Commit
  <2>. QED
    BY <2>1, <2>3, <2>4, <2>5 DEF TypeOK
<1>12. ASSUME NEW b \in DOMAIN batches, Reverse(b) PROVE TypeOK'
  <2>1. batches' \in Seq(Batch) /\ batches[b] \in Batch
    <3>1. batches' = [batches EXCEPT ![b].status = "reversed"]
      BY <1>12 DEF Reverse
    <3>2. batches[b] \in Batch
      BY DEF TypeOK
    <3>. QED
      BY <3>1, <3>2, StatusType
  <2>2. row' \in [Students -> [Sessions -> Row \union {NoRow}]]
    BY <1>12, <2>1 DEF Reverse, TypeOK, Batch
  <2>. QED
    BY <1>12, <2>1, <2>2 DEF Reverse, TypeOK
<1>13. CASE UNCHANGED vars
  BY <1>13 DEF vars, TypeOK
<1>. QED
  BY <1>1, <1>2, <1>3, <1>4, <1>5, <1>6, <1>7, <1>8, <1>9, <1>10, <1>11, <1>12, <1>13 DEF Next

-----------------------------------------------------------------------------
(***************************************************************************)
(* Decisions.                                                              *)
(***************************************************************************)

\* The steps that leave the batches alone.
LEMMA OtherSteps ==
    ASSUME [Next]_vars,
           ~(\E from \in Sessions, to \in Sessions, level \in 1..TopLevel :
                Propose(from, to, level)),
           ~(\E b \in DOMAIN batches, who \in SUBSET Students, outcome \in Outcomes :
                Override(b, who, outcome)),
           ~(\E b \in DOMAIN batches : Commit(b)),
           ~(\E b \in DOMAIN batches : Reverse(b))
    PROVE  batches' = batches
BY DEF Next, vars, Place, Move, SetStanding, RemoveClass, ReviveClass, SetCurrent,
       Publish, SaveRules

\* What the invariants below have in common: each decision is about itself.
DecisionOK(batch, s) ==
    LET d == batch.decision[s] IN
    /\ d.final = "repeat" => d.to = d.from
    /\ d.proposed = Judge(batch.rules, d.year, batch.level)
    /\ d.final # d.proposed => d.overridden

BatchOK(batch) ==
    /\ batch.from # batch.to
    /\ \A s \in Students : batch.decision[s] # NoDecision => DecisionOK(batch, s)

BatchesOK == \A b \in DOMAIN batches : BatchOK(batches[b])

LEMMA BatchesMean == BatchesOK => RepeatersStay /\ Explainable
BY DEF BatchesOK, BatchOK, DecisionOK, RepeatersStay, Explainable, Decided

LEMMA NoBatchYet == Init => BatchesOK
<1>1. Init => DOMAIN batches = {}
  BY DEF Init
<1>. QED
  BY <1>1 DEF BatchesOK

LEMMA NewBatchOK ==
    ASSUME TypeOK, NEW from \in Sessions, NEW to \in Sessions, NEW level \in 1..TopLevel,
           NEW destination \in [Roster(from, level) -> Classes \union {NoClass}],
           from # to,
           \A s \in Roster(from, level) : Evaluated(s, from, level, destination[s])
    PROVE  BatchOK(NewBatch(from, to, level, destination))
<1> DEFINE batch == NewBatch(from, to, level, destination)
<1>1. ASSUME NEW s \in Students, batch.decision[s] # NoDecision
      PROVE  DecisionOK(batch, s)
  <2>1. s \in Roster(from, level)
    BY <1>1 DEF NewBatch
  <2>2. batch.decision[s] = NewDecision(s, from, level, destination[s])
    BY <2>1 DEF NewBatch
  <2>3. Judge(rules[level], year[s][from], level) = "repeat"
           => destination[s] = row[s][from].class
    BY <2>1 DEF Evaluated, Proposed
  <2>4. batch.rules = rules[level] /\ batch.level = level
    BY DEF NewBatch
  <2>. QED
    BY <2>2, <2>3, <2>4 DEF DecisionOK, NewDecision
<1>2. batch.from # batch.to
  BY DEF NewBatch
<1>. QED
  BY <1>1, <1>2 DEF BatchOK

LEMMA BatchesStep == TypeOK /\ BatchesOK /\ [Next]_vars => BatchesOK'
<1> SUFFICES ASSUME TypeOK, BatchesOK, [Next]_vars PROVE BatchesOK'
  OBVIOUS
<1>1. ASSUME NEW from \in Sessions, NEW to \in Sessions, NEW level \in 1..TopLevel,
             Propose(from, to, level)
      PROVE  BatchesOK'
  <2>1. PICK destination \in [Roster(from, level) -> Classes \union {NoClass}] :
           /\ \A s \in Roster(from, level) : Evaluated(s, from, level, destination[s])
           /\ batches' = Append(batches, NewBatch(from, to, level, destination))
    BY <1>1 DEF Propose
  <2>2. batches \in Seq(Batch) /\ NewBatch(from, to, level, destination) \in Batch
    BY NewBatchType DEF TypeOK
  <2>3. \A b \in DOMAIN batches' :
           batches'[b] = NewBatch(from, to, level, destination)
              \/ (b \in DOMAIN batches /\ batches'[b] = batches[b])
    BY <2>1, <2>2
  <2>4. BatchOK(NewBatch(from, to, level, destination))
    BY <1>1, <2>1, NewBatchOK DEF Propose
  <2>. QED
    BY <2>3, <2>4 DEF BatchesOK
<1>2. ASSUME NEW b \in DOMAIN batches, NEW who \in SUBSET Students, NEW outcome \in Outcomes,
             Override(b, who, outcome)
      PROVE  BatchesOK'
  <2>1. PICK destination \in [who -> Classes \union {NoClass}] :
           /\ \A s \in who : destination[s] \in DestinationFor(active, outcome,
                                batches[b].decision[s].from, batches[b].decision[s].to)
           /\ batches' = [batches EXCEPT ![b].decision = [s \in Students |->
                 IF s \in who THEN Overridden(@[s], outcome, destination[s]) ELSE @[s]]]
    BY <1>2 DEF Override
  <2>2. batches \in Seq(Batch) /\ batches[b] \in Batch /\ who \subseteq Decided(b)
    BY <1>2 DEF TypeOK, Override
  <2>3. /\ DOMAIN batches' = DOMAIN batches
        /\ \A c \in DOMAIN batches : c # b => batches'[c] = batches[c]
        /\ batches'[b] = [batches[b] EXCEPT !.decision = batches'[b].decision]
    BY <1>2, OverrideType
  <2>4. \A s \in Students : batches'[b].decision[s] =
           IF s \in who THEN Overridden(batches[b].decision[s], outcome, destination[s])
           ELSE batches[b].decision[s]
    BY <2>1, <2>2 DEF Batch
  <2>5. /\ batches'[b].rules = batches[b].rules /\ batches'[b].level = batches[b].level
        /\ batches'[b].from = batches[b].from /\ batches'[b].to = batches[b].to
    BY <2>2, <2>3 DEF Batch
  <2>6. ASSUME NEW s \in Students, batches'[b].decision[s] # NoDecision
        PROVE  DecisionOK(batches'[b], s)
    <3>1. CASE s \in who
      <4>1. batches[b].decision[s] \in Decision /\ DecisionOK(batches[b], s)
        BY <2>2, <3>1, DecisionType DEF BatchesOK, BatchOK, Decided
      <4>2. outcome = "repeat" => destination[s] = batches[b].decision[s].from
        BY <2>1, <3>1, RepeaterStays
      <4>. QED
        BY <2>4, <2>5, <3>1, <4>1, <4>2 DEF DecisionOK, Overridden, Decision
    <3>2. CASE s \notin who
      BY <2>4, <2>5, <2>6, <3>2 DEF BatchesOK, BatchOK, DecisionOK
    <3>. QED
      BY <3>1, <3>2
  <2>7. BatchOK(batches'[b])
    BY <2>5, <2>6 DEF BatchesOK, BatchOK
  <2>. QED
    BY <2>3, <2>7 DEF BatchesOK
<1>3. ASSUME NEW b \in DOMAIN batches, NEW after \in {"committed", "reversed"},
             batches' = [batches EXCEPT ![b].status = after]
      PROVE  BatchesOK'
  <2>1. /\ DOMAIN batches' = DOMAIN batches
        /\ \A c \in DOMAIN batches : c # b => batches'[c] = batches[c]
        /\ batches'[b] = [batches[b] EXCEPT !.status = after]
        /\ batches[b] \in Batch
    BY <1>3, StatusType DEF TypeOK
  <2>2. BatchOK(batches'[b])
    BY <2>1 DEF BatchesOK, BatchOK, DecisionOK, Batch
  <2>. QED
    BY <2>1, <2>2 DEF BatchesOK
<1>4. CASE batches' = batches
  BY <1>4 DEF BatchesOK
<1>. QED
  BY <1>1, <1>2, <1>3, <1>4, OtherSteps DEF Commit, Reverse

(***************************************************************************)
(* Types hold in every reachable state, in particular every row names a    *)
(* class: that needs the decisions to be in order, since the commit looks  *)
(* for the class of a promoted student only.                               *)
(***************************************************************************)
THEOREM TypeCorrect == Spec => []TypeOK
<1>1. Init => TypeOK /\ BatchesOK
  BY InitTyped, NoBatchYet
<1>2. TypeOK /\ BatchesOK /\ [Next]_vars => (TypeOK /\ BatchesOK)'
  BY TypeStep, BatchesStep, BatchesMean
<1>. QED
  BY <1>1, <1>2, PTL DEF Spec

LEMMA AlwaysInOrder == Spec => []BatchesOK
<1>1. Init => TypeOK /\ BatchesOK
  BY InitTyped, NoBatchYet
<1>2. TypeOK /\ BatchesOK /\ [Next]_vars => (TypeOK /\ BatchesOK)'
  BY TypeStep, BatchesStep, BatchesMean
<1>. QED
  BY <1>1, <1>2, PTL DEF Spec

\* Every decision stays explainable by what is kept with it (Explainable).
THEOREM AlwaysExplainable == Spec => []Explainable
BY AlwaysInOrder, BatchesMean, PTL

\* A repeater keeps his class, however often he is overridden (RepeatersStay).
THEOREM RepeatersAlwaysStay == Spec => []RepeatersStay
BY AlwaysInOrder, BatchesMean, PTL

-----------------------------------------------------------------------------
(***************************************************************************)
(* Batches.                                                                *)
(***************************************************************************)

\* What a step may do to a batch.
SameBatch(b) == batches'[b] = batches[b]
SameScope(b) ==
    /\ batches'[b].from = batches[b].from
    /\ batches'[b].to = batches[b].to
    /\ batches'[b].level = batches[b].level
Committed(b) ==
    /\ batches[b].status = "proposed" /\ batches'[b].status = "committed"
    /\ batches'[b].decision = batches[b].decision
    /\ Commit(b)
Reversed(b) ==
    /\ batches[b].status = "committed" /\ batches'[b].status = "reversed"
    /\ batches'[b].decision = batches[b].decision
    /\ Reverse(b)
Reviewed(b) == batches[b].status = "proposed" /\ batches'[b].status = "proposed"

LEMMA BatchSteps ==
    ASSUME TypeOK, [Next]_vars, NEW b \in DOMAIN batches
    PROVE  /\ b \in DOMAIN batches'
           /\ SameScope(b)
           /\ SameBatch(b) \/ Committed(b) \/ Reversed(b) \/ Reviewed(b)
<1>0. batches[b] \in Batch
  BY DEF TypeOK
<1>1. ASSUME NEW from \in Sessions, NEW to \in Sessions, NEW level \in 1..TopLevel,
             Propose(from, to, level)
      PROVE  b \in DOMAIN batches' /\ SameBatch(b)
  BY <1>1, ProposeType DEF SameBatch
<1>2. ASSUME NEW c \in DOMAIN batches, NEW who \in SUBSET Students, NEW outcome \in Outcomes,
             Override(c, who, outcome)
      PROVE  /\ b \in DOMAIN batches'
             /\ SameBatch(b) \/ (SameScope(b) /\ Reviewed(b))
  <2>1. batches[c].status = "proposed"
    BY <1>2 DEF Override
  <2>2. b \in DOMAIN batches' /\ (b # c => SameBatch(b))
    BY <1>2, OverrideType DEF SameBatch
  <2>3. batches'[c] = [batches[c] EXCEPT !.decision = batches'[c].decision]
    BY <1>2, OverrideType
  <2>4. CASE b = c
    BY <1>0, <2>1, <2>2, <2>3, <2>4 DEF SameScope, Reviewed, Batch
  <2>. QED
    BY <2>2, <2>4
<1>3. ASSUME NEW c \in DOMAIN batches, Commit(c)
      PROVE  /\ b \in DOMAIN batches'
             /\ SameBatch(b) \/ (SameScope(b) /\ Committed(b))
  <2>1. batches' = [batches EXCEPT ![c].status = "committed"] /\ batches[c].status = "proposed"
    BY <1>3 DEF Commit, Committable
  <2>2. b \in DOMAIN batches' /\ (b # c => SameBatch(b))
    BY <2>1, StatusType DEF SameBatch
  <2>3. batches'[c] = [batches[c] EXCEPT !.status = "committed"]
    BY <2>1, StatusType
  <2>4. CASE b = c
    BY <1>0, <1>3, <2>1, <2>2, <2>3, <2>4 DEF SameScope, Committed, Batch
  <2>. QED
    BY <2>2, <2>4
<1>4. ASSUME NEW c \in DOMAIN batches, Reverse(c)
      PROVE  /\ b \in DOMAIN batches'
             /\ SameBatch(b) \/ (SameScope(b) /\ Reversed(b))
  <2>1. batches' = [batches EXCEPT ![c].status = "reversed"] /\ batches[c].status = "committed"
    BY <1>4 DEF Reverse
  <2>2. b \in DOMAIN batches' /\ (b # c => SameBatch(b))
    BY <2>1, StatusType DEF SameBatch
  <2>3. batches'[c] = [batches[c] EXCEPT !.status = "reversed"]
    BY <2>1, StatusType
  <2>4. CASE b = c
    BY <1>0, <1>4, <2>1, <2>2, <2>3, <2>4 DEF SameScope, Reversed, Batch
  <2>. QED
    BY <2>2, <2>4
<1>5. CASE batches' = batches
  BY <1>5 DEF SameBatch, SameScope
<1>6. SameBatch(b) => SameScope(b)
  BY DEF SameBatch, SameScope
<1>. QED
  BY <1>1, <1>2, <1>3, <1>4, <1>5, <1>6, OtherSteps

(***************************************************************************)
(* At most one proposal is open for a level and a session (the check of    *)
(* proposePromotion, transactions being serial).                           *)
(***************************************************************************)
THEOREM OneProposalAtATime == Spec => []OneProposal
<1>1. Init => OneProposal
  <2>1. Init => DOMAIN batches = {}
    BY DEF Init
  <2>. QED
    BY <2>1 DEF OneProposal
<1>2. TypeOK /\ OneProposal /\ [Next]_vars => OneProposal'
  <2> SUFFICES ASSUME TypeOK, OneProposal, [Next]_vars PROVE OneProposal'
    OBVIOUS
  <2>1. \A b \in DOMAIN batches :
           /\ batches'[b].from = batches[b].from /\ batches'[b].level = batches[b].level
           /\ batches'[b].status = "proposed" => batches[b].status = "proposed"
    <3> SUFFICES ASSUME NEW b \in DOMAIN batches
                 PROVE  /\ batches'[b].from = batches[b].from
                        /\ batches'[b].level = batches[b].level
                        /\ batches'[b].status = "proposed" => batches[b].status = "proposed"
      OBVIOUS
    <3>. QED
      BY BatchSteps DEF SameBatch, SameScope, Committed, Reversed, Reviewed
  <2>2. CASE DOMAIN batches' = DOMAIN batches
    BY <2>1, <2>2 DEF OneProposal
  <2>3. ASSUME NEW from \in Sessions, NEW to \in Sessions, NEW level \in 1..TopLevel,
               Propose(from, to, level)
        PROVE  OneProposal'
    <3>1. PICK destination \in [Roster(from, level) -> Classes \union {NoClass}] :
             /\ DOMAIN batches' = DOMAIN batches \union {Len(batches) + 1}
             /\ batches'[Len(batches) + 1] = NewBatch(from, to, level, destination)
      BY <2>3, ProposeType
    <3>2. \A b \in DOMAIN batches : ~(/\ batches[b].from = from /\ batches[b].level = level
                                      /\ batches[b].status = "proposed")
      BY <2>3 DEF Propose, OpenProposal
    <3>3. batches'[Len(batches) + 1].from = from /\ batches'[Len(batches) + 1].level = level
      BY <3>1 DEF NewBatch
    <3>. QED
      BY <2>1, <3>1, <3>2, <3>3 DEF OneProposal
  <2>4. CASE ~(\E from \in Sessions, to \in Sessions, level \in 1..TopLevel :
                  Propose(from, to, level))
    <3>1. DOMAIN batches' = DOMAIN batches
      <4>1. ASSUME NEW b \in DOMAIN batches, NEW who \in SUBSET Students,
                   NEW outcome \in Outcomes, Override(b, who, outcome)
            PROVE  DOMAIN batches' = DOMAIN batches
        BY <4>1, OverrideType
      <4>2. ASSUME NEW b \in DOMAIN batches, Commit(b) PROVE DOMAIN batches' = DOMAIN batches
        <5>1. batches' = [batches EXCEPT ![b].status = "committed"]
          BY <4>2 DEF Commit
        <5>. QED
          BY <5>1, StatusType
      <4>3. ASSUME NEW b \in DOMAIN batches, Reverse(b) PROVE DOMAIN batches' = DOMAIN batches
        <5>1. batches' = [batches EXCEPT ![b].status = "reversed"]
          BY <4>3 DEF Reverse
        <5>. QED
          BY <5>1, StatusType
      <4>. QED
        BY <2>4, <4>1, <4>2, <4>3, OtherSteps
    <3>. QED
      BY <2>2, <3>1
  <2>. QED
    BY <2>3, <2>4
<1>. QED
  BY <1>1, <1>2, TypeCorrect, PTL DEF Spec

(***************************************************************************)
(* What is decided stays on file (overridePromotion, commitPromotion and   *)
(* reversePromotion look at the status of the batch).                      *)
(***************************************************************************)
THEOREM DecidedFrozen == Spec => DecidedIsFrozen
<1>1. TypeOK /\ [Next]_vars =>
         \A b \in DOMAIN batches : batches[b].status # "proposed" =>
            /\ batches'[b].decision = batches[b].decision
            /\ batches'[b].status # batches[b].status =>
                  batches[b].status = "committed" /\ batches'[b].status = "reversed"
  <2> SUFFICES ASSUME TypeOK, [Next]_vars, NEW b \in DOMAIN batches,
                      batches[b].status # "proposed"
               PROVE  /\ batches'[b].decision = batches[b].decision
                      /\ batches'[b].status # batches[b].status =>
                            /\ batches[b].status = "committed"
                            /\ batches'[b].status = "reversed"
    OBVIOUS
  <2>. QED
    BY BatchSteps DEF SameBatch, Committed, Reversed, Reviewed
<1>. QED
  BY <1>1, TypeCorrect, PTL DEF Spec, DecidedIsFrozen

(***************************************************************************)
(* Promotion never overwrites history: for any number of batches and       *)
(* sessions, neither commit nor reversal touches a row of the session the  *)
(* batch promotes from.                                                    *)
(***************************************************************************)
THEOREM HistoryKept == Spec => HistoryIsKept
<1>1. TypeOK /\ BatchesOK /\ [Next]_vars =>
         \A b \in DOMAIN batches : batches'[b].status # batches[b].status =>
            \A s \in Students : row'[s][batches[b].from] = row[s][batches[b].from]
  <2> SUFFICES ASSUME TypeOK, BatchesOK, [Next]_vars, NEW b \in DOMAIN batches,
                      batches'[b].status # batches[b].status, NEW s \in Students
               PROVE  row'[s][batches[b].from] = row[s][batches[b].from]
    OBVIOUS
  <2>1. batches[b] \in Batch /\ batches[b].from # batches[b].to
    BY DEF TypeOK, BatchesOK, BatchOK
  <2>2. Commit(b) \/ Reverse(b)
    BY BatchSteps DEF SameBatch, Committed, Reversed, Reviewed
  <2>3. row[s] \in [Sessions -> Row \union {NoRow}]
    BY DEF TypeOK
  <2>4. CASE Commit(b)
    BY <2>1, <2>3, <2>4 DEF Commit, Enrol, Batch
  <2>5. CASE Reverse(b)
    BY <2>1, <2>3, <2>5 DEF Reverse, Batch
  <2>. QED
    BY <2>2, <2>4, <2>5
<1>. QED
  BY <1>1, TypeCorrect, AlwaysInOrder, PTL DEF Spec, HistoryIsKept

(***************************************************************************)
(* Nobody is lost from the roll: the refusals of commitPromotion are       *)
(* enough, for any year group, that the commit leaves each of its students *)
(* graduated or in an actual class of the next session.                    *)
(***************************************************************************)
THEOREM NobodyLost == Spec => NobodyIsLost
<1>1. TypeOK /\ BatchesOK /\ [Next]_vars =>
         \A b \in DOMAIN batches : CommitsNow(b) =>
            \A s \in Decided(b) :
               LET d == batches[b].decision[s] IN
               IF d.final = "graduate" THEN standing'[s] = "graduated"
               ELSE /\ row'[s][batches[b].to] # NoRow
                    /\ row'[s][batches[b].to].active
                    /\ row'[s][batches[b].to].class = d.to
  <2> SUFFICES ASSUME TypeOK, BatchesOK, [Next]_vars, NEW b \in DOMAIN batches,
                      CommitsNow(b), NEW s \in Decided(b)
               PROVE  IF batches[b].decision[s].final = "graduate"
                      THEN standing'[s] = "graduated"
                      ELSE /\ row'[s][batches[b].to] # NoRow
                           /\ row'[s][batches[b].to].active
                           /\ row'[s][batches[b].to].class = batches[b].decision[s].to
    OBVIOUS
  <2>1. batches[b] \in Batch /\ s \in Students /\ batches[b].decision[s] \in Decision
    BY DecisionType DEF TypeOK, Decided
  <2>2. Commit(b)
    BY BatchSteps DEF SameBatch, Committed, Reversed, Reviewed, CommitsNow
  <2>3. CASE batches[b].decision[s].final = "graduate"
    BY <2>1, <2>2, <2>3 DEF Commit, Final
  <2>4. CASE batches[b].decision[s].final # "graduate"
    <3>1. s \in Final(b, {"promote", "trial", "repeat"})
      BY <2>1, <2>2, <2>4 DEF Commit, Committable, Final, Decision, Outcomes
    <3>2. row'[s][batches[b].to] = Written(b, s)
      BY <2>1, <2>2, <3>1 DEF Commit, Enrol, TypeOK, Batch
    <3>3. batches[b].decision[s].to \in Classes
      BY <2>2, <3>1, CommitDestination, BatchesMean DEF Commit
    <3>4. /\ Written(b, s).active
          /\ Written(b, s).class = batches[b].decision[s].to
      BY DEF Written
    <3>5. Written(b, s).id # 0
      <4>1. lastId[s] + 1 # 0
        BY <2>1 DEF TypeOK
      <4>2. Enrolled(s, batches[b].to) => row[s][batches[b].to].id # 0
        BY <2>1, EnrolledRow DEF Row, Batch
      <4>. QED
        BY <4>1, <4>2 DEF Written
    <3>. QED
      BY <2>4, <3>2, <3>4, <3>5 DEF NoRow
  <2>. QED
    BY <2>3, <2>4
<1>. QED
  BY <1>1, TypeCorrect, AlwaysInOrder, PTL DEF Spec, NobodyIsLost

-----------------------------------------------------------------------------
(***************************************************************************)
(* The pupils, for any number of them, of classes and of transactions.     *)
(* What a transaction has checked holds when it writes, as long as no      *)
(* other has committed since; otherwise the pupil it writes is raced.      *)
(***************************************************************************)
\* What a transaction is about, whatever others have done since.
StudentTxnShape(w) ==
    /\ w.op = "none" => w = Closed
    /\ w.op \in {"register", "move", "transfer", "standing", "approve", "subjects", "score"} =>
            w.pupil \in Pupils
    /\ w.op \in {"register", "move", "transfer", "remove"} => w.class \in ClassIds
    /\ w.op = "register" => w.status \in {"active", "pending_approval"}
    /\ w.op = "standing" => w.status \in {"active", "suspended", "withdrawn", "expelled"}

\* What a transaction has checked, as long as no other has committed.
StudentReadHolds(w) ==
    /\ w.op \in {"register", "move"} => w.session = session /\ HasRoom(w.class)
    /\ w.op = "register" => w.class \in open
    /\ w.op = "approve" => status[w.pupil] = "pending_approval"
    /\ w.op = "remove" => \A k \in SessionIds : Seated(k, w.class) = {}
    /\ w.op = "subjects" => w.session = session /\ scored[w.pupil] \subseteq w.subjects
    /\ w.op = "score" => w.session = session /\ w.subjects \subseteq registered[w.pupil]

StudentTxnOK(w) == StudentTxnShape(w) /\ (w.stale \/ StudentReadHolds(w))

StudentsInv ==
    /\ StudentsTypeOK
    /\ \A t \in Slots : StudentTxnOK(txn[t])
    /\ RoomIsKept
    /\ SeatsAreInClasses
    /\ LoginFollowsStanding
    /\ ScoredIsRegistered

-----------------------------------------------------------------------------
(***************************************************************************)
(* Types, and transactions that are opened, set aside or overtaken.        *)
(***************************************************************************)
LEMMA ClosedStudentTxn == Closed \in Txn /\ StudentTxnOK(Closed)
BY BoundAssumption DEF Closed, Txn, Standings, SessionIds, StudentTxnOK, StudentTxnShape, StudentReadHolds

\* Nothing is written when a transaction opens.
LEMMA OpensKeepsStudents ==
  ASSUME StudentsInv, NEW t \in Slots, NEW w \in Txn, Opens(t, w), StudentTxnOK(w)
  PROVE  StudentsInv'
<1>1. /\ UNCHANGED <<status, login, seat, open, capacity, session, registered, scored, promoted,
                     raced, unasked, unchecked, razed, cut, stranded>>
      /\ Starts /\ txn' = [txn EXCEPT ![t] = w]
  BY DEF Opens, studentsHistory
<1>2. StudentsTypeOK'
  BY <1>1, BoundAssumption DEF Starts, StudentsInv, StudentsTypeOK
<1>3. \A u \in Slots : txn'[u] = txn[u] \/ txn'[u] = w
  BY DEF Opens, StudentsInv, StudentsTypeOK
<1>4. ASSUME NEW u \in Slots PROVE StudentTxnOK(txn[u])'
  <2>1. StudentTxnOK(txn'[u])
    BY <1>3 DEF StudentsInv
  <2> QED
    BY <2>1, <1>1 DEF StudentTxnOK, StudentTxnShape, StudentReadHolds, HasRoom, Seated
<1>5. RoomIsKept' /\ SeatsAreInClasses' /\ LoginFollowsStanding' /\ ScoredIsRegistered'
  BY <1>1 DEF StudentsInv, RoomIsKept, SeatsAreInClasses, Seated, LoginFollowsStanding,
     ScoredIsRegistered
<1> QED
  BY <1>2, <1>4, <1>5 DEF StudentsInv

LEMMA RollsBackKeepsStudents ==
  ASSUME StudentsInv, NEW t \in Slots, RollsBack(t)
  PROVE  StudentsInv'
<1>1. UNCHANGED <<status, login, seat, open, capacity, session, registered, scored, promoted,
                  started, raced, unasked, unchecked, razed, cut, stranded>>
  BY DEF RollsBack, studentsHistory
<1>2. StudentsTypeOK'
  BY <1>1, ClosedStudentTxn DEF RollsBack, StudentsInv, StudentsTypeOK
<1>3. \A u \in Slots : txn'[u] = txn[u] \/ txn'[u] = Closed
  BY DEF RollsBack, StudentsInv, StudentsTypeOK
<1>4. ASSUME NEW u \in Slots PROVE StudentTxnOK(txn[u])'
  <2>1. StudentTxnOK(txn'[u])
    BY <1>3, ClosedStudentTxn DEF StudentsInv
  <2> QED
    BY <2>1, <1>1 DEF StudentTxnOK, StudentTxnShape, StudentReadHolds, HasRoom, Seated
<1>5. RoomIsKept' /\ SeatsAreInClasses' /\ LoginFollowsStanding' /\ ScoredIsRegistered'
  BY <1>1 DEF StudentsInv, RoomIsKept, SeatsAreInClasses, Seated, LoginFollowsStanding,
     ScoredIsRegistered
<1> QED
  BY <1>2, <1>4, <1>5 DEF StudentsInv

\* Whatever is written, the other transactions are then out of date.
LEMMA OvertakenStudents ==
  ASSUME StudentsInv,
         txn' = [u \in Slots |-> txn'[u]],
         \A u \in Slots :
            \/ txn'[u] = Closed
            \/ \E found \in {"nothing", "row", "deleted"} :
                 /\ txn'[u] = [txn[u] EXCEPT !.stale = TRUE, !.found = found]
                 /\ txn[u].op # "none"
  PROVE  txn' \in [Slots -> Txn] /\ \A u \in Slots : StudentTxnOK(txn[u])'
<1>1. ASSUME NEW u \in Slots PROVE txn'[u] \in Txn /\ StudentTxnOK(txn[u])'
  <2>1. CASE txn'[u] = Closed
    <3>1. txn'[u] \in Txn /\ txn'[u].op = "none"
      <4>1. txn'[u] \in Txn
        BY <2>1, ClosedStudentTxn
      <4>2. Closed.op = "none"
        BY DEF Closed
      <4>3. txn'[u].op = "none"
        BY <2>1, <4>2, Zenon
      <4> QED
        BY <4>1, <4>3
    <3>2. StudentTxnShape(txn[u])'
      BY <2>1, <3>1 DEF StudentTxnShape
    <3>3. StudentReadHolds(txn[u])'
      BY <3>1 DEF StudentReadHolds
    <3> QED
      BY <3>1, <3>2, <3>3 DEF StudentTxnOK
  <2>2. ASSUME NEW found \in {"nothing", "row", "deleted"},
               txn'[u] = [txn[u] EXCEPT !.stale = TRUE, !.found = found], txn[u].op # "none"
        PROVE  txn'[u] \in Txn /\ StudentTxnOK(txn[u])'
    <3>1. txn[u] \in Txn /\ StudentTxnShape(txn[u])
      BY DEF StudentsInv, StudentsTypeOK, StudentTxnOK
    <3>2. txn'[u] \in Txn /\ txn'[u].stale /\ txn'[u].op = txn[u].op
            /\ txn'[u].pupil = txn[u].pupil /\ txn'[u].class = txn[u].class
            /\ txn'[u].status = txn[u].status
      BY <2>2, <3>1 DEF Txn
    <3>3. StudentTxnShape(txn[u])'
      BY <2>2, <3>1, <3>2 DEF StudentTxnShape
    <3> QED
      BY <3>2, <3>3 DEF StudentTxnOK
  <2> QED
    BY <2>1, <2>2
<1> QED
  BY <1>1

\* What was found is as it was for a transaction that only went out of date.
LEMMA OnlyOvertaken ==
  ASSUME StudentsInv,
         txn' = [u \in Slots |-> txn'[u]],
         \A u \in Slots : \/ txn'[u] = Closed
                          \/ txn'[u] = [txn[u] EXCEPT !.stale = TRUE] /\ txn[u].op # "none"
  PROVE  txn' \in [Slots -> Txn] /\ \A u \in Slots : StudentTxnOK(txn[u])'
<1>1. ASSUME NEW u \in Slots, txn'[u] = [txn[u] EXCEPT !.stale = TRUE], txn[u].op # "none"
      PROVE  \E found \in {"nothing", "row", "deleted"} :
                 /\ txn'[u] = [txn[u] EXCEPT !.stale = TRUE, !.found = found]
                 /\ txn[u].op # "none"
  <2>1. txn[u] \in Txn
    BY DEF StudentsInv, StudentsTypeOK
  <2>2. txn[u].found \in {"nothing", "row", "deleted"}
    BY <2>1 DEF Txn
  <2>3. [txn[u] EXCEPT !.stale = TRUE, !.found = txn[u].found] = [txn[u] EXCEPT !.stale = TRUE]
    BY <2>1 DEF Txn
  <2> QED
    BY <1>1, <2>2, <2>3
<1> QED
  BY <1>1, OvertakenStudents

LEMMA CommitsStudents ==
  ASSUME StudentsInv, NEW t \in Slots, NEW op, Commits(t, op)
  PROVE  /\ txn' \in [Slots -> Txn] /\ \A u \in Slots : StudentTxnOK(txn[u])'
         /\ session' = session /\ session' \in SessionIds /\ started' \in 0..MaxStarted
         /\ UNCHANGED <<capacity, promoted, cut>>
         /\ raced' \subseteq Pupils /\ raced \subseteq raced'
         /\ txn[t] \in Txn /\ StudentTxnOK(txn[t]) /\ txn[t].op = op
         /\ txn[t].stale /\ txn[t].pupil \in Pupils => txn[t].pupil \in raced'
<1>1. txn' \in [Slots -> Txn] /\ \A u \in Slots : StudentTxnOK(txn[u])'
  BY OnlyOvertaken DEF Commits
<1>2. txn[t] \in Txn /\ StudentTxnOK(txn[t]) /\ txn[t].op = op
  BY DEF Commits, StudentsInv, StudentsTypeOK
<1>3. txn[t].pupil # None => txn[t].pupil \in Pupils
  BY <1>2 DEF Txn
<1> QED
  BY <1>1, <1>2, <1>3, StudentsAssumption DEF Commits, StudentsInv, StudentsTypeOK

-----------------------------------------------------------------------------
(***************************************************************************)
(* Room is kept by a step that seats nobody the capacity is asked of, and  *)
(* by one that seats one pupil more where there was room.                  *)
(***************************************************************************)
Uncounted == raced \union unasked

LEMMA LimitIsNat == ASSUME StudentsInv, NEW c \in ClassIds PROVE capacity[c] \in Nat
BY StudentsAssumption DEF StudentsInv, StudentsTypeOK

LEMMA FewerSeated ==
  ASSUME StudentsInv, NEW k \in SessionIds, NEW c \in ClassIds \ cut, capacity[c] > 0,
         NEW S, S \subseteq Seated(k, c) \ Uncounted
  PROVE  Cardinality(S) <= capacity[c]
<1>1. IsFiniteSet(Seated(k, c) \ Uncounted)
  BY FS_Subset, StudentsAssumption DEF Seated
<1>2. IsFiniteSet(S) /\ Cardinality(S) <= Cardinality(Seated(k, c) \ Uncounted)
  BY <1>1, FS_Subset
<1>3. Cardinality(S) \in Nat /\ Cardinality(Seated(k, c) \ Uncounted) \in Nat
  BY <1>1, <1>2, FS_CardinalityType
<1> QED
  BY <1>2, <1>3, LimitIsNat DEF StudentsInv, RoomIsKept, Uncounted

LEMMA OneMoreSeated ==
  ASSUME StudentsInv, NEW c \in ClassIds, capacity[c] > 0, HasRoom(c),
         NEW p \in Pupils, NEW S, S \subseteq Seated(session, c) \union {p}
  PROVE  Cardinality(S) <= capacity[c]
<1> DEFINE there == Seated(session, c)
<1>1. IsFiniteSet(there)
  BY FS_Subset, StudentsAssumption DEF Seated
<1>2. IsFiniteSet(there \union {p}) /\ Cardinality(there \union {p}) <= Cardinality(there) + 1
  <2>1. Cardinality(there) \in Nat
    BY <1>1, FS_CardinalityType
  <2>2. /\ IsFiniteSet(there \union {p})
        /\ \/ Cardinality(there \union {p}) = Cardinality(there)
           \/ Cardinality(there \union {p}) = Cardinality(there) + 1
    <3> HIDE DEF there
    <3> QED
      BY <1>1, FS_AddElement
  <2> QED
    BY <2>1, <2>2
<1>3. IsFiniteSet(S) /\ Cardinality(S) <= Cardinality(there \union {p})
  BY <1>2, FS_Subset
<1>4. Cardinality(S) \in Nat /\ Cardinality(there) \in Nat /\ Cardinality(there \union {p}) \in Nat
  BY <1>1, <1>2, <1>3, FS_CardinalityType
<1>5. Cardinality(there) < capacity[c] /\ capacity[c] \in Nat
  BY LimitIsNat DEF HasRoom
<1> QED
  BY <1>2, <1>3, <1>4, <1>5

LEMMA RoomStep ==
  ASSUME StudentsInv, UNCHANGED <<session, capacity, cut>>, Uncounted \subseteq Uncounted',
         NEW p \in Pupils,
         \A k \in SessionIds, c \in ClassIds :
            \/ Seated(k, c)' \ Uncounted' \subseteq Seated(k, c)
            \/ /\ k = session /\ HasRoom(c)
               /\ Seated(k, c)' \subseteq Seated(k, c) \union {p}
  PROVE  RoomIsKept'
<1> SUFFICES ASSUME NEW k \in SessionIds, NEW c \in ClassIds \ cut, capacity[c] > 0
             PROVE  Cardinality(Seated(k, c)' \ Uncounted') <= capacity[c]
  BY DEF RoomIsKept, Uncounted
<1>1. CASE Seated(k, c)' \ Uncounted' \subseteq Seated(k, c)
  BY <1>1, FewerSeated
<1>2. CASE k = session /\ HasRoom(c) /\ Seated(k, c)' \subseteq Seated(k, c) \union {p}
  BY <1>2, OneMoreSeated
<1> QED
  BY <1>1, <1>2

-----------------------------------------------------------------------------
(***************************************************************************)
(* Opening a transaction: what it has checked holds.                       *)
(***************************************************************************)
LEMMA RegisterStudentOpens ==
  ASSUME StudentsInv, NEW t \in Slots, NEW a, NEW p \in Pupils, NEW c \in ClassIds,
         RegisterStudent(t, a, p, c)
  PROVE  StudentsInv'
<1> DEFINE w == [Closed EXCEPT !.op = "register", !.pupil = p, !.class = c, !.session = session,
                               !.status = IF a = Office THEN "active" ELSE "pending_approval"]
<1>1. w \in Txn
  BY DEF Closed, Txn, Standings, StudentsInv, StudentsTypeOK
<1>2. StudentTxnOK(w)
  BY DEF RegisterStudent, Closed, StudentTxnOK, StudentTxnShape, StudentReadHolds
<1> QED
  BY <1>1, <1>2, OpensKeepsStudents DEF RegisterStudent

LEMMA ApproveStudentOpens ==
  ASSUME StudentsInv, NEW t \in Slots, NEW p \in Pupils, ApproveStudent(t, p)
  PROVE  StudentsInv'
<1> DEFINE w == [Closed EXCEPT !.op = "approve", !.pupil = p]
<1>1. w \in Txn
  BY ClosedStudentTxn DEF Closed, Txn
<1>2. StudentTxnOK(w)
  BY DEF ApproveStudent, Closed, StudentTxnOK, StudentTxnShape, StudentReadHolds
<1> QED
  BY <1>1, <1>2, OpensKeepsStudents DEF ApproveStudent

LEMMA PlacesOpens ==
  ASSUME StudentsInv, NEW t \in Slots, NEW p \in Pupils, NEW c \in ClassIds, Places(t, p, c)
  PROVE  StudentsInv'
<1> DEFINE found == IF seat[session][p] = NoSeat THEN "nothing" ELSE "row"
           w == [Closed EXCEPT !.op = "move", !.pupil = p, !.class = c, !.session = session,
                               !.found = found]
<1>0. found \in {"nothing", "row"}
  OBVIOUS
<1>1. w \in Txn
  <2> HIDE DEF found
  <2> QED
    BY <1>0, ClosedStudentTxn DEF Closed, Txn, StudentsInv, StudentsTypeOK
<1>2. StudentTxnOK(w)
  BY DEF Places, Closed, StudentTxnOK, StudentTxnShape, StudentReadHolds
<1> QED
  BY <1>1, <1>2, OpensKeepsStudents DEF Places

LEMMA SetStudentStandingOpens ==
  ASSUME StudentsInv, NEW t \in Slots, NEW p \in Pupils,
         NEW decided \in {"active", "suspended", "withdrawn", "expelled"},
         SetStudentStanding(t, p, decided)
  PROVE  StudentsInv'
<1> DEFINE w == [Closed EXCEPT !.op = "standing", !.pupil = p, !.status = decided]
<1>1. w \in Txn
  BY ClosedStudentTxn DEF Closed, Txn, Standings
<1>2. StudentTxnOK(w)
  BY DEF SetStudentStanding, Closed, StudentTxnOK, StudentTxnShape, StudentReadHolds
<1> QED
  BY <1>1, <1>2, OpensKeepsStudents DEF SetStudentStanding

LEMMA RemoveEmptyClassOpens ==
  ASSUME StudentsInv, NEW t \in Slots, NEW c \in ClassIds, RemoveEmptyClass(t, c)
  PROVE  StudentsInv'
<1> DEFINE w == [Closed EXCEPT !.op = "remove", !.class = c]
<1>1. w \in Txn
  BY ClosedStudentTxn DEF Closed, Txn
<1>2. StudentTxnOK(w)
  BY DEF RemoveEmptyClass, Closed, StudentTxnOK, StudentTxnShape, StudentReadHolds
<1> QED
  BY <1>1, <1>2, OpensKeepsStudents DEF RemoveEmptyClass

LEMMA SetStudentSubjectsOpens ==
  ASSUME StudentsInv, NEW t \in Slots, NEW a, NEW p \in Pupils,
         NEW electives \in SUBSET (Subjects \ Core), SetStudentSubjects(t, a, p, electives)
  PROVE  StudentsInv'
<1> DEFINE chosen == (OfferedTo(p) \intersect (Core \union electives)) \union scored[p]
           w == [Closed EXCEPT !.op = "subjects", !.pupil = p, !.session = session,
                               !.subjects = chosen]
<1>1. w \in Txn
  <2>1. chosen \in SUBSET Subjects
    BY StudentsAssumption DEF StudentsInv, StudentsTypeOK
  <2> HIDE DEF chosen
  <2> QED
    BY <2>1, ClosedStudentTxn DEF Closed, Txn, StudentsInv, StudentsTypeOK
<1>2. StudentTxnOK(w)
  BY DEF Closed, StudentTxnOK, StudentTxnShape, StudentReadHolds
<1> QED
  BY <1>1, <1>2, OpensKeepsStudents DEF SetStudentSubjects

LEMMA RegisterCoreOpens ==
  ASSUME StudentsInv, NEW t \in Slots, NEW a, NEW c \in ClassIds, RegisterCoreForClass(t, a, c)
  PROVE  StudentsInv'
<1> DEFINE missing == {x \in Seated(session, c) \X (Core \intersect Offered[c]) :
                           x[2] \notin registered[x[1]]}
           w == [Closed EXCEPT !.op = "core", !.class = c, !.session = session, !.todo = missing]
<1>1. w \in Txn
  <2>1. missing \in SUBSET (Pupils \X Subjects)
    BY StudentsAssumption DEF Seated
  <2> HIDE DEF missing
  <2> QED
    BY <2>1, ClosedStudentTxn DEF Closed, Txn, StudentsInv, StudentsTypeOK
<1>2. StudentTxnOK(w)
  BY DEF Closed, StudentTxnOK, StudentTxnShape, StudentReadHolds
<1> QED
  BY <1>1, <1>2, OpensKeepsStudents DEF RegisterCoreForClass

LEMMA TransferOpens ==
  ASSUME StudentsInv, NEW t \in Slots, NEW p \in Pupils, NEW c \in ClassIds,
         NEW outcome \in {"none", "graduated"}, TransferStudent(t, p, c, outcome)
  PROVE  StudentsInv'
<1> DEFINE read(k, found) ==
              [Closed EXCEPT !.op = "transfer", !.pupil = p, !.class = c, !.session = k,
                             !.status = outcome, !.found = found]
<1>1. ASSUME NEW k \in SessionIds, NEW found \in {"nothing", "row"}, Opens(t, read(k, found))
      PROVE  StudentsInv'
  <2>1. read(k, found) \in Txn
    BY ClosedStudentTxn DEF Closed, Txn, Standings
  <2>2. StudentTxnOK(read(k, found))
    BY DEF Closed, StudentTxnOK, StudentTxnShape, StudentReadHolds
  <2> QED
    BY <1>1, <2>1, <2>2, OpensKeepsStudents
<1>2. session \in SessionIds
  BY DEF StudentsInv, StudentsTypeOK
<1> QED
  BY <1>1, <1>2 DEF TransferStudent

LEMMA EnterScoreOpens ==
  ASSUME StudentsInv, NEW t \in Slots, NEW p \in Pupils, NEW x \in Subjects, EnterScore(t, p, x)
  PROVE  StudentsInv'
<1> DEFINE w == [Closed EXCEPT !.op = "score", !.pupil = p, !.session = session,
                               !.subjects = {x}]
<1>1. w \in Txn
  BY ClosedStudentTxn DEF Closed, Txn, StudentsInv, StudentsTypeOK
<1>2. StudentTxnOK(w)
  BY DEF EnterScore, Closed, StudentTxnOK, StudentTxnShape, StudentReadHolds
<1> QED
  BY <1>1, <1>2, OpensKeepsStudents DEF EnterScore

-----------------------------------------------------------------------------
(***************************************************************************)
(* Committing.                                                             *)
(***************************************************************************)
LEMMA OneSeatChanges ==
  ASSUME StudentsTypeOK, NEW k \in SessionIds, NEW p \in Pupils, NEW r \in Seat,
         seat' = [seat EXCEPT ![k][p] = r]
  PROVE  /\ seat' \in [SessionIds -> [Pupils -> Seat]]
         /\ \A j \in SessionIds, q \in Pupils :
                seat'[j][q] = IF j = k /\ q = p THEN r ELSE seat[j][q]
<1>1. seat'[k] = [seat[k] EXCEPT ![p] = r] /\ \A j \in SessionIds \ {k} : seat'[j] = seat[j]
  BY DEF StudentsTypeOK
<1>2. seat[k] \in [Pupils -> Seat]
  BY DEF StudentsTypeOK
<1>3. seat'[k] \in [Pupils -> Seat]
  BY <1>1, <1>2
<1>4. seat' \in [SessionIds -> [Pupils -> Seat]]
  BY <1>1, <1>3 DEF StudentsTypeOK
<1>5. \A q \in Pupils : seat'[k][q] = IF q = p THEN r ELSE seat[k][q]
  BY <1>1, <1>2
<1> QED
  BY <1>1, <1>4, <1>5

\* A registration takes a place there was room for, or the pupil is raced.
LEMMA RegisterKeepsStudents ==
  ASSUME StudentsInv, NEW t \in Slots, RegisterCommits(t)
  PROVE  StudentsInv'
<1> DEFINE w == txn[t]
           r == [class |-> w.class, status |-> w.status]
<1>0. /\ Commits(t, "register")
      /\ UNCHANGED <<open, registered, scored, unasked, unchecked, razed, stranded>>
      /\ status' = [status EXCEPT ![w.pupil] = w.status]
      /\ login' = [login EXCEPT ![w.pupil] = TRUE]
      /\ seat' = [seat EXCEPT ![w.session][w.pupil] = r]
  BY DEF RegisterCommits
<1>2. /\ txn' \in [Slots -> Txn] /\ \A u \in Slots : StudentTxnOK(txn[u])'
      /\ session' = session /\ session' \in SessionIds /\ started' \in 0..MaxStarted
      /\ UNCHANGED <<capacity, promoted, cut>>
      /\ raced' \subseteq Pupils /\ raced \subseteq raced'
      /\ w \in Txn /\ StudentTxnOK(w) /\ w.op = "register"
      /\ w.stale /\ w.pupil \in Pupils => w.pupil \in raced'
  BY <1>0, CommitsStudents
<1>3. w.pupil \in Pupils /\ w.class \in ClassIds /\ w.status \in {"active", "pending_approval"}
        /\ w.session \in SessionIds /\ w.stale \in BOOLEAN
  BY <1>2 DEF StudentTxnOK, StudentTxnShape, Txn
<1>4. r \in Seat
  BY <1>3 DEF Seat
<1>5. /\ seat' \in [SessionIds -> [Pupils -> Seat]]
      /\ \A j \in SessionIds, q \in Pupils :
             seat'[j][q] = IF j = w.session /\ q = w.pupil THEN r ELSE seat[j][q]
  BY <1>0, <1>3, <1>4, OneSeatChanges DEF StudentsInv
<1>6. StudentsTypeOK'
  BY <1>0, <1>2, <1>3, <1>5 DEF StudentsInv, StudentsTypeOK, Standings
<1>7. ~w.stale => w.session = session /\ HasRoom(w.class) /\ w.class \in open
  BY <1>2 DEF StudentTxnOK, StudentReadHolds
<1>8. ASSUME NEW k \in SessionIds, NEW c \in ClassIds
      PROVE  Seated(k, c)' \subseteq IF k = w.session /\ c = w.class
                                     THEN Seated(k, c) \union {w.pupil} ELSE Seated(k, c)
  BY <1>5 DEF Seated
<1>9. RoomIsKept'
  <2>1. ASSUME NEW k \in SessionIds, NEW c \in ClassIds
        PROVE  \/ Seated(k, c)' \ Uncounted' \subseteq Seated(k, c)
               \/ k = session /\ HasRoom(c) /\ Seated(k, c)' \subseteq Seated(k, c) \union {w.pupil}
    <3>1. CASE w.stale
      BY <3>1, <1>2, <1>3, <1>8 DEF Uncounted
    <3>2. CASE ~w.stale
      BY <3>2, <1>7, <1>8
    <3> QED
      BY <3>1, <3>2, <1>3
  <2> QED
    BY <2>1, <1>0, <1>2, <1>3, RoomStep DEF Uncounted
<1>10. SeatsAreInClasses'
  <2> SUFFICES ASSUME NEW k \in SessionIds, NEW c \in ClassIds \ (open' \union razed'),
                      NEW q \in Seated(k, c)'
               PROVE  q \in raced' \union unchecked'
    BY DEF SeatsAreInClasses
  <2>1. CASE q \in Seated(k, c)
    BY <2>1, <1>0, <1>2 DEF StudentsInv, SeatsAreInClasses
  <2>2. CASE q \notin Seated(k, c)
    BY <2>2, <1>0, <1>2, <1>3, <1>7, <1>8
  <2> QED
    BY <2>1, <2>2
<1>11. LoginFollowsStanding'
  BY <1>0, <1>2, <1>3 DEF StudentsInv, StudentsTypeOK, LoginFollowsStanding
<1>12. ScoredIsRegistered'
  BY <1>0, <1>2 DEF StudentsInv, ScoredIsRegistered
<1> QED
  BY <1>2, <1>6, <1>9, <1>10, <1>11, <1>12 DEF StudentsInv

\* An approval seats a pupil without asking for room or for the class, and marks it.
LEMMA ApproveKeepsStudents ==
  ASSUME StudentsInv, NEW t \in Slots, ApproveCommits(t)
  PROVE  StudentsInv'
<1> DEFINE w == txn[t]
           p == w.pupil
           Waiting(k) == seat[k][p].status = "pending_approval"
<1>0. /\ Commits(t, "approve")
      /\ UNCHANGED <<login, open, registered, scored, razed, stranded>>
      /\ status' = [status EXCEPT ![p] = "active"]
      /\ seat' = [k \in SessionIds |->
                      IF Waiting(k) THEN [seat[k] EXCEPT ![p].status = "active"] ELSE seat[k]]
      /\ unasked' = IF \E k \in SessionIds : Waiting(k) THEN unasked \union {p} ELSE unasked
      /\ unchecked' = IF \E k \in SessionIds : Waiting(k) /\ seat[k][p].class \notin open
                      THEN unchecked \union {p} ELSE unchecked
  BY DEF ApproveCommits
<1>2. /\ txn' \in [Slots -> Txn] /\ \A u \in Slots : StudentTxnOK(txn[u])'
      /\ session' = session /\ session' \in SessionIds /\ started' \in 0..MaxStarted
      /\ UNCHANGED <<capacity, promoted, cut>>
      /\ raced' \subseteq Pupils /\ raced \subseteq raced'
      /\ w \in Txn /\ StudentTxnOK(w) /\ w.op = "approve"
      /\ w.stale /\ w.pupil \in Pupils => w.pupil \in raced'
  BY <1>0, CommitsStudents
<1>3. p \in Pupils /\ w.stale \in BOOLEAN
  BY <1>2 DEF StudentTxnOK, StudentTxnShape, Txn
<1>4. /\ unasked' \subseteq Pupils /\ unasked \subseteq unasked'
      /\ unchecked' \subseteq Pupils /\ unchecked \subseteq unchecked'
  BY <1>0, <1>3 DEF StudentsInv, StudentsTypeOK
<1>5. ASSUME NEW k \in SessionIds
      PROVE  /\ seat'[k] \in [Pupils -> Seat]
             /\ \A q \in Pupils :
                   \/ seat'[k][q] = seat[k][q]
                   \/ /\ q = p /\ p \in unasked'
                      /\ seat'[k][p].class = seat[k][p].class
                      /\ seat[k][p].class \in open \/ p \in unchecked'
  <2>1. seat[k] \in [Pupils -> Seat]
    BY DEF StudentsInv, StudentsTypeOK
  <2>2. CASE Waiting(k)
    <3>1. /\ seat'[k] = [seat[k] EXCEPT ![p].status = "active"] /\ p \in unasked'
          /\ seat[k][p].class \in open \/ p \in unchecked'
      BY <2>2, <1>0
    <3>2. /\ [seat[k][p] EXCEPT !.status = "active"] \in Seat
          /\ [seat[k][p] EXCEPT !.status = "active"].class = seat[k][p].class
      BY <2>1, <1>3 DEF Seat
    <3> QED
      BY <3>1, <3>2, <2>1, <1>3
  <2>3. CASE ~Waiting(k)
    BY <2>1, <2>3, <1>0
  <2> QED
    BY <2>2, <2>3
<1>6. StudentsTypeOK'
  <2>1. seat' \in [SessionIds -> [Pupils -> Seat]]
    BY <1>0, <1>5
  <2> QED
    BY <2>1, <1>0, <1>2, <1>3, <1>4 DEF StudentsInv, StudentsTypeOK, Standings
<1>7. ASSUME NEW k \in SessionIds, NEW c \in ClassIds, NEW q \in Seated(k, c)'
      PROVE  q \in Seated(k, c) \/ (q \in unasked' /\ (c \in open \/ q \in unchecked'))
  BY <1>5, <1>7 DEF Seated
<1>8. RoomIsKept'
  BY <1>2, <1>3, <1>4, <1>7, RoomStep DEF Uncounted
<1>9. SeatsAreInClasses'
  BY <1>0, <1>2, <1>4, <1>7 DEF StudentsInv, SeatsAreInClasses
<1>10. LoginFollowsStanding'
  <2> SUFFICES ASSUME NEW q \in Pupils \ raced'
               PROVE  /\ status'[q] \in {"active", "pending_approval"} => login[q] \/ q \in stranded
                      /\ status'[q] \in {"suspended", "withdrawn", "expelled"} => ~login[q]
    BY <1>0 DEF LoginFollowsStanding
  <2>1. /\ status[q] \in {"active", "pending_approval"} => login[q] \/ q \in stranded
        /\ status[q] \in {"suspended", "withdrawn", "expelled"} => ~login[q]
    BY <1>2 DEF StudentsInv, LoginFollowsStanding
  <2>2. CASE q = p
    <3>1. status[p] = "pending_approval"
      BY <2>2, <1>2, <1>3 DEF StudentTxnOK, StudentReadHolds
    <3>2. status'[p] = "active"
      BY <1>0, <1>3 DEF StudentsInv, StudentsTypeOK
    <3> QED
      BY <2>1, <2>2, <3>1, <3>2
  <2>3. CASE q # p
    <3>1. status'[q] = status[q]
      BY <2>3, <1>0, <1>3 DEF StudentsInv, StudentsTypeOK
    <3> QED
      BY <2>1, <3>1
  <2> QED
    BY <2>2, <2>3
<1>11. ScoredIsRegistered'
  BY <1>0, <1>2 DEF StudentsInv, ScoredIsRegistered
<1> QED
  BY <1>2, <1>6, <1>8, <1>9, <1>10, <1>11 DEF StudentsInv

\* Whoever is moved sits in the one class or where he was, and in a removed one unchecked.
LEMMA ReseatsOne ==
  ASSUME StudentsInv, NEW w \in Txn, w.pupil \in Pupils, w.class \in ClassIds, Reseats(w)
  PROVE  /\ seat' \in [SessionIds -> [Pupils -> Seat]]
         /\ unchecked' \subseteq Pupils /\ unchecked \subseteq unchecked'
         /\ w.class \in open \/ w.pupil \in unchecked'
         /\ \A k \in SessionIds, c \in ClassIds :
               Seated(k, c)' \subseteq IF k = w.session /\ c = w.class
                                      THEN Seated(k, c) \union {w.pupil} ELSE Seated(k, c)
<1> DEFINE now == seat[w.session][w.pupil]
           r == [class |-> w.class, status |-> IF w.found = "row" THEN now.status ELSE "active"]
<1>1. w.session \in SessionIds
  BY DEF Txn
<1>2. /\ seat' = IF w.found = "deleted" THEN seat ELSE [seat EXCEPT ![w.session][w.pupil] = r]
      /\ unchecked' = IF w.class \in open THEN unchecked ELSE unchecked \union {w.pupil}
  BY DEF Reseats
<1>3. r \in Seat
  <2>1. now \in Seat
    BY <1>1 DEF StudentsInv, StudentsTypeOK
  <2> QED
    BY <2>1 DEF Seat
<1>4. /\ unchecked' \subseteq Pupils /\ unchecked \subseteq unchecked'
      /\ w.class \in open \/ w.pupil \in unchecked'
  BY <1>2 DEF StudentsInv, StudentsTypeOK
<1>5. CASE w.found = "deleted"
  BY <1>2, <1>4, <1>5 DEF StudentsInv, StudentsTypeOK, Seated
<1>6. CASE w.found # "deleted"
  <2>1. /\ seat' \in [SessionIds -> [Pupils -> Seat]]
        /\ \A j \in SessionIds, q \in Pupils :
               seat'[j][q] = IF j = w.session /\ q = w.pupil THEN r ELSE seat[j][q]
    <3> HIDE DEF r
    <3> QED
      BY <1>1, <1>2, <1>3, <1>6, OneSeatChanges DEF StudentsInv
  <2>2. r.class = w.class
    OBVIOUS
  <2>3. ASSUME NEW k \in SessionIds, NEW c \in ClassIds
        PROVE  Seated(k, c)' \subseteq IF k = w.session /\ c = w.class
                                      THEN Seated(k, c) \union {w.pupil} ELSE Seated(k, c)
    <3> HIDE DEF r
    <3> QED
      BY <2>1, <2>2 DEF Seated
  <2> QED
    BY <1>4, <2>1, <2>3
<1> QED
  BY <1>5, <1>6

\* A move takes a place there was room for, or the pupil is raced.
LEMMA MoveKeepsStudents ==
  ASSUME StudentsInv, NEW t \in Slots, MoveCommits(t)
  PROVE  StudentsInv'
<1> DEFINE w == txn[t]
<1>0. /\ Commits(t, "move") /\ Reseats(w)
      /\ UNCHANGED <<status, login, open, registered, scored, unasked, razed, stranded>>
  BY DEF MoveCommits
<1>2. /\ txn' \in [Slots -> Txn] /\ \A u \in Slots : StudentTxnOK(txn[u])'
      /\ session' = session /\ session' \in SessionIds /\ started' \in 0..MaxStarted
      /\ UNCHANGED <<capacity, promoted, cut>>
      /\ raced' \subseteq Pupils /\ raced \subseteq raced'
      /\ w \in Txn /\ StudentTxnOK(w) /\ w.op = "move"
      /\ w.stale /\ w.pupil \in Pupils => w.pupil \in raced'
  BY <1>0, CommitsStudents
<1>3. w.pupil \in Pupils /\ w.class \in ClassIds /\ w.stale \in BOOLEAN
  BY <1>2 DEF StudentTxnOK, StudentTxnShape, Txn
<1>5. /\ seat' \in [SessionIds -> [Pupils -> Seat]]
      /\ unchecked' \subseteq Pupils /\ unchecked \subseteq unchecked'
      /\ w.class \in open \/ w.pupil \in unchecked'
      /\ \A k \in SessionIds, c \in ClassIds :
            Seated(k, c)' \subseteq IF k = w.session /\ c = w.class
                                   THEN Seated(k, c) \union {w.pupil} ELSE Seated(k, c)
  BY <1>0, <1>2, <1>3, ReseatsOne
<1>6. StudentsTypeOK'
  BY <1>0, <1>2, <1>3, <1>5 DEF StudentsInv, StudentsTypeOK
<1>7. ~w.stale => w.session = session /\ HasRoom(w.class)
  BY <1>2 DEF StudentTxnOK, StudentReadHolds
<1>9. RoomIsKept'
  <2>1. ASSUME NEW k \in SessionIds, NEW c \in ClassIds
        PROVE  \/ Seated(k, c)' \ Uncounted' \subseteq Seated(k, c)
               \/ k = session /\ HasRoom(c) /\ Seated(k, c)' \subseteq Seated(k, c) \union {w.pupil}
    <3>1. CASE w.stale
      BY <3>1, <1>2, <1>3, <1>5 DEF Uncounted
    <3>2. CASE ~w.stale
      BY <3>2, <1>7, <1>5
    <3> QED
      BY <3>1, <3>2, <1>3
  <2> QED
    BY <2>1, <1>0, <1>2, <1>3, RoomStep DEF Uncounted
<1>10. SeatsAreInClasses'
  BY <1>0, <1>2, <1>5 DEF StudentsInv, SeatsAreInClasses
<1>11. LoginFollowsStanding' /\ ScoredIsRegistered'
  BY <1>0, <1>2 DEF StudentsInv, LoginFollowsStanding, ScoredIsRegistered
<1> QED
  BY <1>2, <1>6, <1>9, <1>10, <1>11 DEF StudentsInv

\* A promotion's move asks for the class and for no room, and leaves the login alone.
LEMMA TransferKeepsStudents ==
  ASSUME StudentsInv, NEW t \in Slots, TransferCommits(t)
  PROVE  StudentsInv'
<1> DEFINE w == txn[t]
<1>0. /\ Commits(t, "transfer") /\ Reseats(w)
      /\ status' = IF w.status = "graduated" THEN [status EXCEPT ![w.pupil] = "graduated"]
                   ELSE status
      /\ unasked' = unasked \union {w.pupil}
      /\ UNCHANGED <<login, open, registered, scored, razed, stranded>>
  BY DEF TransferCommits
<1>2. /\ txn' \in [Slots -> Txn] /\ \A u \in Slots : StudentTxnOK(txn[u])'
      /\ session' = session /\ session' \in SessionIds /\ started' \in 0..MaxStarted
      /\ UNCHANGED <<capacity, promoted, cut>>
      /\ raced' \subseteq Pupils /\ raced \subseteq raced'
      /\ w \in Txn /\ StudentTxnOK(w) /\ w.op = "transfer"
      /\ w.stale /\ w.pupil \in Pupils => w.pupil \in raced'
  BY <1>0, CommitsStudents
<1>3. w.pupil \in Pupils /\ w.class \in ClassIds
  BY <1>2 DEF StudentTxnOK, StudentTxnShape, Txn
<1>5. /\ seat' \in [SessionIds -> [Pupils -> Seat]]
      /\ unchecked' \subseteq Pupils /\ unchecked \subseteq unchecked'
      /\ w.class \in open \/ w.pupil \in unchecked'
      /\ \A k \in SessionIds, c \in ClassIds :
            Seated(k, c)' \subseteq IF k = w.session /\ c = w.class
                                   THEN Seated(k, c) \union {w.pupil} ELSE Seated(k, c)
  BY <1>0, <1>2, <1>3, ReseatsOne
<1>6. /\ status' \in [Pupils -> Standings]
      /\ \A q \in Pupils : status'[q] = status[q] \/ status'[q] = "graduated"
  BY <1>0, <1>3 DEF StudentsInv, StudentsTypeOK, Standings
<1>7. StudentsTypeOK'
  BY <1>0, <1>2, <1>3, <1>5, <1>6 DEF StudentsInv, StudentsTypeOK
<1>8. RoomIsKept'
  <2>1. ASSUME NEW k \in SessionIds, NEW c \in ClassIds
        PROVE  Seated(k, c)' \ Uncounted' \subseteq Seated(k, c)
    BY <1>0, <1>5 DEF Uncounted
  <2> QED
    BY <2>1, <1>0, <1>2, <1>3, RoomStep DEF Uncounted
<1>9. SeatsAreInClasses'
  BY <1>0, <1>2, <1>5 DEF StudentsInv, SeatsAreInClasses
<1>10. LoginFollowsStanding'
  BY <1>0, <1>2, <1>6 DEF StudentsInv, LoginFollowsStanding
<1>11. ScoredIsRegistered'
  BY <1>0, <1>2 DEF StudentsInv, ScoredIsRegistered
<1> QED
  BY <1>2, <1>7, <1>8, <1>9, <1>10, <1>11 DEF StudentsInv

\* Leaving gives up seats, and coming back takes none.
LEMMA StandingKeepsStudents ==
  ASSUME StudentsInv, NEW t \in Slots, StandingCommits(t)
  PROVE  StudentsInv'
<1> DEFINE w == txn[t]
<1>0. /\ Commits(t, "standing")
      /\ UNCHANGED <<open, registered, scored, unasked, unchecked, razed>>
      /\ status' = [status EXCEPT ![w.pupil] = w.status]
      /\ login' = [login EXCEPT ![w.pupil] = w.status = "active"]
      /\ seat' = IF w.status \in Left
                 THEN [k \in SessionIds |-> [seat[k] EXCEPT ![w.pupil] = GivenUp(@)]]
                 ELSE seat
      /\ stranded' = stranded \ {w.pupil}
  BY DEF StandingCommits
<1>2. /\ txn' \in [Slots -> Txn] /\ \A u \in Slots : StudentTxnOK(txn[u])'
      /\ session' = session /\ session' \in SessionIds /\ started' \in 0..MaxStarted
      /\ UNCHANGED <<capacity, promoted, cut>>
      /\ raced' \subseteq Pupils /\ raced \subseteq raced'
      /\ w \in Txn /\ StudentTxnOK(w) /\ w.op = "standing"
      /\ w.stale /\ w.pupil \in Pupils => w.pupil \in raced'
  BY <1>0, CommitsStudents
<1>3. w.pupil \in Pupils /\ w.status \in {"active", "suspended", "withdrawn", "expelled"}
        /\ w.stale \in BOOLEAN
  BY <1>2 DEF StudentTxnOK, StudentTxnShape, Txn
<1>5. ASSUME NEW k \in SessionIds
      PROVE  /\ seat'[k] \in [Pupils -> Seat]
             /\ \A q \in Pupils : seat'[k][q] = seat[k][q] \/ seat'[k][q].status # "active"
  <2>1. seat[k] \in [Pupils -> Seat]
    BY DEF StudentsInv, StudentsTypeOK
  <2>2. CASE w.status \in Left
    <3>1. seat'[k] = [seat[k] EXCEPT ![w.pupil] = GivenUp(@)]
      BY <2>2, <1>0
    <3>2. GivenUp(seat[k][w.pupil]) \in Seat /\ GivenUp(seat[k][w.pupil]).status # "active"
      BY <2>1, <1>3 DEF Seat, GivenUp
    <3> QED
      BY <3>1, <3>2, <2>1, <1>3
  <2>3. CASE w.status \notin Left
    BY <2>1, <2>3, <1>0
  <2> QED
    BY <2>2, <2>3
<1>6. StudentsTypeOK'
  <2>1. seat' \in [SessionIds -> [Pupils -> Seat]]
    <3>1. CASE w.status \in Left
      BY <3>1, <1>0, <1>5
    <3>2. CASE w.status \notin Left
      BY <3>2, <1>0 DEF StudentsInv, StudentsTypeOK
    <3> QED
      BY <3>1, <3>2
  <2>2. status' \in [Pupils -> Standings] /\ login' \in [Pupils -> BOOLEAN]
    BY <1>0, <1>3 DEF StudentsInv, StudentsTypeOK, Standings
  <2> QED
    BY <2>1, <2>2, <1>0, <1>2 DEF StudentsInv, StudentsTypeOK
<1>7. ASSUME NEW k \in SessionIds, NEW c \in ClassIds PROVE Seated(k, c)' \subseteq Seated(k, c)
  BY <1>5 DEF Seated
<1>8. RoomIsKept'
  BY <1>0, <1>2, <1>3, <1>7, RoomStep DEF Uncounted
<1>9. SeatsAreInClasses'
  BY <1>0, <1>2, <1>7 DEF StudentsInv, SeatsAreInClasses
<1>10. LoginFollowsStanding'
  <2> SUFFICES ASSUME NEW q \in Pupils \ raced'
               PROVE  /\ status'[q] \in {"active", "pending_approval"} =>
                            login'[q] \/ q \in stranded'
                      /\ status'[q] \in {"suspended", "withdrawn", "expelled"} => ~login'[q]
    BY DEF LoginFollowsStanding
  <2>1. CASE q = w.pupil
    <3>1. status'[q] = w.status /\ login'[q] = (w.status = "active")
      BY <2>1, <1>0, <1>3 DEF StudentsInv, StudentsTypeOK
    <3> QED
      BY <3>1, <1>3
  <2>2. CASE q # w.pupil
    <3>1. status'[q] = status[q] /\ login'[q] = login[q]
      BY <2>2, <1>0, <1>3 DEF StudentsInv, StudentsTypeOK
    <3> QED
      BY <2>2, <3>1, <1>0, <1>2 DEF StudentsInv, LoginFollowsStanding
  <2> QED
    BY <2>1, <2>2
<1>11. ScoredIsRegistered'
  BY <1>0, <1>2 DEF StudentsInv, ScoredIsRegistered
<1> QED
  BY <1>2, <1>6, <1>8, <1>9, <1>10, <1>11 DEF StudentsInv

\* What a step keeps that writes no seat.
LEMMA SeatsUntouched ==
  ASSUME StudentsInv, UNCHANGED <<seat, capacity, cut, unasked, unchecked>>,
         raced \subseteq raced'
  PROVE  /\ RoomIsKept'
         /\ \A k \in SessionIds, c \in ClassIds : Seated(k, c)' = Seated(k, c)
         /\ open \subseteq open' /\ razed' = razed => SeatsAreInClasses'
<1>1. \A k \in SessionIds, c \in ClassIds : Seated(k, c)' = Seated(k, c)
  BY DEF Seated
<1>2. RoomIsKept'
  <2> SUFFICES ASSUME NEW k \in SessionIds, NEW c \in ClassIds \ cut, capacity[c] > 0
               PROVE  Cardinality(Seated(k, c)' \ Uncounted') <= capacity[c]
    BY DEF RoomIsKept, Uncounted
  <2>1. Seated(k, c)' \ Uncounted' \subseteq Seated(k, c) \ Uncounted
    BY <1>1 DEF Uncounted
  <2> QED
    BY <2>1, FewerSeated
<1>3. open \subseteq open' /\ razed' = razed => SeatsAreInClasses'
  BY <1>1 DEF StudentsInv, SeatsAreInClasses
<1> QED
  BY <1>1, <1>2, <1>3

\* A class that was counted empty is empty when it goes, or it is razed.
LEMMA RemoveKeepsStudents ==
  ASSUME StudentsInv, NEW t \in Slots, RemoveCommits(t)
  PROVE  StudentsInv'
<1> DEFINE w == txn[t]
<1>0. Commits(t, "remove")
        /\ UNCHANGED <<status, login, seat, registered, scored, unasked, unchecked, stranded>>
        /\ open' = open \ {w.class}
        /\ razed' = IF w.stale THEN razed \union {w.class} ELSE razed
  BY DEF RemoveCommits
<1>2. /\ txn' \in [Slots -> Txn] /\ \A u \in Slots : StudentTxnOK(txn[u])'
      /\ session' = session /\ session' \in SessionIds /\ started' \in 0..MaxStarted
      /\ UNCHANGED <<capacity, promoted, cut>>
      /\ raced' \subseteq Pupils /\ raced \subseteq raced'
      /\ w \in Txn /\ StudentTxnOK(w) /\ w.op = "remove"
  BY <1>0, CommitsStudents
<1>3. w.class \in ClassIds /\ w.stale \in BOOLEAN
  BY <1>2 DEF StudentTxnOK, StudentTxnShape, Txn
<1>4. StudentsTypeOK'
  BY <1>0, <1>2, <1>3 DEF StudentsInv, StudentsTypeOK
<1>5. RoomIsKept' /\ \A k \in SessionIds, c \in ClassIds : Seated(k, c)' = Seated(k, c)
  BY <1>0, <1>2, SeatsUntouched
<1>6. SeatsAreInClasses'
  <2> SUFFICES ASSUME NEW k \in SessionIds, NEW c \in ClassIds \ (open' \union razed'),
                      NEW q \in Seated(k, c)
               PROVE  q \in raced' \union unchecked'
    BY <1>5 DEF SeatsAreInClasses
  <2>1. CASE c \in open
    <3>1. c = w.class /\ ~w.stale
      BY <2>1, <1>0
    <3>2. Seated(k, c) = {}
      BY <3>1, <1>2 DEF StudentTxnOK, StudentReadHolds
    <3> QED
      BY <3>2
  <2>2. CASE c \notin open
    BY <2>2, <1>0, <1>2 DEF StudentsInv, SeatsAreInClasses
  <2> QED
    BY <2>1, <2>2
<1>7. LoginFollowsStanding' /\ ScoredIsRegistered'
  BY <1>0, <1>2 DEF StudentsInv, LoginFollowsStanding, ScoredIsRegistered
<1> QED
  BY <1>2, <1>4, <1>5, <1>6, <1>7 DEF StudentsInv

\* What is written holds every score that was read, or the pupil is raced.
LEMMA SubjectsKeepStudents ==
  ASSUME StudentsInv, NEW t \in Slots, SubjectsCommit(t)
  PROVE  StudentsInv'
<1> DEFINE w == txn[t]
<1>0. Commits(t, "subjects")
        /\ UNCHANGED <<status, login, seat, open, scored, unasked, unchecked, razed, stranded>>
        /\ registered' = IF w.session = session
                         THEN [registered EXCEPT ![w.pupil] = w.subjects] ELSE registered
  BY DEF SubjectsCommit
<1>2. /\ txn' \in [Slots -> Txn] /\ \A u \in Slots : StudentTxnOK(txn[u])'
      /\ session' = session /\ session' \in SessionIds /\ started' \in 0..MaxStarted
      /\ UNCHANGED <<capacity, promoted, cut>>
      /\ raced' \subseteq Pupils /\ raced \subseteq raced'
      /\ w \in Txn /\ StudentTxnOK(w) /\ w.op = "subjects"
      /\ w.stale /\ w.pupil \in Pupils => w.pupil \in raced'
  BY <1>0, CommitsStudents
<1>3. w.pupil \in Pupils /\ w.subjects \subseteq Subjects /\ w.stale \in BOOLEAN
  BY <1>2 DEF StudentTxnOK, StudentTxnShape, Txn
<1>4. StudentsTypeOK'
  BY <1>0, <1>2, <1>3 DEF StudentsInv, StudentsTypeOK
<1>5. RoomIsKept' /\ SeatsAreInClasses'
  BY <1>0, <1>2, SeatsUntouched
<1>6. LoginFollowsStanding'
  BY <1>0, <1>2 DEF StudentsInv, LoginFollowsStanding
<1>7. ScoredIsRegistered'
  <2> SUFFICES ASSUME NEW p \in Pupils \ raced' PROVE scored[p] \subseteq registered'[p]
    BY <1>0 DEF ScoredIsRegistered
  <2>1. scored[p] \subseteq registered[p]
    BY <1>2 DEF StudentsInv, ScoredIsRegistered
  <2>2. CASE p = w.pupil
    <3>1. scored[p] \subseteq w.subjects
      BY <2>2, <1>2, <1>3 DEF StudentTxnOK, StudentReadHolds
    <3> QED
      BY <2>1, <2>2, <3>1, <1>0 DEF StudentsInv, StudentsTypeOK
  <2>3. CASE p # w.pupil
    BY <2>1, <2>3, <1>0 DEF StudentsInv, StudentsTypeOK
  <2> QED
    BY <2>2, <2>3
<1> QED
  BY <1>2, <1>4, <1>5, <1>6, <1>7 DEF StudentsInv

\* The whole class is registered for what it lacks, and nothing is taken away.
LEMMA CoreKeepsStudents ==
  ASSUME StudentsInv, NEW t \in Slots, CoreCommits(t)
  PROVE  StudentsInv'
<1> DEFINE w == txn[t]
           Added(p) == {x[2] : x \in {y \in w.todo : y[1] = p}}
<1>0. Commits(t, "core")
        /\ UNCHANGED <<status, login, seat, open, scored, unasked, unchecked, razed, stranded>>
        /\ registered' = IF w.session = session
                         THEN [p \in Pupils |-> registered[p] \union Added(p)] ELSE registered
  BY DEF CoreCommits
<1>2. /\ txn' \in [Slots -> Txn] /\ \A u \in Slots : StudentTxnOK(txn[u])'
      /\ session' = session /\ session' \in SessionIds /\ started' \in 0..MaxStarted
      /\ UNCHANGED <<capacity, promoted, cut>>
      /\ raced' \subseteq Pupils /\ raced \subseteq raced'
      /\ w \in Txn
  BY <1>0, CommitsStudents
<1>3. w.todo \subseteq Pupils \X Subjects
  BY <1>2 DEF Txn
<1>4. registered' \in [Pupils -> SUBSET Subjects]
        /\ \A p \in Pupils : registered[p] \subseteq registered'[p]
  <2>1. \A p \in Pupils : Added(p) \subseteq Subjects
    BY <1>3
  <2> HIDE DEF Added
  <2>2. CASE w.session = session
    BY <2>1, <2>2, <1>0 DEF StudentsInv, StudentsTypeOK
  <2>3. CASE w.session # session
    BY <2>3, <1>0 DEF StudentsInv, StudentsTypeOK
  <2> QED
    BY <2>2, <2>3
<1>5. StudentsTypeOK'
  BY <1>0, <1>2, <1>4 DEF StudentsInv, StudentsTypeOK
<1>6. RoomIsKept' /\ SeatsAreInClasses'
  BY <1>0, <1>2, SeatsUntouched
<1>7. LoginFollowsStanding' /\ ScoredIsRegistered'
  BY <1>0, <1>2, <1>4 DEF StudentsInv, LoginFollowsStanding, ScoredIsRegistered
<1> QED
  BY <1>2, <1>5, <1>6, <1>7 DEF StudentsInv

\* A score is of a subject that was registered when it was read, or the pupil is raced.
LEMMA ScoreKeepsStudents ==
  ASSUME StudentsInv, NEW t \in Slots, ScoreCommits(t)
  PROVE  StudentsInv'
<1> DEFINE w == txn[t]
<1>0. /\ Commits(t, "score")
      /\ UNCHANGED <<status, login, seat, open, registered, unasked, unchecked, razed, stranded>>
      /\ scored' = IF w.session = session
                   THEN [scored EXCEPT ![w.pupil] = @ \union w.subjects] ELSE scored
  BY DEF ScoreCommits
<1>2. /\ txn' \in [Slots -> Txn] /\ \A u \in Slots : StudentTxnOK(txn[u])'
      /\ session' = session /\ session' \in SessionIds /\ started' \in 0..MaxStarted
      /\ UNCHANGED <<capacity, promoted, cut>>
      /\ raced' \subseteq Pupils /\ raced \subseteq raced'
      /\ w \in Txn /\ StudentTxnOK(w) /\ w.op = "score"
      /\ w.stale /\ w.pupil \in Pupils => w.pupil \in raced'
  BY <1>0, CommitsStudents
<1>3. w.pupil \in Pupils /\ w.subjects \subseteq Subjects /\ w.stale \in BOOLEAN
  BY <1>2 DEF StudentTxnOK, StudentTxnShape, Txn
<1>4. StudentsTypeOK'
  BY <1>0, <1>2, <1>3 DEF StudentsInv, StudentsTypeOK
<1>5. RoomIsKept' /\ SeatsAreInClasses'
  BY <1>0, <1>2, SeatsUntouched
<1>6. LoginFollowsStanding'
  BY <1>0, <1>2 DEF StudentsInv, LoginFollowsStanding
<1>7. ScoredIsRegistered'
  <2> SUFFICES ASSUME NEW p \in Pupils \ raced' PROVE scored'[p] \subseteq registered[p]
    BY <1>0 DEF ScoredIsRegistered
  <2>1. scored[p] \subseteq registered[p]
    BY <1>2 DEF StudentsInv, ScoredIsRegistered
  <2>2. CASE p = w.pupil
    <3>1. w.subjects \subseteq registered[p]
      BY <2>2, <1>2, <1>3 DEF StudentTxnOK, StudentReadHolds
    <3> QED
      BY <2>1, <2>2, <3>1, <1>0 DEF StudentsInv, StudentsTypeOK
  <2>3. CASE p # w.pupil
    BY <2>1, <2>3, <1>0 DEF StudentsInv, StudentsTypeOK
  <2> QED
    BY <2>2, <2>3
<1> QED
  BY <1>2, <1>4, <1>5, <1>6, <1>7 DEF StudentsInv

-----------------------------------------------------------------------------
(***************************************************************************)
(* The steps that are transactions of their own.                           *)
(***************************************************************************)
LEMMA AtOnceStudents ==
  ASSUME StudentsInv, CommitsAtOnce
  PROVE  txn' \in [Slots -> Txn] /\ \A u \in Slots : StudentTxnOK(txn[u])'
BY OnlyOvertaken DEF CommitsAtOnce

LEMMA CreateClassKeepsStudents ==
  ASSUME StudentsInv, NEW c \in ClassIds, CreateClass(c)
  PROVE  StudentsInv'
<1>0. CommitsAtOnce /\ open' = open \union {c}
        /\ UNCHANGED <<status, login, seat, capacity, session, registered, scored, promoted, started,
                       raced, unasked, unchecked, razed, cut, stranded>>
  BY DEF CreateClass, studentsHistory
<1>1. txn' \in [Slots -> Txn] /\ \A u \in Slots : StudentTxnOK(txn[u])'
  BY <1>0, AtOnceStudents
<1>2. StudentsTypeOK'
  BY <1>0, <1>1 DEF StudentsInv, StudentsTypeOK
<1>3. RoomIsKept' /\ SeatsAreInClasses'
  BY <1>0, SeatsUntouched
<1>4. LoginFollowsStanding' /\ ScoredIsRegistered'
  BY <1>0 DEF StudentsInv, LoginFollowsStanding, ScoredIsRegistered
<1> QED
  BY <1>1, <1>2, <1>3, <1>4 DEF StudentsInv

LEMMA UpdateClassKeepsStudents ==
  ASSUME StudentsInv, NEW c \in ClassIds, NEW limit \in Capacities, UpdateClass(c, limit)
  PROVE  StudentsInv'
<1>0. /\ CommitsAtOnce /\ Starts
      /\ capacity' = [capacity EXCEPT ![c] = limit]
      /\ cut' = IF limit > 0 /\ \E k \in SessionIds : Cardinality(Seated(k, c)) > limit
                THEN cut \union {c} ELSE cut \ {c}
      /\ UNCHANGED <<status, login, seat, open, session, registered, scored, promoted, raced,
                     unasked, unchecked, razed, stranded>>
  BY DEF UpdateClass
<1>1. txn' \in [Slots -> Txn] /\ \A u \in Slots : StudentTxnOK(txn[u])'
  BY <1>0, AtOnceStudents
<1>2. StudentsTypeOK'
  BY <1>0, <1>1, BoundAssumption DEF Starts, StudentsInv, StudentsTypeOK
<1>3. \A k \in SessionIds, d \in ClassIds : Seated(k, d)' = Seated(k, d)
  BY <1>0 DEF Seated
<1>4. RoomIsKept'
  <2> SUFFICES ASSUME NEW k \in SessionIds, NEW d \in ClassIds \ cut', capacity'[d] > 0
               PROVE  Cardinality(Seated(k, d) \ Uncounted) <= capacity'[d]
    BY <1>0, <1>3 DEF RoomIsKept, Uncounted
  <2>1. CASE d = c
    <3>1. capacity'[d] = limit /\ limit \in Nat
      BY <2>1, <1>0, StudentsAssumption DEF StudentsInv, StudentsTypeOK
    <3>2. ~(Cardinality(Seated(k, d)) > limit)
      BY <2>1, <3>1, <1>0
    <3>3. IsFiniteSet(Seated(k, d))
      BY FS_Subset, StudentsAssumption DEF Seated
    <3>4. /\ IsFiniteSet(Seated(k, d) \ Uncounted)
          /\ Cardinality(Seated(k, d) \ Uncounted) <= Cardinality(Seated(k, d))
      BY <3>3, FS_Subset
    <3>5. Cardinality(Seated(k, d)) \in Nat /\ Cardinality(Seated(k, d) \ Uncounted) \in Nat
      BY <3>3, <3>4, FS_CardinalityType
    <3> QED
      BY <3>1, <3>2, <3>4, <3>5
  <2>2. CASE d # c
    <3>1. d \notin cut /\ capacity'[d] = capacity[d]
      BY <2>2, <1>0 DEF StudentsInv, StudentsTypeOK
    <3> QED
      BY <3>1, FewerSeated
  <2> QED
    BY <2>1, <2>2
<1>5. SeatsAreInClasses' /\ LoginFollowsStanding' /\ ScoredIsRegistered'
  BY <1>0, <1>3 DEF StudentsInv, SeatsAreInClasses, LoginFollowsStanding, ScoredIsRegistered
<1> QED
  BY <1>1, <1>2, <1>4, <1>5 DEF StudentsInv

\* A batch asks neither for room nor for the class.
LEMMA PlacementKeepsStudents ==
  ASSUME StudentsInv, NEW p \in Pupils, NEW c \in ClassIds, NEW to \in SessionIds,
         CommitPlacement(p, c, to)
  PROVE  StudentsInv'
<1> DEFINE r == [class |-> c, status |-> "active"]
<1>0. /\ CommitsAtOnce /\ Starts
      /\ promoted' = [promoted EXCEPT ![p] = [to |-> to, graduates |-> FALSE]]
      /\ seat' = [seat EXCEPT ![to][p] = r]
      /\ unasked' = unasked \union {p}
      /\ unchecked' = IF c \in open THEN unchecked ELSE unchecked \union {p}
      /\ UNCHANGED <<status, login, open, capacity, session, registered, scored, raced, razed,
                     cut, stranded>>
  BY DEF CommitPlacement, CommitsBatch
<1>1. txn' \in [Slots -> Txn] /\ \A u \in Slots : StudentTxnOK(txn[u])'
  BY <1>0, AtOnceStudents
<1>2. r \in Seat
  BY DEF Seat
<1>3. /\ seat' \in [SessionIds -> [Pupils -> Seat]]
      /\ \A j \in SessionIds, q \in Pupils :
             seat'[j][q] = IF j = to /\ q = p THEN r ELSE seat[j][q]
  <2> HIDE DEF r
  <2> QED
    BY <1>0, <1>2, OneSeatChanges DEF StudentsInv
<1>4. promoted' \in [Pupils -> Batches \union {NoBatch}]
  <2>1. [to |-> to, graduates |-> FALSE] \in Batches
    BY DEF Batches
  <2> QED
    BY <2>1, <1>0 DEF StudentsInv, StudentsTypeOK
<1>5. StudentsTypeOK'
  BY <1>0, <1>1, <1>3, <1>4, BoundAssumption DEF Starts, StudentsInv, StudentsTypeOK
<1>6. ASSUME NEW k \in SessionIds, NEW d \in ClassIds, NEW q \in Seated(k, d)'
      PROVE  q \in Seated(k, d) \/ (q = p /\ d = c)
  BY <1>3 DEF Seated
<1>7. RoomIsKept'
  BY <1>0, <1>6, RoomStep DEF Uncounted
<1>8. SeatsAreInClasses'
  BY <1>0, <1>6 DEF StudentsInv, SeatsAreInClasses
<1>9. LoginFollowsStanding' /\ ScoredIsRegistered'
  BY <1>0 DEF StudentsInv, LoginFollowsStanding, ScoredIsRegistered
<1> QED
  BY <1>1, <1>5, <1>7, <1>8, <1>9 DEF StudentsInv

LEMMA GraduationKeepsStudents ==
  ASSUME StudentsInv, NEW p \in Pupils, NEW to \in SessionIds, CommitGraduation(p, to)
  PROVE  StudentsInv'
<1>0. /\ CommitsAtOnce /\ Starts
      /\ promoted' = [promoted EXCEPT ![p] = [to |-> to, graduates |-> TRUE]]
      /\ status' = [status EXCEPT ![p] = "graduated"]
      /\ UNCHANGED <<login, seat, open, capacity, session, registered, scored, raced, unasked,
                     unchecked, razed, cut, stranded>>
  BY DEF CommitGraduation, CommitsBatch
<1>1. txn' \in [Slots -> Txn] /\ \A u \in Slots : StudentTxnOK(txn[u])'
  BY <1>0, AtOnceStudents
<1>2. promoted' \in [Pupils -> Batches \union {NoBatch}]
  <2>1. [to |-> to, graduates |-> TRUE] \in Batches
    BY DEF Batches
  <2> QED
    BY <2>1, <1>0 DEF StudentsInv, StudentsTypeOK
<1>3. /\ status' \in [Pupils -> Standings]
      /\ \A q \in Pupils : status'[q] = status[q] \/ status'[q] = "graduated"
  BY <1>0 DEF StudentsInv, StudentsTypeOK, Standings
<1>4. StudentsTypeOK'
  BY <1>0, <1>1, <1>2, <1>3, BoundAssumption DEF Starts, StudentsInv, StudentsTypeOK
<1>5. RoomIsKept' /\ SeatsAreInClasses'
  BY <1>0, SeatsUntouched
<1>6. LoginFollowsStanding' /\ ScoredIsRegistered'
  BY <1>0, <1>3 DEF StudentsInv, LoginFollowsStanding, ScoredIsRegistered
<1> QED
  BY <1>1, <1>4, <1>5, <1>6 DEF StudentsInv

\* A reversal takes a seat away, and gives no login back.
LEMMA ReversalKeepsStudents ==
  ASSUME StudentsInv, NEW p \in Pupils, ReversePromotion(p)
  PROVE  StudentsInv'
<1> DEFINE b == promoted[p]
           Returns == b.graduates /\ status[p] = "graduated"
           Loses(u) == /\ txn[u].op \in {"move", "transfer"} /\ txn[u].found = "row"
                       /\ txn[u].pupil = p /\ txn[u].session = b.to
<1>0. /\ Starts
      /\ b # NoBatch
      /\ promoted' = [promoted EXCEPT ![p] = NoBatch]
      /\ seat' = [seat EXCEPT ![b.to][p] = NoSeat]
      /\ status' = IF Returns THEN [status EXCEPT ![p] = "active"] ELSE status
      /\ stranded' = IF Returns /\ ~login[p] THEN stranded \union {p} ELSE stranded
      /\ txn' = [u \in Slots |->
                    IF txn[u].op = "none" THEN Closed
                    ELSE [txn[u] EXCEPT !.stale = TRUE,
                                        !.found = IF Loses(u) THEN "deleted" ELSE @]]
      /\ UNCHANGED <<login, open, capacity, session, registered, scored, raced, unasked,
                     unchecked, razed, cut>>
  BY DEF ReversePromotion
<1>1. txn' \in [Slots -> Txn] /\ \A u \in Slots : StudentTxnOK(txn[u])'
  <2>1. ASSUME NEW u \in Slots, txn[u].op # "none"
        PROVE  \E found \in {"nothing", "row", "deleted"} :
                   txn'[u] = [txn[u] EXCEPT !.stale = TRUE, !.found = found]
    <3>1. txn[u] \in Txn
      BY DEF StudentsInv, StudentsTypeOK
    <3>2. txn[u].found \in {"nothing", "row", "deleted"}
      BY <3>1 DEF Txn
    <3>3. txn'[u] = [txn[u] EXCEPT !.stale = TRUE,
                                   !.found = IF Loses(u) THEN "deleted" ELSE txn[u].found]
      BY <2>1, <1>0
    <3> QED
      BY <3>2, <3>3
  <2>2. ASSUME NEW u \in Slots, txn[u].op = "none" PROVE txn'[u] = Closed
    BY <2>2, <1>0
  <2>3. txn' = [u \in Slots |-> txn'[u]]
    BY <1>0
  <2> QED
    BY <2>1, <2>2, <2>3, OvertakenStudents
<1>2. b.to \in SessionIds
  BY <1>0 DEF StudentsInv, StudentsTypeOK, Batches
<1>3. NoSeat \in Seat /\ NoSeat.status # "active"
  BY DEF NoSeat, Seat
<1>4. /\ seat' \in [SessionIds -> [Pupils -> Seat]]
      /\ \A j \in SessionIds, q \in Pupils :
             seat'[j][q] = IF j = b.to /\ q = p THEN NoSeat ELSE seat[j][q]
  BY <1>0, <1>2, <1>3, OneSeatChanges DEF StudentsInv
<1>5. status' \in [Pupils -> Standings]
  BY <1>0 DEF StudentsInv, StudentsTypeOK, Standings
<1>6. StudentsTypeOK'
  <2>1. started' \in 0..MaxStarted
    <3>1. Starts
      BY <1>0
    <3> QED
      BY <3>1, BoundAssumption DEF Starts, StudentsInv, StudentsTypeOK
  <2>2. promoted' \in [Pupils -> Batches \union {NoBatch}]
    BY <1>0 DEF StudentsInv, StudentsTypeOK
  <2>3. stranded' \subseteq Pupils
    BY <1>0 DEF StudentsInv, StudentsTypeOK
  <2>4. UNCHANGED <<login, open, capacity, session, registered, scored, raced, unasked,
                    unchecked, razed, cut>>
    BY <1>0
  <2> QED
    BY <1>1, <1>4, <1>5, <2>1, <2>2, <2>3, <2>4 DEF StudentsInv, StudentsTypeOK
<1>7. \A k \in SessionIds, c \in ClassIds : Seated(k, c)' \subseteq Seated(k, c)
  BY <1>3, <1>4 DEF Seated
<1>8. RoomIsKept'
  BY <1>0, <1>7, RoomStep DEF Uncounted
<1>9. SeatsAreInClasses'
  BY <1>0, <1>7 DEF StudentsInv, SeatsAreInClasses
<1>10. LoginFollowsStanding'
  <2> SUFFICES ASSUME NEW q \in Pupils \ raced
               PROVE  /\ status'[q] \in {"active", "pending_approval"} =>
                            login[q] \/ q \in stranded'
                      /\ status'[q] \in {"suspended", "withdrawn", "expelled"} => ~login[q]
    BY <1>0 DEF LoginFollowsStanding
  <2>1. CASE q = p /\ Returns
    <3>1. status'[q] = "active" /\ (~login[q] => q \in stranded')
      BY <2>1, <1>0 DEF StudentsInv, StudentsTypeOK
    <3> QED
      BY <3>1
  <2>2. CASE ~(q = p /\ Returns)
    <3>1. status'[q] = status[q] /\ stranded \subseteq stranded'
      BY <2>2, <1>0 DEF StudentsInv, StudentsTypeOK
    <3> QED
      BY <3>1 DEF StudentsInv, LoginFollowsStanding
  <2> QED
    BY <2>1, <2>2
<1>11. ScoredIsRegistered'
  BY <1>0 DEF StudentsInv, ScoredIsRegistered
<1> QED
  BY <1>1, <1>6, <1>8, <1>9, <1>10, <1>11 DEF StudentsInv

LEMMA NextSessionKeepsStudents ==
  ASSUME StudentsInv, NextSession
  PROVE  StudentsInv'
<1>0. CommitsAtOnce /\ session < MaxSessions /\ session' = session + 1
        /\ registered' = [p \in Pupils |-> {}] /\ scored' = [p \in Pupils |-> {}]
        /\ UNCHANGED <<status, login, seat, open, capacity, promoted, started, raced, unasked,
                       unchecked, razed, cut, stranded>>
  BY DEF NextSession, studentsHistory
<1>1. txn' \in [Slots -> Txn] /\ \A u \in Slots : StudentTxnOK(txn[u])'
  BY <1>0, AtOnceStudents
<1>2. session' \in SessionIds
  BY <1>0, BoundAssumption DEF StudentsInv, StudentsTypeOK, SessionIds
<1>3. StudentsTypeOK'
  BY <1>0, <1>1, <1>2 DEF StudentsInv, StudentsTypeOK
<1>4. RoomIsKept' /\ SeatsAreInClasses'
  BY <1>0, SeatsUntouched
<1>5. LoginFollowsStanding' /\ ScoredIsRegistered'
  BY <1>0 DEF StudentsInv, LoginFollowsStanding, ScoredIsRegistered
<1> QED
  BY <1>1, <1>3, <1>4, <1>5 DEF StudentsInv

-----------------------------------------------------------------------------
(***************************************************************************)
(* The invariant holds at the start and every step keeps it.               *)
(***************************************************************************)
LEMMA StudentsInvAtStart == StudentsInit => StudentsInv
<1> SUFFICES ASSUME StudentsInit PROVE StudentsInv
  OBVIOUS
<1> USE DEF StudentsInit
<1>1. NoSeat \in Seat /\ \A c \in ClassIds : capacity[c] = 0
  BY DEF NoSeat, Seat
<1>2. 1 \in SessionIds
  BY BoundAssumption DEF SessionIds
<1>3. StudentsTypeOK
  BY <1>1, <1>2, ClosedStudentTxn, BoundAssumption, StudentsAssumption
     DEF StudentsTypeOK, Standings
<1>4. \A t \in Slots : StudentTxnOK(txn[t])
  BY ClosedStudentTxn
<1>5. \A k \in SessionIds, c \in ClassIds : Seated(k, c) = {}
  BY DEF Seated, NoSeat
<1>6. RoomIsKept
  BY <1>1 DEF RoomIsKept
<1>7. SeatsAreInClasses /\ LoginFollowsStanding /\ ScoredIsRegistered
  BY <1>5 DEF SeatsAreInClasses, LoginFollowsStanding, ScoredIsRegistered
<1> QED
  BY <1>3, <1>4, <1>6, <1>7 DEF StudentsInv

LEMMA StudentsInvKept == StudentsInv /\ [StudentsNext]_studentsVars => StudentsInv'
<1> SUFFICES ASSUME StudentsInv, [StudentsNext]_studentsVars PROVE StudentsInv'
  OBVIOUS
<1>1. ASSUME NEW t \in Slots, Begins(t) PROVE StudentsInv'
  <2>1. ASSUME NEW p \in Pupils, NEW a \in Actors, NEW c \in ClassIds, RegisterStudent(t, a, p, c)
        PROVE  StudentsInv'
    BY <2>1, RegisterStudentOpens
  <2>2. ASSUME NEW p \in Pupils, NEW a \in Actors, NEW c \in ClassIds,
               MoveStudent(t, a, p, c) \/ UpdateStudent(t, a, p, c)
        PROVE  StudentsInv'
    BY <2>2, PlacesOpens DEF MoveStudent, UpdateStudent
  <2>3. ASSUME NEW p \in Pupils, ApproveStudent(t, p) PROVE StudentsInv'
    BY <2>3, ApproveStudentOpens
  <2>4. ASSUME NEW p \in Pupils, NEW decided \in {"active", "suspended", "withdrawn", "expelled"},
               SetStudentStanding(t, p, decided)
        PROVE  StudentsInv'
    BY <2>4, SetStudentStandingOpens
  <2>5. ASSUME NEW c \in ClassIds, RemoveEmptyClass(t, c) PROVE StudentsInv'
    BY <2>5, RemoveEmptyClassOpens
  <2>6. ASSUME NEW a \in Actors, NEW p \in Pupils, NEW electives \in SUBSET (Subjects \ Core),
               SetStudentSubjects(t, a, p, electives)
        PROVE  StudentsInv'
    BY <2>6, SetStudentSubjectsOpens
  <2>7. ASSUME NEW a \in Actors, NEW c \in ClassIds, RegisterCoreForClass(t, a, c)
        PROVE  StudentsInv'
    BY <2>7, RegisterCoreOpens
  <2>8. ASSUME NEW p \in Pupils, NEW c \in ClassIds, NEW outcome \in {"none", "graduated"},
               TransferStudent(t, p, c, outcome)
        PROVE  StudentsInv'
    BY <2>8, TransferOpens
  <2>9. ASSUME NEW p \in Pupils, NEW x \in Subjects, EnterScore(t, p, x) PROVE StudentsInv'
    BY <2>9, EnterScoreOpens
  <2> QED
    BY <1>1, <2>1, <2>2, <2>3, <2>4, <2>5, <2>6, <2>7, <2>8, <2>9 DEF Begins
<1>2. ASSUME NEW t \in Slots, Ends(t) PROVE StudentsInv'
  BY <1>2, RegisterKeepsStudents, ApproveKeepsStudents, MoveKeepsStudents, StandingKeepsStudents,
     RemoveKeepsStudents, SubjectsKeepStudents, CoreKeepsStudents, TransferKeepsStudents,
     ScoreKeepsStudents, RollsBackKeepsStudents
     DEF Ends
<1>3. CASE UNCHANGED studentsVars
  <2>1. UNCHANGED <<status, login, seat, open, capacity, session, registered, scored, promoted, txn,
                    started, raced, unasked, unchecked, razed, cut, stranded>>
    BY <1>3 DEF studentsVars
  <2>2. StudentsTypeOK'
    BY <2>1 DEF StudentsInv, StudentsTypeOK
  <2>3. ASSUME NEW t \in Slots PROVE StudentTxnOK(txn[t])'
    <3>1. StudentTxnOK(txn[t])
      BY DEF StudentsInv
    <3> QED
      BY <2>1, <3>1 DEF StudentTxnOK, StudentTxnShape, StudentReadHolds, HasRoom, Seated
  <2>4. RoomIsKept' /\ SeatsAreInClasses' /\ LoginFollowsStanding' /\ ScoredIsRegistered'
    BY <2>1 DEF StudentsInv, RoomIsKept, SeatsAreInClasses, Seated, LoginFollowsStanding,
       ScoredIsRegistered
  <2> QED
    BY <2>2, <2>3, <2>4 DEF StudentsInv
<1> QED
  BY <1>1, <1>2, <1>3, CreateClassKeepsStudents, UpdateClassKeepsStudents,
     PlacementKeepsStudents, GraduationKeepsStudents, ReversalKeepsStudents,
     NextSessionKeepsStudents
     DEF StudentsNext, AtOnce

LEMMA StudentsInvHolds == StudentsSpec => []StudentsInv
BY StudentsInvAtStart, StudentsInvKept, PTL DEF StudentsSpec

(***************************************************************************)
(* Every value the pupils' module keeps, the reads of open transactions    *)
(* among them, is of its kind (src/lib/people/students.ts).                *)
(***************************************************************************)
THEOREM StudentsTypesHold == StudentsSpec => []StudentsTypeOK
<1>1. StudentsInv => StudentsTypeOK
  BY DEF StudentsInv
<1> QED
  BY <1>1, StudentsInvHolds, PTL

(***************************************************************************)
(* assertClassHasRoom counts without a lock, and updateClass sets a limit  *)
(* without counting: a class holds more than its capacity only because     *)
(* that was set below the pupils it had, or by pupils whose transaction    *)
(* was overtaken or whom an approval or a promotion seated, whatever the   *)
(* number of pupils, classes and transactions.                             *)
(***************************************************************************)
THEOREM RoomStaysKept == StudentsSpec => []RoomIsKept
<1>1. StudentsInv => RoomIsKept
  BY DEF StudentsInv
<1> QED
  BY <1>1, StudentsInvHolds, PTL

(***************************************************************************)
(* removeClass leaves nobody enrolled in nothing, except the pupils that   *)
(* an approval, the edit form or a promotion batch seats in a class        *)
(* removed before, or an overtaken transaction.                            *)
(***************************************************************************)
THEOREM SeatsStayInClasses == StudentsSpec => []SeatsAreInClasses
<1>1. StudentsInv => SeatsAreInClasses
  BY DEF StudentsInv
<1> QED
  BY <1>1, StudentsInvHolds, PTL

(***************************************************************************)
(* A pupil on the books or waiting to be can sign in, and one suspended    *)
(* or gone cannot, unless two decisions about the pupil met                *)
(* (setStudentStanding, approveStudent) or a reversal put back a pupil     *)
(* without a login.  Of graduates nothing is said: commitPromotion does    *)
(* not touch the login.                                                    *)
(***************************************************************************)
THEOREM LoginAlwaysFollows == StudentsSpec => []LoginFollowsStanding
<1>1. StudentsInv => LoginFollowsStanding
  BY DEF StudentsInv
<1> QED
  BY <1>1, StudentsInvHolds, PTL

(***************************************************************************)
(* setStudentSubjects keeps what has a score and the registration of a     *)
(* class only adds, while enterScore writes after it has read: a score     *)
(* without its registration needs an overtaken transaction.                *)
(***************************************************************************)
THEOREM ScoredStaysRegistered == StudentsSpec => []ScoredIsRegistered
<1>1. StudentsInv => ScoredIsRegistered
  BY DEF StudentsInv
<1> QED
  BY <1>1, StudentsInvHolds, PTL

(***************************************************************************)
(* What is left of the exceptions when no transaction commits that another *)
(* had overtaken, so that each may as well run alone (forSchool asks for   *)
(* no isolation level, and gets READ COMMITTED).                           *)
(***************************************************************************)
StudentsInTurn ==
    \/ \E t \in Slots : Begins(t) \/ (~txn[t].stale /\ Ends(t)) \/ RollsBack(t)
    \/ AtOnce

LEMMA StudentsInTurnStep ==
  ASSUME StudentsInv, raced = {}, razed = {}, [StudentsInTurn]_studentsVars
  PROVE  StudentsInv' /\ raced' = {} /\ razed' = {}
<1>1. [StudentsNext]_studentsVars
  BY DEF StudentsInTurn, StudentsNext, Ends
<1>2. raced' = raced /\ razed' = razed
  <2>1. ASSUME NEW t \in Slots, Begins(t) PROVE raced' = raced /\ razed' = razed
    <3>1. ASSUME NEW read, Opens(t, read) PROVE raced' = raced /\ razed' = razed
      BY <3>1 DEF Opens, studentsHistory
    <3>2. ASSUME NEW p \in Pupils, NEW a \in Actors, NEW c \in ClassIds,
                 \/ RegisterStudent(t, a, p, c) \/ MoveStudent(t, a, p, c)
                 \/ UpdateStudent(t, a, p, c)
          PROVE  raced' = raced /\ razed' = razed
      <4>1. CASE RegisterStudent(t, a, p, c)
        BY <3>1, <4>1, Zenon DEF RegisterStudent
      <4>2. CASE MoveStudent(t, a, p, c)
        BY <3>1, <4>2, Zenon DEF MoveStudent, Places
      <4>3. CASE UpdateStudent(t, a, p, c)
        BY <3>1, <4>3, Zenon DEF UpdateStudent, Places
      <4>. QED
        BY <3>2, <4>1, <4>2, <4>3
    <3>3. ASSUME NEW p \in Pupils, ApproveStudent(t, p) PROVE raced' = raced /\ razed' = razed
      BY <3>1, <3>3 DEF ApproveStudent
    <3>4. ASSUME NEW p \in Pupils, NEW decided, SetStudentStanding(t, p, decided)
          PROVE  raced' = raced /\ razed' = razed
      BY <3>1, <3>4 DEF SetStudentStanding
    <3>5. ASSUME NEW c \in ClassIds, RemoveEmptyClass(t, c)
          PROVE  raced' = raced /\ razed' = razed
      BY <3>1, <3>5 DEF RemoveEmptyClass
    <3>6. ASSUME NEW a \in Actors, NEW p \in Pupils, NEW electives,
                 SetStudentSubjects(t, a, p, electives)
          PROVE  raced' = raced /\ razed' = razed
      BY <3>1, <3>6 DEF SetStudentSubjects
    <3>7. ASSUME NEW a \in Actors, NEW c \in ClassIds, RegisterCoreForClass(t, a, c)
          PROVE  raced' = raced /\ razed' = razed
      BY <3>1, <3>7 DEF RegisterCoreForClass
    <3>8. ASSUME NEW p \in Pupils, NEW c \in ClassIds, NEW outcome,
                 TransferStudent(t, p, c, outcome)
          PROVE  raced' = raced /\ razed' = razed
      BY <3>1, <3>8, Zenon DEF TransferStudent
    <3>9. ASSUME NEW p \in Pupils, NEW x \in Subjects, EnterScore(t, p, x)
          PROVE  raced' = raced /\ razed' = razed
      BY <3>1, <3>9 DEF EnterScore
    <3>. QED
      BY <2>1, <3>2, <3>3, <3>4, <3>5, <3>6, <3>7, <3>8, <3>9 DEF Begins
  <2>2. ASSUME NEW t \in Slots, ~txn[t].stale, Ends(t) PROVE raced' = raced /\ razed' = razed
    <3>1. ASSUME NEW op, Commits(t, op) PROVE raced' = raced
      BY <2>2, <3>1 DEF Commits
    <3>. QED
      BY <2>2, <3>1 DEF Ends, RegisterCommits, ApproveCommits, MoveCommits, StandingCommits,
         RemoveCommits, SubjectsCommit, CoreCommits, TransferCommits, ScoreCommits, RollsBack,
         studentsHistory
  <2>3. ASSUME NEW t \in Slots, RollsBack(t) PROVE raced' = raced /\ razed' = razed
    BY <2>3 DEF RollsBack, studentsHistory
  <2>4. CASE AtOnce
    BY <2>4 DEF AtOnce, CreateClass, UpdateClass, CommitPlacement, CommitGraduation,
       CommitsBatch, ReversePromotion, NextSession, studentsHistory
  <2>5. CASE UNCHANGED studentsVars
    BY <2>5 DEF studentsVars
  <2>. QED
    BY <2>1, <2>2, <2>3, <2>4, <2>5 DEF StudentsInTurn
<1>. QED
  BY <1>1, <1>2, StudentsInvKept

(***************************************************************************)
(* Then a class is fuller than its limit only if that was set below the    *)
(* pupils it had, or by those an approval or a promotion seated; an active *)
(* seat outside a class is an approval's, the edit form's or a batch's;    *)
(* everybody on the books can sign in but for those a reversal put back    *)
(* without a login, nobody suspended or gone can; and what has a score is  *)
(* registered.                                                             *)
(***************************************************************************)
THEOREM PupilsInTurnAreInOrder ==
    StudentsInit /\ [][StudentsInTurn]_studentsVars =>
        [](/\ \A k \in SessionIds, c \in ClassIds \ cut :
                capacity[c] > 0 => Cardinality(Seated(k, c) \ unasked) <= capacity[c]
           /\ \A k \in SessionIds, c \in ClassIds \ open : Seated(k, c) \subseteq unchecked
           /\ \A p \in Pupils \ stranded :
                status[p] \in {"active", "pending_approval"} => login[p]
           /\ \A p \in Pupils :
                status[p] \in {"suspended", "withdrawn", "expelled"} => ~login[p]
           /\ \A p \in Pupils : scored[p] \subseteq registered[p])
<1> DEFINE Ordered == StudentsInv /\ raced = {} /\ razed = {}
<1>1. StudentsInit => Ordered
  BY StudentsInvAtStart DEF StudentsInit
<1>2. Ordered /\ [StudentsInTurn]_studentsVars => Ordered'
  BY StudentsInTurnStep
<1>3. Ordered =>
        /\ \A k \in SessionIds, c \in ClassIds \ cut :
             capacity[c] > 0 => Cardinality(Seated(k, c) \ unasked) <= capacity[c]
        /\ \A k \in SessionIds, c \in ClassIds \ open : Seated(k, c) \subseteq unchecked
        /\ \A p \in Pupils \ stranded : status[p] \in {"active", "pending_approval"} => login[p]
        /\ \A p \in Pupils : status[p] \in {"suspended", "withdrawn", "expelled"} => ~login[p]
        /\ \A p \in Pupils : scored[p] \subseteq registered[p]
  <2> HAVE Ordered
  <2>1. raced \union unasked = unasked /\ open \union razed = open /\ raced \union unchecked = unchecked
    OBVIOUS
  <2>. QED
    BY <2>1 DEF StudentsInv, RoomIsKept, SeatsAreInClasses, LoginFollowsStanding, ScoredIsRegistered
<1>. QED
  BY <1>1, <1>2, <1>3, PTL
=============================================================================
