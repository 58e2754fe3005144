---------------------------- MODULE PromotionRules ----------------------------
(***************************************************************************)
(* The pure part of src/lib/promotion/promotion.ts: what the rules make of *)
(* a student's published year, and which class the outcome leads to.       *)
(*                                                                         *)
(* The year is summarised by its annual average, the subjects passed and   *)
(* offered, and whether a compulsory subject was failed; how the averages  *)
(* are taken over terms and subjects is left out.                          *)
(***************************************************************************)
EXTENDS Naturals, FiniteSets

CONSTANTS
    TopLevel,       \* levels 1..TopLevel in level_order
    Classes         \* the school's classes, archived ones included

ClassType == [level : 1..TopLevel, arm : Nat, department : Nat]

ASSUME LevelAssumption == TopLevel \in Nat \ {0}
ASSUME ClassAssumption == Classes \subseteq ClassType

\* A missing class_id.
NoClass == [level |-> 0, arm |-> 0, department |-> 0]

Rules == [promote : Nat, trial : Nat, minPassed : Nat, requireCore : BOOLEAN]
Year == [average : Nat, passed : Nat, offered : Nat, coreFailed : BOOLEAN]

Outcomes == {"promote", "trial", "repeat", "graduate"}

-----------------------------------------------------------------------------
\* The pass threshold never asks for more subjects than the student offers.
Required(rules, year) ==
    LET offered == IF year.offered = 0 THEN 1 ELSE year.offered
    IN  IF rules.minPassed <= offered THEN rules.minPassed ELSE offered

FailedCore(rules, year) == rules.requireCore /\ year.coreFailed

JudgeFinalist(rules, year) ==
    IF year.average >= rules.trial /\ ~FailedCore(rules, year)
    THEN "graduate" ELSE "repeat"

JudgeOthers(rules, year) ==
    CASE FailedCore(rules, year) -> "repeat"
      [] ~FailedCore(rules, year) /\ year.average >= rules.promote
            /\ year.passed >= Required(rules, year) -> "promote"
      [] OTHER -> IF year.average >= rules.trial THEN "trial" ELSE "repeat"

\* evaluateLevel on one student: nothing published, nothing decided.
Judge(rules, year, level) ==
    IF year.offered = 0 THEN "unresolved"
    ELSE IF level = TopLevel THEN JudgeFinalist(rules, year)
    ELSE JudgeOthers(rules, year)

-----------------------------------------------------------------------------
FirstArm(classes) == {c \in classes : \A d \in classes : c.arm <= d.arm}

(***************************************************************************)
(* targetClass: the same arm and department, else the same arm, else the   *)
(* first arm; NoClass when the level has no active class.  A set: classes  *)
(* equal in arm come in any order.  Arm 0 is a class without one.          *)
(***************************************************************************)
TargetClass(active, level, from) ==
    LET offered == {c \in active : c.level = level}
        sameArm == {c \in offered : c.arm = from.arm /\ from.arm # 0}
        exact == {c \in sameArm : c.department = from.department}
    IN  CASE offered = {} -> {NoClass}
          [] offered # {} /\ exact # {} -> exact
          [] offered # {} /\ exact = {} /\ sameArm # {} -> sameArm
          [] OTHER -> FirstArm(offered)

NextClass(active, from) ==
    IF from.level = TopLevel THEN {NoClass} ELSE TargetClass(active, from.level + 1, from)

\* Where a proposal sends the student.
Proposed(active, outcome, from) ==
    CASE outcome \in {"promote", "trial"} -> NextClass(active, from)
      [] outcome = "repeat" -> {from}
      [] OTHER -> {NoClass}

\* Mutant: a class already on the decision is kept whatever the outcome.
DestinationKept(active, outcome, from, to) ==
    IF to # NoClass THEN {to} ELSE Proposed(active, outcome, from)

\* destinationFor: a class already on the decision is kept for promote and trial.
DestinationFor(active, outcome, from, to) ==
    IF outcome \in {"promote", "trial"} /\ to # NoClass THEN {to}
    ELSE Proposed(active, outcome, from)
=============================================================================
