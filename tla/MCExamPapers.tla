---------------------------- MODULE MCExamPapers ----------------------------
\* An examination of typed papers, and a practice series of either kind.
EXTENDS ExamPapers, TLC

MCKind == [s \in Series |-> IF s = "practice" THEN "practice" ELSE "examination"]
MCTerm == [s \in Series |-> 1]
MCMode == [s \in Series |-> IF s = "practice" THEN "mixed" ELSE "cbt"]
MCPerStudent == [s \in Series |-> IF s = "practice" THEN 2 ELSE 1]
MCQuota == [h \in Halves |-> 1]

Symmetry == Permutations(Officers)
=============================================================================
