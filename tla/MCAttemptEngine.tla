--------------------------- MODULE MCAttemptEngine ---------------------------
(* Instances of AttemptEngine for TLC. *)
EXTENDS AttemptEngine, TLC

CONSTANTS q1, q2, A, B

MCQuestions == {q1, q2}
MCOptions == {A, B}
MCOneOption == {A}
MCObjective == {q1}
MCKey == q1 :> A

\* Server instances are interchangeable, and so are students.
Symmetry == Permutations(Instances) \union Permutations(Students)
=============================================================================
