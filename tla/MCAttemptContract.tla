-------------------------- MODULE MCAttemptContract --------------------------
(* Instances of AttemptContract for TLC. *)
EXTENDS AttemptContract, TLC

CONSTANTS q1, q2, A, B

MCQuestions == {q1, q2}
MCOptions == {A, B}
MCObjective == {q1}
MCKey == q1 :> A

\* Students are interchangeable.
Symmetry == Permutations(Students)
=============================================================================
