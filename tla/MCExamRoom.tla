------------------------------ MODULE MCExamRoom ------------------------------
(* The instances of ExamRoom for TLC. *)
EXTENDS ExamRoom
===============================================================================
