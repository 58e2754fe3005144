------------------------------ MODULE MCResults ------------------------------
(* The constants of the runs of Results. *)
EXTENDS Results

MCPolicies == {[tie |-> "competition", breaker |-> "exam", rankIncomplete |-> FALSE]}

\* Everything is marked.
MCStarts == {[ca |-> 1, exam |-> 1]}
==============================================================================
