----------------------------- MODULE MCStaffing -----------------------------
\* The principal and two others; one class, and one subject in it.
EXTENDS Staffing, TLC

Symmetry == Permutations(Staff \ {First}) \union Permutations(Slots)
=============================================================================
