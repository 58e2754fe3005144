----------------------------- MODULE MCAccounts -----------------------------
EXTENDS Accounts, TLC

\* Requests do not differ but in when they come.
Symmetry == Permutations(Requests)
=============================================================================
