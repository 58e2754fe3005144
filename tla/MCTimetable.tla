----------------------------- MODULE MCTimetable -----------------------------
(***************************************************************************)
(* Three papers: two of the first term's examination for one level, and    *)
(* one of the next examination for the same level.  A tick is two hours:   *)
(* papers of one take their slot only, papers of three reach into the      *)
(* afternoon.                                                              *)
(***************************************************************************)
EXTENDS Timetable, TLC

CONSTANTS o1, o2, t1, t2, first, second

MCSeriesOf == [p \in Papers |-> IF p = 3 THEN second ELSE first]
MCLevelOf == [p \in Papers |-> 1]

\* One of the two teaches the first paper's subject, and the papers are short.
MCInit ==
    /\ TimetableInit
    /\ teaches = {<<t1, 1>>}
    /\ length = [p \in Papers |-> 1]

MCSpec == MCInit /\ [][TimetableNext]_timetableVars

Symmetry == Permutations(Officers)
=============================================================================
