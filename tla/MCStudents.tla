----------------------------- MODULE MCStudents -----------------------------
\* Two classes of different stages, either may be limited to one pupil.
EXTENDS Students, TLC

CONSTANTS C1, C2, Maths, Junior, Senior

MCOffered == (C1 :> {Maths, Junior} @@ C2 :> {Maths, Senior})

\* The stages do not differ but in their names.
Stages == [x \in {C1, C2, Junior, Senior} |->
              CASE x = C1 -> C2 [] x = C2 -> C1 [] x = Junior -> Senior [] x = Senior -> Junior]
Symmetry == Permutations(Pupils) \union Permutations(Slots) \union {Stages}
=============================================================================
