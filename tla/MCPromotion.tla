----------------------------- MODULE MCPromotion -----------------------------
\* Two levels: the lower with two arms, the upper with one.
EXTENDS Promotion, TLC

Class(level, arm) == [level |-> level, arm |-> arm, department |-> 0]
MCClasses == {Class(1, 1), Class(1, 2), Class(2, 1)}

MCDefaultRules == [promote |-> 45, trial |-> 40, minPassed |-> 6, requireCore |-> TRUE]
MCRuleSets == {MCDefaultRules, [MCDefaultRules EXCEPT !.promote = 75]}

\* Five subjects, all passed at 70; six of which four were passed, averaging 42.
Good == [average |-> 70, passed |-> 5, offered |-> 5, coreFailed |-> FALSE]
Weak == [average |-> 42, passed |-> 4, offered |-> 6, coreFailed |-> TRUE]
MCYears == {Unpublished, Good, Weak}

Symmetry == Permutations(Students) \union Permutations(Sessions)
=============================================================================
