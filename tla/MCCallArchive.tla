---------------------------- MODULE MCCallArchive ----------------------------
EXTENDS CallArchive

CONSTANTS c1, c2, i1, i2

TwoCalls == {c1, c2}
TwoIds == {i1, i2}
LongCall == {c1}

\* One call with something to dump, and a short one that may have its id.
OneLong == [c \in TwoCalls |-> IF c = c1 THEN 1 ELSE 0]
TwoEvents == [c \in TwoCalls |-> IF c = c1 THEN 2 ELSE 0]

\* Nothing tells the ids apart.
Symmetry == Permutations(TwoIds)
=============================================================================
