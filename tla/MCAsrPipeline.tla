--------------------------- MODULE MCAsrPipeline ---------------------------
(* AsrPipeline with one or two readers and two sessions. *)
EXTENDS AsrPipeline

CONSTANTS r1, r2

TwoSessions == {1, 2}

\* The first reader pushes more than the second, to keep two readers affordable.
TwoAndOne == [r \in Readers |-> IF r = r1 THEN 2 ELSE 1]
ThreeFrames == [r \in Readers |-> 3]
=============================================================================
