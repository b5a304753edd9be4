--------------------------- MODULE MCCallHandler ---------------------------
(* CallHandler with a few calls and kill requests. *)
EXTENDS CallHandler, TLC

CONSTANTS c1, c2, k1, k2, idA, idB

MCTexts == {"killed", "autohangup", "system", "error"}
\* A client may give the words of a kill as its own.
MCReasons == {"", "killed"}
MCInitiators == {"", "system"}

\* Calls differ in nothing but what happens to them, ids in nothing at all.
CallSymmetry == Permutations(Calls) \cup Permutations(Ids)
=============================================================================
