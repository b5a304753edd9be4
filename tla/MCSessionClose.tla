-------------------------- MODULE MCSessionClose --------------------------
(* SessionClose with two or three goroutines and a handful of texts. *)
EXTENDS SessionClose, TLC

CONSTANTS g1, g2, g3

MCTexts == {"killed", "autohangup", "system"}
Symmetry == Permutations(Routines)
=============================================================================
