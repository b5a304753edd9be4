------------------------------- MODULE MCVad -------------------------------
(* Vad for frames of 20 ms, of 30 ms and of half a second. *)
EXTENDS Vad
MCLengths == {20, 30, 500}
=============================================================================
