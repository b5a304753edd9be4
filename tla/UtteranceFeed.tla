--------------------------- MODULE UtteranceFeed ---------------------------
(***************************************************************************)
(* What a segmenter promises the recogniser behind it: audio comes in       *)
(* utterances, every frame at most once and in the order it was heard. An   *)
(* utterance begins with the newest frame and what led up to it, loses      *)
(* nothing while it lasts, and is followed by an end marker; each is         *)
(* announced to the client once when it begins and once when it ends.       *)
(***************************************************************************)
EXTENDS Naturals, Sequences, SequencesExt

CONSTANT End  \* the marker after an utterance

VARIABLES
    heard,  \* number of frames heard: the n-th frame is named n
    told,   \* frames and end markers handed on, in order
    said,   \* events sent to the client
    open    \* an utterance is open

vars == <<heard, told, said, open>>

Init == heard = 0 /\ told = <<>> /\ said = <<>> /\ open = FALSE

\* The newest frame handed on, 0 before the first.
Newest == LET frames == {i \in DOMAIN told : told[i] # End}
          IN IF frames = {} THEN 0 ELSE told[Max(frames)]

\* What is handed on beyond "told" in this step.
Batch == SubSeq(told', Len(told) + 1, Len(told'))

\* Frames from a to b, none left out.
Run(a, b) == [i \in 1..(b - a + 1) |-> a + i - 1]

Hold ==
    /\ heard' = heard + 1
    /\ UNCHANGED <<told, said, open>>

Begin ==
    /\ ~open /\ open'
    /\ heard' = heard + 1
    /\ IsPrefix(told, told') /\ Batch # <<>>
    /\ \A i \in DOMAIN Batch : Batch[i] \in (Newest + 1)..heard'
    /\ \A i \in 1..(Len(Batch) - 1) : Batch[i] < Batch[i + 1]
    /\ Batch[Len(Batch)] = heard'
    /\ said' = Append(said, "speaking")

Continue ==
    /\ open /\ open'
    /\ heard' = heard + 1
    /\ told' = told \o Run(Newest + 1, heard')
    /\ UNCHANGED said

Finish ==
    /\ open /\ ~open'
    /\ heard' = heard + 1
    /\ \E upTo \in Newest..heard' : told' = Append(told \o Run(Newest + 1, upTo), End)
    /\ said' = said \o <<"silence", "eou">>

Next == Hold \/ Begin \/ Continue \/ Finish

Spec == Init /\ [][Next]_vars
=============================================================================
