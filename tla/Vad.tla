-------------------------------- MODULE Vad --------------------------------
(***************************************************************************)
(* The segmenter of app/media/processor/vad.go. Every frame of the caller   *)
(* goes through Process, under v.mu, so a frame is one step; its length, the *)
(* verdict of the energy gate and that of the Silero scorer are inputs. What *)
(* is handed to the recogniser and said to the client is kept as history.    *)
(* A run of mode energy, or without a scorer, is one in which every score    *)
(* fails: a failed score leaves the decision to the gate.                    *)
(***************************************************************************)
EXTENDS Integers, Sequences, SequencesExt

CONSTANTS
    Lengths,         \* lengths a frame may have, in ms
    PreRoll,         \* speechPadding: audio kept from before the start
    SilencePadding,  \* audio held before an end is decided
    TailPadding,     \* audio of the end that is handed on
    MaxSegment,      \* maxBufferDurationSecs: an utterance is cut at this length
    End,             \* the SegmentEnd packet
    MaxFrames        \* bound: frames heard

FrameMs == 20
StartWindow == 3 * FrameMs
EndWindow == Max({Min({200, SilencePadding}), 3 * FrameMs})

ASSUME VadAssumption ==
    /\ Lengths \subseteq Nat \ {0} /\ End \notin Nat
    /\ {PreRoll, SilencePadding, TailPadding} \subseteq Nat \ {0}
    /\ MaxSegment \in Nat /\ MaxSegment > StartWindow /\ MaxFrames \in Nat

VARIABLES
    v,      \* the fields of VAD
    heard,  \* history: frames heard so far, the n-th is named n
    told,   \* history: packets handed on, a frame's name or End
    said,   \* history: events sent
    contrary \* history: for how many ms the gate has contradicted the state

vars == <<v, heard, told, said, contrary>>

\* What the energy gate may find of a frame, and the scorer of a stretch of audio.
Gate == BOOLEAN
Scores == {"speech", "silence", "failed"}

-----------------------------------------------------------------------------
(* Buffers of audio and windows of activity: sequences of entries that have  *)
(* a length, the oldest of which are dropped when they exceed a limit.       *)

TotalMs(entries) == FoldLeft(LAMBDA ms, e : ms + e.ms, 0, entries)

ActiveMs(window) ==
    FoldLeft(LAMBDA ms, e : ms + (IF e.active THEN e.ms ELSE 0), 0, window)

\* Faulty variant: drops as soon as the limit is reached.
PushBelow(entries, e, limit) ==
    LET within == {kept \in Suffixes(Append(entries, e)) : kept = <<>> \/ TotalMs(kept) < limit}
    IN CHOOSE kept \in within : \A other \in within : Len(other) <= Len(kept)

Push(entries, e, limit) ==
    LET within == {kept \in Suffixes(Append(entries, e)) : TotalMs(kept) <= limit}
    IN CHOOSE kept \in within : \A other \in within : Len(other) <= Len(kept)

PushActivity(window, f, active, limit) == Push(window, [ms |-> f.ms, active |-> active], limit)

AppendAll(entries, others, limit) ==
    FoldLeft(LAMBDA kept, e : Push(kept, e, limit), entries, others)

\* The frames of a buffer up to the first that makes them last "ms", or all of them.
PrefixFrames(frames, ms) ==
    LET enough == {p \in Prefixes(frames) : TotalMs(p) >= ms} \cup {frames}
    IN CHOOSE p \in enough : \A other \in enough : Len(p) <= Len(other)

\* A full window has a share of activity of at least, at most, a percentage.
FullAtLeast(window, limit, percent) ==
    TotalMs(window) >= limit /\ 100 * ActiveMs(window) >= percent * TotalMs(window)
FullAtMost(window, limit, percent) ==
    TotalMs(window) >= limit /\ 100 * ActiveMs(window) <= percent * TotalMs(window)

EndsLikely(w) == FullAtMost(w.speechActivity, EndWindow, 20)
Resumes(w) == FullAtLeast(w.speechActivity, EndWindow, 40)

-----------------------------------------------------------------------------
(* What a handler returns: the fields afterwards, packets and events.        *)

Quiet(w) == [vad |-> w, packets |-> <<>>, events |-> <<>>]

Names(frames) == [i \in DOMAIN frames |-> frames[i].n]

Idle == [state |-> "idle", preRoll |-> <<>>, startBuffer |-> <<>>, tailBuffer |-> <<>>,
         startActivity |-> <<>>, speechActivity |-> <<>>, segmentMs |-> 0]

\* The utterance ends: marker, events, and every field back to its beginning.
EndSegment(packets) ==
    [vad |-> Idle, packets |-> Append(packets, End), events |-> <<"silence", "eou">>]

\* A start that is no start: its audio may still lead up to the next one.
FalseStart(w) ==
    [w EXCEPT !.state = "idle", !.preRoll = AppendAll(@, w.startBuffer, PreRoll),
              !.startBuffer = <<>>, !.startActivity = <<>>]

MaybeConfirmStart(w, score) ==
    IF TotalMs(w.startBuffer) < StartWindow \/ TotalMs(w.startActivity) < StartWindow
    THEN Quiet(w)
    ELSE IF ~FullAtLeast(w.startActivity, StartWindow, 60)
    THEN Quiet(IF ActiveMs(w.startActivity) = 0 THEN FalseStart(w) ELSE w)
    ELSE IF score = "silence"
    THEN Quiet(FalseStart(w))
    ELSE [vad     |-> [w EXCEPT !.state = "speaking", !.segmentMs = TotalMs(w.startBuffer),
                                !.speechActivity = w.startActivity, !.preRoll = <<>>,
                                !.startBuffer = <<>>, !.startActivity = <<>>],
          packets |-> Names(w.preRoll \o w.startBuffer),
          events  |-> <<"speaking">>]

MaybeForceEnd(w, packets) ==
    IF MaxSegment > 0 /\ w.segmentMs >= MaxSegment
    THEN EndSegment(packets)
    ELSE [vad |-> w, packets |-> packets, events |-> <<>>]

\* Back from a possible end: the audio that was held is part of the utterance.
Speaking(w) ==
    [w EXCEPT !.state = "speaking", !.segmentMs = @ + TotalMs(w.tailBuffer), !.tailBuffer = <<>>]

\* Faulty variant: a rejected end forgets the audio that was held.
ConfirmEndForgets(w, score) ==
    IF score = "speech"
    THEN Quiet(Speaking(w))
    ELSE EndSegment(Names(PrefixFrames(w.tailBuffer, TailPadding)))

ConfirmEnd(w, score) ==
    IF score = "speech"
    THEN [vad |-> Speaking(w), packets |-> Names(w.tailBuffer), events |-> <<>>]
    ELSE EndSegment(Names(PrefixFrames(w.tailBuffer, TailPadding)))

-----------------------------------------------------------------------------
(* The handler of each state, for a frame f that the gate finds active or not *)

\* Faulty variant: audio from before a start is kept without limit.
ProcessIdleUnlimited(f, active, score) ==
    IF ~active
    THEN Quiet([v EXCEPT !.preRoll = Append(@, f)])
    ELSE MaybeConfirmStart(
            [v EXCEPT !.state = "candidateStart", !.startBuffer = Push(<<>>, f, StartWindow),
                      !.startActivity = PushActivity(<<>>, f, active, StartWindow)],
            score)

ProcessIdle(f, active, score) ==
    IF ~active
    THEN Quiet([v EXCEPT !.preRoll = Push(@, f, PreRoll)])
    ELSE MaybeConfirmStart(
            [v EXCEPT !.state = "candidateStart",
                      !.startBuffer = Push(<<>>, f, StartWindow),
                      !.startActivity = PushActivity(<<>>, f, active, StartWindow)],
            score)

ProcessCandidateStart(f, active, score) ==
    MaybeConfirmStart(
        [v EXCEPT !.startBuffer = Push(@, f, StartWindow),
                  !.startActivity = PushActivity(@, f, active, StartWindow)],
        score)

\* The window of activity of an open utterance, with the newest frame.
Observed(f, active) ==
    [v EXCEPT !.speechActivity = PushActivity(@, f, active, EndWindow)]

ProcessSpeaking(f, active) ==
    LET w == Observed(f, active)
    IN IF EndsLikely(w)
       THEN Quiet([w EXCEPT !.state = "candidateEnd", !.tailBuffer = <<f>>])
       ELSE MaybeForceEnd([w EXCEPT !.segmentMs = @ + f.ms], <<f.n>>)

\* Faulty variant: speech that resumes is not measured against the maximum.
ProcessCandidateEndUncut(f, active, score) ==
    LET w == [Observed(f, active) EXCEPT !.tailBuffer = Append(@, f)]
    IN IF Resumes(w) THEN [vad |-> Speaking(w), packets |-> Names(w.tailBuffer), events |-> <<>>]
       ELSE IF TotalMs(w.tailBuffer) < SilencePadding \/ ~EndsLikely(w) THEN Quiet(w)
       ELSE ConfirmEnd(w, score)

ProcessCandidateEnd(f, active, score) ==
    LET w == [Observed(f, active) EXCEPT !.tailBuffer = Append(@, f)]
    IN IF Resumes(w) THEN MaybeForceEnd(Speaking(w), Names(w.tailBuffer))
       ELSE IF TotalMs(w.tailBuffer) < SilencePadding \/ ~EndsLikely(w) THEN Quiet(w)
       ELSE ConfirmEnd(w, score)

-----------------------------------------------------------------------------
(* Steps *)

Init ==
    /\ v = Idle
    /\ heard = 0 /\ told = <<>> /\ said = <<>> /\ contrary = 0

\* A frame of the expected length on which the gate disagrees with the state: silence in
\* an open utterance, activity outside one; neither ends the other, nor does the scorer.
ContraryFrame(f, active, r) ==
    /\ f.ms = FrameMs
    /\ <<active, v.state, r.vad.state>> \in
           {<<TRUE, "idle", "candidateStart">>, <<TRUE, "candidateStart", "candidateStart">>,
            <<FALSE, "speaking", "speaking">>, <<FALSE, "speaking", "candidateEnd">>,
            <<FALSE, "candidateEnd", "candidateEnd">>}

\* A frame is heard, and its handler returns r.
Hear(f, active, r) ==
    /\ heard < MaxFrames
    /\ heard' = f.n
    /\ v' = r.vad
    /\ told' = told \o r.packets
    /\ said' = said \o r.events
    /\ contrary' = IF ContraryFrame(f, active, r) THEN contrary + f.ms ELSE 0

Next ==
    \E ms \in Lengths, active \in Gate, score \in Scores :
        LET f == [n |-> heard + 1, ms |-> ms]
        IN \/ v.state = "idle" /\ Hear(f, active, ProcessIdle(f, active, score))
           \/ /\ v.state = "candidateStart"
              /\ Hear(f, active, ProcessCandidateStart(f, active, score))
           \/ v.state = "speaking" /\ Hear(f, active, ProcessSpeaking(f, active))
           \/ v.state = "candidateEnd" /\ Hear(f, active, ProcessCandidateEnd(f, active, score))

Spec == Init /\ [][Next]_vars

-----------------------------------------------------------------------------
(* Properties *)

Frames == [n: Nat, ms: Lengths]
Activities == [ms: Lengths, active: Gate]

\* Types of the segmenter's fields, and the limits of its buffers.
TypeOK ==
    /\ v \in [state: {"idle", "candidateStart", "speaking", "candidateEnd"},
              preRoll: Seq(Frames), startBuffer: Seq(Frames), tailBuffer: Seq(Frames),
              startActivity: Seq(Activities), speechActivity: Seq(Activities), segmentMs: Nat]
    /\ TotalMs(v.preRoll) <= PreRoll /\ TotalMs(v.startBuffer) <= StartWindow
    /\ heard \in 0..MaxFrames /\ told \in Seq(Nat \cup {End})
    /\ said \in Seq({"speaking", "silence", "eou"}) /\ contrary \in Nat

Open == v.state \in {"speaking", "candidateEnd"}

\* Seen from the recogniser, the segmenter is an UtteranceFeed: whatever the lengths,
\* the gate and the scorer say, frames come once and in order, an utterance loses none
\* of its own between start and end, and starts and ends alternate.
Feed == INSTANCE UtteranceFeed WITH open <- Open
FeedsUtterances == Feed!Spec

\* The segmenter follows the gate. Whatever was heard before, three active frames of 20 ms
\* begin an utterance and silence in such frames ends it after the end window and the
\* padding, unless the scorer disagrees: the windows fill up exactly again. (They do when such
\* frames make up the end window; with a padding of 70 ms silence ends nothing.)
GateIsFollowed ==
    contrary < IF Open THEN EndWindow + SilencePadding - FrameMs ELSE StartWindow

\* An utterance that goes on beyond the maximum is one whose end the scorer rejected, with
\* a window of silence behind it: everything else that prolongs an utterance cuts it.
SegmentIsCut == v.state = "speaking" /\ v.segmentMs >= MaxSegment => EndsLikely(v)
=============================================================================
