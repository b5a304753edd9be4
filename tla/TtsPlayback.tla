----------------------------- MODULE TtsPlayback -----------------------------
(***************************************************************************)
(* Synthesis in a call: the negotiation that gives a WebRTC call its         *)
(* outbound track, the command loop that serves tts commands to their end    *)
(* (CommandRouter.Route, PlayTTS), the synthesis streams they read from, and *)
(* the goroutines of each stream: the SDK that calls back and the one that   *)
(* waits for its completion. The SDK and the peer connection are external:   *)
(* the SDK calls back from one goroutine and then signals the outcome; peer  *)
(* and SDK may fail at any time. Events of a command are its verdict.        *)
(***************************************************************************)
EXTENDS Naturals, Sequences

CONSTANTS
    NumCommands,  \* bound: tts commands of the call
    Capacity,     \* chunks a stream buffers (32 in the code)
    MaxChunks     \* bound: chunks the service makes of each text

ASSUME PlaybackAssumption ==
    /\ Capacity \in Nat \ {0} /\ NumCommands \in Nat
    /\ MaxChunks \in [1..NumCommands -> Nat]

\* A command is known by its place in the order they are served.
Commands == 1..NumCommands

VARIABLES
    track,    \* the WebRTC track: stage of its negotiation, peer connection
    loop,     \* the command loop: program point and command
    current,  \* the session's current track, 0 for none
    stream,   \* aliyunStream, or mockStream, of each command
    sdk,      \* the service's side of each synthesis, and the ready channel
    waiter,   \* waitCompletion of each stream
    played,   \* chunks the loop took, in order
    verdict   \* history: what the client was told of each command

vars == <<track, loop, current, stream, sdk, waiter, played, verdict>>

\* BuildAnswer: engine, peer, outbound track, transceiver, sender, remote description,
\* answer, local description, and the wait for candidates, which may time out.
Stages == 9
PeerStage == 2

-----------------------------------------------------------------------------
(* Negotiation and end of the call *)

Negotiated ==
    /\ loop.pc = "negotiate"
    /\ track' = [stage |-> track.stage + 1,
                 peer  |-> IF track.stage + 1 >= PeerStage THEN "open" ELSE "none"]
    /\ loop' = [loop EXCEPT !.pc = IF track.stage + 1 = Stages THEN "ready" ELSE "negotiate"]
    /\ UNCHANGED <<current, stream, sdk, waiter, played, verdict>>

\* Any stage may fail; the handler never sees the track, so BuildAnswer closes the peer.
NegotiationFails ==
    /\ loop.pc = "negotiate"
    /\ track' = [track EXCEPT !.peer = IF @ = "open" THEN "closed" ELSE @]
    /\ loop' = [loop EXCEPT !.pc = "ended"]
    /\ UNCHANGED <<current, stream, sdk, waiter, played, verdict>>

\* The loop ends (no more commands, or a bad candidate), and the clean-up closes the track.
EndCall ==
    /\ loop.pc \in {"ready", "hangup"}
    /\ track' = [track EXCEPT !.peer = IF @ = "open" THEN "closed" ELSE @]
    /\ loop' = [loop EXCEPT !.pc = "ended"]
    /\ UNCHANGED <<current, stream, sdk, waiter, played, verdict>>

-----------------------------------------------------------------------------
(* A tts command: StartTrack and StartSynthesis *)

Goto(from, to) == loop.pc = from /\ loop' = [loop EXCEPT !.pc = to]

Serve ==
    /\ loop.n + 1 \in Commands
    /\ loop.pc = "ready" /\ loop' = [pc |-> "start", n |-> loop.n + 1]
    /\ current' = loop.n + 1
    /\ UNCHANGED <<track, stream, sdk, waiter, played, verdict>>

\* The mock provider, or the cloud's without complete settings: one chunk, no goroutine.
StartMock ==
    /\ Goto("start", "recv")
    /\ stream' = [stream EXCEPT ![loop.n] = [@ EXCEPT !.kind = "mock", !.buf = <<1>>, !.done = TRUE]]
    /\ UNCHANGED <<track, current, sdk, waiter, played, verdict>>

StartSynthesis ==
    /\ Goto("start", "recv")
    /\ stream' = [stream EXCEPT ![loop.n].kind = "cloud", ![loop.n].client = "running"]
    /\ sdk' = [sdk EXCEPT ![loop.n].pc = "running"]
    /\ waiter' = [waiter EXCEPT ![loop.n] = "waiting"]
    /\ UNCHANGED <<track, current, played, verdict>>

\* Bad settings, no client, or a client that does not start and is shut down again.
StartFails ==
    /\ Goto("start", "reply")
    /\ \E client \in {"none", "shutdown"} : stream' = [stream EXCEPT ![loop.n].client = client]
    /\ verdict' = [verdict EXCEPT ![loop.n] = "error"]
    /\ UNCHANGED <<track, current, sdk, waiter, played>>

\* play and interrupt start nothing that lasts: both leave the session without a track.
Play ==
    /\ \E autohangup \in BOOLEAN : Goto("ready", IF autohangup THEN "hangup" ELSE "ready")
    /\ current' = 0
    /\ UNCHANGED <<track, stream, sdk, waiter, played, verdict>>

Interrupt ==
    /\ loop.pc = "ready" /\ current' = 0
    /\ UNCHANGED <<track, loop, stream, sdk, waiter, played, verdict>>

-----------------------------------------------------------------------------
(* PlayTTS, or synthesizeTTS for a call without a track *)

\* A chunk is there: both selects of Recv take it, the outer one even when done is closed.
TakeChunk ==
    /\ Goto("recv", IF track.peer = "open" THEN "write" ELSE "recv")
    /\ stream[loop.n].buf # <<>>
    /\ played' = [played EXCEPT ![loop.n] = Append(@, Head(stream[loop.n].buf))]
    /\ stream' = [stream EXCEPT ![loop.n].buf = Tail(@)]
    /\ UNCHANGED <<track, current, sdk, waiter, verdict>>

\* A faulty variant: the end of the stream is taken before what it holds.
RecvDoneUndrained ==
    /\ Goto("recv", "verdict") /\ stream[loop.n].done
    /\ UNCHANGED <<track, current, stream, sdk, waiter, played, verdict>>

\* Nothing is left and the stream is done.
RecvDone ==
    /\ Goto("recv", "verdict")
    /\ stream[loop.n].buf = <<>> /\ stream[loop.n].done
    /\ UNCHANGED <<track, current, stream, sdk, waiter, played, verdict>>

\* The error, or io.EOF, which is success.
RecvVerdict ==
    /\ Goto("verdict", "close")
    /\ verdict' = [verdict EXCEPT ![loop.n] = IF stream[loop.n].err THEN "error" ELSE "completed"]
    /\ UNCHANGED <<track, current, stream, sdk, waiter, played>>

\* The chunk is encoded and sent, which may fail.
WriteSample ==
    /\ loop.pc = "write"
    /\ \/ loop' = [loop EXCEPT !.pc = "recv"] /\ UNCHANGED verdict
       \/ loop' = [loop EXCEPT !.pc = "close"] /\ verdict' = [verdict EXCEPT ![loop.n] = "error"]
    /\ UNCHANGED <<track, current, stream, sdk, waiter, played>>

\* The events, ClearTrack, and the hangup that a successful command may ask for.
Reply ==
    /\ \E autohangup \in BOOLEAN :
           Goto("reply", IF autohangup /\ verdict[loop.n] = "completed" THEN "hangup" ELSE "ready")
    /\ current' = 0
    /\ UNCHANGED <<track, stream, sdk, waiter, played, verdict>>

-----------------------------------------------------------------------------
(* Close of a stream, once: the second caller waits for the first            *)

CloseBegins(n, who) ==
    /\ stream[n].closer = "none"
    /\ stream' = [stream EXCEPT ![n].closer = who,
                                ![n].client = IF @ = "running" THEN "shutdown" ELSE @]

CloseEnds(n, who) ==
    /\ stream[n].closer = who /\ ~stream[n].done
    /\ stream' = [stream EXCEPT ![n].done = TRUE]

LoopCloses ==
    /\ \/ /\ loop.pc = "close" /\ stream[loop.n].kind = "cloud"
          /\ CloseBegins(loop.n, "loop") \/ CloseEnds(loop.n, "loop")
          /\ UNCHANGED loop
       \/ /\ Goto("close", "reply")
          /\ stream[loop.n].done
          /\ UNCHANGED stream
    /\ UNCHANGED <<track, current, sdk, waiter, played, verdict>>

-----------------------------------------------------------------------------
(* waitCompletion *)

\* The service failed, or the timer is taken: it may be even when the signal is there.
WaitFails(n) ==
    /\ waiter[n] = "waiting"
    /\ stream' = [stream EXCEPT ![n].err = TRUE]
    /\ waiter' = [waiter EXCEPT ![n] = "close"]
    /\ UNCHANGED <<track, loop, current, sdk, played, verdict>>

WaitSucceeds(n) ==
    /\ waiter[n] = "waiting" /\ sdk[n].ready = "true"
    /\ waiter' = [waiter EXCEPT ![n] = "close"]
    /\ UNCHANGED <<track, loop, current, stream, sdk, played, verdict>>

\* A faulty variant: the goroutine returns and leaves Close to the reader.
WaiterLeaves(n) ==
    /\ waiter[n] = "close"
    /\ waiter' = [waiter EXCEPT ![n] = "gone"]
    /\ UNCHANGED <<track, loop, current, stream, sdk, played, verdict>>

WaiterCloses(n) ==
    /\ waiter[n] = "close"
    /\ \/ CloseBegins(n, "waiter") /\ UNCHANGED waiter
       \/ CloseEnds(n, "waiter") /\ UNCHANGED waiter
       \/ /\ stream[n].done /\ UNCHANGED stream
          /\ waiter' = [waiter EXCEPT ![n] = "gone"]
    /\ UNCHANGED <<track, loop, current, sdk, played, verdict>>

-----------------------------------------------------------------------------
(* The SDK's goroutine and its callbacks *)

\* pushChunk, the check: a stream that is done takes nothing more.
Result(n) ==
    /\ sdk[n].pc = "running" /\ sdk[n].made < MaxChunks[n]
    /\ sdk' = [sdk EXCEPT ![n].made = @ + 1,
                          ![n].pc = IF stream[n].done THEN "running" ELSE "pushing"]
    /\ UNCHANGED <<track, loop, current, stream, waiter, played, verdict>>

\* A faulty variant: the send does not wait for room.
PushChunkOverfull(n) ==
    /\ sdk[n].pc = "pushing"
    /\ stream' = [stream EXCEPT ![n].buf = Append(@, sdk[n].made)]
    /\ sdk' = [sdk EXCEPT ![n].pc = "running"]
    /\ UNCHANGED <<track, loop, current, waiter, played, verdict>>

\* A faulty variant: the send waits for room alone.
PushChunkWaits(n) ==
    /\ sdk[n].pc = "pushing" /\ Len(stream[n].buf) < Capacity
    /\ stream' = [stream EXCEPT ![n].buf = Append(@, sdk[n].made)]
    /\ sdk' = [sdk EXCEPT ![n].pc = "running"]
    /\ UNCHANGED <<track, loop, current, waiter, played, verdict>>

\* pushChunk, the send: into the buffer, or given up because the stream is done.
PushChunk(n) ==
    /\ sdk[n].pc = "pushing"
    /\ \/ /\ Len(stream[n].buf) < Capacity
          /\ stream' = [stream EXCEPT ![n].buf = Append(@, sdk[n].made)]
       \/ stream[n].done /\ UNCHANGED stream
    /\ sdk' = [sdk EXCEPT ![n].pc = "running"]
    /\ UNCHANGED <<track, loop, current, waiter, played, verdict>>

\* aliyunTTSTaskFailed, before the outcome is signalled.
TaskFailed(n) ==
    /\ sdk[n].pc = "running"
    /\ stream' = [stream EXCEPT ![n].err = TRUE]
    /\ sdk' = [sdk EXCEPT ![n].pc = "failed"]
    /\ UNCHANGED <<track, loop, current, waiter, played, verdict>>

\* The outcome: completed; or failed, with or without the callback.
Signal(n) ==
    /\ \/ sdk[n].pc = "running" /\ sdk' = [sdk EXCEPT ![n].pc = "over", ![n].ready = "true"]
       \/ /\ sdk[n].pc \in {"running", "failed"}
          /\ sdk' = [sdk EXCEPT ![n].pc = "over", ![n].ready = "false"]
    /\ UNCHANGED <<track, loop, current, stream, waiter, played, verdict>>

-----------------------------------------------------------------------------
Init ==
    /\ track = [stage |-> 0, peer |-> "none"]
    /\ \E pc \in {"negotiate", "ready"} : loop = [pc |-> pc, n |-> 0]
    /\ current = 0
    /\ stream = [n \in Commands |-> [kind |-> "none", buf |-> <<>>, err |-> FALSE, done |-> FALSE,
                                     closer |-> "none", client |-> "none"]]
    /\ sdk = [n \in Commands |-> [pc |-> "none", made |-> 0, ready |-> "none"]]
    /\ waiter = [n \in Commands |-> "none"]
    /\ played = [n \in Commands |-> <<>>]
    /\ verdict = [n \in Commands |-> "none"]

LoopStep ==
    \/ Negotiated \/ NegotiationFails \/ StartMock \/ StartSynthesis \/ StartFails
    \/ TakeChunk \/ RecvDone \/ RecvVerdict \/ WriteSample \/ LoopCloses \/ Reply

WaiterStep(n) == WaitFails(n) \/ WaitSucceeds(n) \/ WaiterCloses(n)

Next ==
    \/ LoopStep \/ Serve \/ Play \/ Interrupt \/ EndCall
    \/ \E n \in Commands :
           WaiterStep(n) \/ Result(n) \/ PushChunk(n) \/ TaskFailed(n) \/ Signal(n)

\* The goroutines of the gateway go on; the service owes nothing, and a waiter's timer
\* expires. A callback that waits in pushChunk is the gateway's code.
Spec ==
    /\ Init /\ [][Next]_vars
    /\ WF_vars(LoopStep)
    /\ \A n \in Commands : WF_vars(WaiterStep(n)) /\ WF_vars(PushChunk(n))

-----------------------------------------------------------------------------
(* Properties *)

\* Every variable keeps its type, and a buffer its size.
TypeOK ==
    /\ track \in [stage : 0..Stages, peer : {"none", "open", "closed"}]
    /\ loop \in [pc : {"negotiate", "ready", "start", "recv", "write", "verdict", "close",
                       "reply", "hangup", "ended"}, n : Commands \cup {0}]
    /\ current \in Commands \cup {0}
    /\ stream \in [Commands -> [kind : {"none", "mock", "cloud"}, buf : Seq(Nat),
                                 err : BOOLEAN, done : BOOLEAN,
                                 closer : {"none", "loop", "waiter"},
                                 client : {"none", "running", "shutdown"}]]
    /\ \A n \in Commands : Len(stream[n].buf) <= Capacity
    /\ sdk \in [Commands -> [pc : {"none", "running", "pushing", "failed", "over"},
                              made : Nat, ready : {"none", "true", "false"}]]
    /\ waiter \in [Commands -> {"none", "waiting", "close", "gone"}]
    /\ played \in [Commands -> Seq(Nat)]
    /\ verdict \in [Commands -> {"none", "completed", "error"}]

\* A client that is told "completed" got the whole text: the service finished it, and every
\* chunk it made was taken, in order, although the stream was closed by its waiter while
\* chunks were still buffered or being pushed.
SuccessIsComplete ==
    \A n \in Commands :
        verdict[n] = "completed" =>
            IF stream[n].kind = "mock" THEN played[n] = <<1>>
            ELSE /\ sdk[n].ready = "true"
                 /\ played[n] = [i \in 1..sdk[n].made |-> i]

\* Every tts command is answered and the loop goes on, whatever the service does: the
\* waiter's timer ends a synthesis that says nothing.
CommandAnswered ==
    \A n \in Commands :
        (loop.n = n) ~> (verdict[n] # "none" /\ loop.pc \in {"ready", "hangup", "ended"})

\* Every synthesis that was started ends with its client shut down, its waiter gone and no
\* callback caught in pushChunk, also when the track stopped taking chunks half way.
StreamReleased ==
    \A n \in Commands :
        (waiter[n] # "none") ~>
            (stream[n].client = "shutdown" /\ waiter[n] = "gone" /\ sdk[n].pc # "pushing")
=============================================================================
