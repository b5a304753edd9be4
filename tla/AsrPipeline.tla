---------------------------- MODULE AsrPipeline ----------------------------
(***************************************************************************)
(* The recognition of one call: the goroutines that push audio frames into *)
(* the ASR processor (app/media/processor/asr.go), the recognition         *)
(* sessions it opens and closes (adapter/outbound/asr), the goroutine that *)
(* forwards each session's results to the client, and the callbacks of the *)
(* cloud SDK.                                                              *)
(*                                                                         *)
(* A frame is silent, speech, or the end of a segment found by the VAD.  A *)
(* result is the number it has among those of its session.  The writes go  *)
(* to a connection that may break at any time; what a forwarder does about *)
(* a failed write, failing the call, is CallHandler's AudioFail.           *)
(***************************************************************************)
EXTENDS Naturals, Sequences, Functions

CONSTANTS
    Readers,        \* the goroutines that push frames: serveWS, or one per WebRTC track
    Sessions,       \* recognition sessions: 1..n in the order of their creation
    Provider,       \* "mock" or "aliyun"
    Segmented,      \* a VAD finds the segments
    ClosesStream,   \* the call closes its stream at its end: websocket calls do, of one reader
    SilenceLimit,   \* silent frames that end a session (8 in the code)
    Capacity,       \* room in a channel of results (16, or 32 for the cloud)
    ErrCapacity,    \* room in a channel of errors (4, or 8 for the cloud)
    MaxFrames,      \* bound: frames each reader pushes
    MaxResults,     \* bound: results of all cloud sessions
    None            \* nobody holds a session's mutex

ASSUME PipelineAssumption ==
    /\ Provider \in {"mock", "aliyun"} /\ Segmented \in BOOLEAN /\ ClosesStream \in BOOLEAN
    /\ Capacity \in Nat \ {0} /\ ErrCapacity \in Nat \ {0} /\ SilenceLimit \in Nat
    /\ MaxFrames \in [Readers -> Nat] /\ MaxResults \in Nat
    /\ Sessions \subseteq Nat \ {0} /\ None \notin Readers
    /\ ClosesStream => Readers # {} /\ \A r, s \in Readers : r = s

VARIABLES
    reader,         \* reader[r]: where goroutine r is, and the session it works on
    asr,            \* the processor's fields, guarded by a.mu
    recognizer,     \* recognizer[n]: the fields of session n, guarded by its mu
    results, errs,  \* results[n], errs[n]: the channels of session n
    forwarder,      \* forwarder[n]: the goroutine that forwards session n's results
    callback,       \* callback[n]: the SDK goroutine that calls back for session n
    produced,       \* produced[n]: how many results session n had so far
    wire,           \* the recognition events written to the client
    broken,         \* writes to the connection fail from now on
    panicked        \* a send on a closed channel has ended the process

vars == <<reader, asr, recognizer, results, errs, forwarder, callback, produced, wire,
          broken, panicked>>
channels == <<results, errs>>
output   == <<wire, broken>>

Events == [kind: {"ttfb", "result"}, session: Sessions, number: Nat, index: Nat]

ClosingPC == {"close", "stopClient", "shutdown", "markClosed", "takeChannels",
              "closeResults", "closeErrs"}
ReaderPC == {"ready", "ensure", "write", "send", "start", "markStarted", "sendAudio",
             "reply", "stop", "closeAsr", "gone"} \cup ClosingPC
ForwarderPC == {"none", "evalResults", "evalErrs", "select", "number", "ttfb", "write", "done"}

TypeOK ==
    /\ reader \in [Readers -> [pc: ReaderPC, target: Sessions \cup {0}, leaving: BOOLEAN,
                               frames: Nat]]
    /\ \A r \in Readers : reader[r].frames <= MaxFrames[r]
    /\ asr \in [current: Sessions \cup {0}, created: Sessions \cup {0}, failed: BOOLEAN,
                silence: Nat, ttfbSent: BOOLEAN, index: Nat]
    /\ recognizer \in [Sessions -> [open: BOOLEAN, started: BOOLEAN, closing: BOOLEAN,
                                    closed: BOOLEAN, client: {"new", "running", "failed", "shutdown"},
                                    holder: Readers \cup {None}]]
    /\ results \in [Sessions -> [buf: Seq(Nat), closed: BOOLEAN]]
    /\ errs \in [Sessions -> [buf: Seq(Nat), closed: BOOLEAN]]
    /\ \A n \in Sessions : Len(results[n].buf) <= Capacity /\ Len(errs[n].buf) <= ErrCapacity
    /\ forwarder \in [Sessions -> [pc: ForwarderPC, results: BOOLEAN, errs: BOOLEAN,
                                   item: Nat, index: Nat]]
    /\ callback \in [Sessions -> {"idle", "sendResult", "sendError"}]
    /\ produced \in [Sessions -> Nat]
    /\ wire \in Seq(Events)
    /\ broken \in BOOLEAN /\ panicked \in BOOLEAN

Channel == [buf |-> <<>>, closed |-> FALSE]

\* A forwarder that does not run, or begins a round.
Idle == [pc |-> "none", results |-> FALSE, errs |-> FALSE, item |-> 0, index |-> 0]

Init ==
    /\ reader = [r \in Readers |->
                    [pc |-> "ready", target |-> 0, leaving |-> FALSE, frames |-> MaxFrames[r]]]
    /\ asr = [current |-> 0, created |-> 0, failed |-> FALSE, silence |-> 0,
              ttfbSent |-> FALSE, index |-> 0]
    /\ recognizer = [n \in Sessions |-> [open |-> TRUE, started |-> FALSE, closing |-> FALSE,
                                         closed |-> FALSE, client |-> "new", holder |-> None]]
    /\ results = [n \in Sessions |-> Channel]
    /\ errs = [n \in Sessions |-> Channel]
    /\ forwarder = [n \in Sessions |-> Idle]
    /\ callback = [n \in Sessions |-> "idle"]
    /\ produced = [n \in Sessions |-> 0]
    /\ wire = <<>> /\ broken = FALSE /\ panicked = FALSE

-----------------------------------------------------------------------------
(* Helpers *)

\* Goroutine r moves on; outside of Process and Close it works on no session.
Goto(r, from, to) ==
    /\ reader[r].pc = from
    /\ reader' = [reader EXCEPT ![r].pc = to,
                                ![r].target = IF to \in {"ready", "reply", "gone"} THEN 0 ELSE @]

\* Where Process or Close returns to.
Home(r) == IF reader[r].leaving THEN "gone" ELSE "ready"

\* Goroutine r starts on a frame.
Frame(r, to) ==
    /\ reader[r].pc = "ready" /\ reader[r].frames > 0
    /\ reader' = [reader EXCEPT ![r].pc = to, ![r].frames = @ - 1]

\* Goroutine r takes the current session away from the processor, to close it.
Detach(r, from, fields) ==
    /\ reader[r].pc = from
    /\ reader' = [reader EXCEPT ![r].target = asr.current,
                                ![r].pc = IF asr.current = 0 THEN Home(r) ELSE "close"]
    /\ asr' = fields

\* One event is written, or the connection is broken and the write fails.
Written(event) == ~broken /\ wire' = Append(wire, event)
WriteFails     == broken /\ UNCHANGED wire

-----------------------------------------------------------------------------
(* The goroutines that push frames: Process, one step per critical section.    *)

\* A silent frame: the session is stopped after SilenceLimit of them.
Silent(r) ==
    /\ ~Segmented
    /\ Frame(r, IF asr.current # 0 /\ asr.silence + 1 >= SilenceLimit THEN "stop" ELSE "ready")
    /\ asr' = [asr EXCEPT !.silence = @ + 1]
    /\ UNCHANGED <<recognizer, channels, forwarder, callback, produced, output, panicked>>

\* The VAD closed a segment.
SegmentEnd(r) ==
    /\ Segmented
    /\ Frame(r, "stop")
    /\ UNCHANGED <<asr, recognizer, channels, forwarder, callback, produced, output, panicked>>

Speech(r) ==
    /\ Frame(r, "ensure")
    /\ asr' = [asr EXCEPT !.silence = 0]
    /\ UNCHANGED <<recognizer, channels, forwarder, callback, produced, output, panicked>>

\* ensureSessionLocked: the session there is, or none after a failure.
EnsureOld(r) ==
    /\ asr.failed \/ asr.current # 0
    /\ reader[r].pc = "ensure"
    /\ reader' = [reader EXCEPT ![r].target = asr.current,
                                ![r].pc = IF asr.failed THEN "ready" ELSE "write"]
    /\ UNCHANGED <<asr, recognizer, channels, forwarder, callback, produced, output, panicked>>

\* A faulty variant: a new session without looking for an old one under the lock.
EnsureNewUnchecked(r) ==
    /\ reader[r].pc = "ensure" /\ ~asr.failed /\ asr.created + 1 \in Sessions
    /\ reader' = [reader EXCEPT ![r].pc = "write", ![r].target = asr.created + 1]
    /\ asr' = [asr EXCEPT !.created = @ + 1, !.current = asr.created + 1]
    /\ forwarder' = [forwarder EXCEPT ![asr.created + 1].pc = "evalResults"]
    /\ UNCHANGED <<recognizer, channels, callback, produced, output, panicked>>

\* ensureSessionLocked: a new session and its forwarder.
EnsureNew(r) ==
    /\ ~asr.failed /\ asr.current = 0 /\ asr.created + 1 \in Sessions
    /\ LET n == asr.created + 1
       IN  /\ reader[r].pc = "ensure"
           /\ reader' = [reader EXCEPT ![r].pc = "write", ![r].target = n]
           /\ asr' = [asr EXCEPT !.created = n, !.current = n]
           /\ forwarder' = [forwarder EXCEPT ![n].pc = "evalResults"]
    /\ UNCHANGED <<recognizer, channels, callback, produced, output, panicked>>

\* ensureSessionLocked: the provider refuses, for good.
EnsureFails(r) ==
    /\ Provider = "aliyun" /\ ~asr.failed /\ asr.current = 0
    /\ Goto(r, "ensure", "reply")
    /\ asr' = [asr EXCEPT !.failed = TRUE]
    /\ UNCHANGED <<recognizer, channels, forwarder, callback, produced, output, panicked>>

\* A faulty variant: the count of results starts again with every session.
StopActiveResetsIndex(r) ==
    /\ Detach(r, "stop", [asr EXCEPT !.current = 0, !.ttfbSent = FALSE, !.index = 0])
    /\ UNCHANGED <<recognizer, channels, forwarder, callback, produced, output, panicked>>

\* stopActiveSession, under a.mu
StopActive(r) ==
    /\ Detach(r, "stop", [asr EXCEPT !.current = 0, !.ttfbSent = FALSE])
    /\ UNCHANGED <<recognizer, channels, forwarder, callback, produced, output, panicked>>

\* The error event for a failed Process; if it cannot be written the reader leaves.
Reply(r) ==
    /\ IF broken THEN reader[r].pc = "reply" /\ reader' = [reader EXCEPT
                            ![r].leaving = TRUE, ![r].pc = IF ClosesStream THEN "closeAsr" ELSE "gone"]
                 ELSE Goto(r, "reply", "ready")
    /\ UNCHANGED <<asr, recognizer, channels, forwarder, callback, produced, output, panicked>>

\* No more frames: the call ends.  Only a websocket call closes its stream then.
Leave(r) ==
    /\ reader[r].pc = "ready"
    /\ reader' = [reader EXCEPT ![r].leaving = TRUE,
                                ![r].pc = IF ClosesStream THEN "closeAsr" ELSE "gone"]
    /\ UNCHANGED <<asr, recognizer, channels, forwarder, callback, produced, output, panicked>>

\* ASR.Close, under a.mu
CloseAsr(r) ==
    /\ Detach(r, "closeAsr", [asr EXCEPT !.current = 0])
    /\ UNCHANGED <<recognizer, channels, forwarder, callback, produced, output, panicked>>

-----------------------------------------------------------------------------
(* The session the reader works on: the mock                                   *)

\* A faulty variant: the mutex is not held during the send.
MockWriteUnlocked(r) ==
    LET n == reader[r].target
        open == ~recognizer[n].closed
    IN  /\ Provider = "mock"
        /\ Goto(r, "write", IF open THEN "send" ELSE "ready")
        /\ produced' = [produced EXCEPT ![n] = IF open THEN @ + 1 ELSE @]
        /\ UNCHANGED <<asr, recognizer, channels, forwarder, callback, output, panicked>>

\* mockSession.WriteAudio takes the mutex; a closed session takes the audio in silence.
MockWrite(r) ==
    LET n == reader[r].target
        open == ~recognizer[n].closed
    IN  /\ Provider = "mock"
        /\ Goto(r, "write", IF open THEN "send" ELSE "ready")
        /\ recognizer[n].holder = None
        /\ recognizer' = [recognizer EXCEPT ![n].holder = IF open THEN r ELSE None]
        /\ produced' = [produced EXCEPT ![n] = IF open THEN @ + 1 ELSE @]
        /\ UNCHANGED <<asr, channels, forwarder, callback, output, panicked>>

\* A faulty variant: a channel without a limit.
MockSendUnbounded(r) ==
    /\ Goto(r, "send", "ready")
    /\ results' = [results EXCEPT ![reader[r].target].buf = Append(@, produced[reader[r].target])]
    /\ recognizer' = [recognizer EXCEPT ![reader[r].target].holder = None]
    /\ UNCHANGED <<asr, errs, forwarder, callback, produced, output, panicked>>

\* ... and waits for room in the channel with the mutex in its hands.
MockSend(r) ==
    LET n == reader[r].target
    IN  /\ Goto(r, "send", "ready")
        /\ results[n].closed \/ Len(results[n].buf) < Capacity
        /\ panicked' = results[n].closed
        /\ results' = [results EXCEPT ![n].buf = IF results[n].closed THEN @ ELSE Append(@, produced[n])]
        /\ recognizer' = [recognizer EXCEPT ![n].holder = None]
        /\ UNCHANGED <<asr, errs, forwarder, callback, produced, output>>

\* mockSession.Close
MockClose(r) ==
    LET n == reader[r].target
        again == recognizer[n].closed
    IN  /\ Provider = "mock"
        /\ Goto(r, "close", IF again THEN Home(r) ELSE "closeResults")
        /\ recognizer[n].holder = None
        /\ recognizer' = [recognizer EXCEPT ![n].closed = TRUE,
                                            ![n].holder = IF again THEN None ELSE r]
        /\ UNCHANGED <<asr, channels, forwarder, callback, produced, output, panicked>>

-----------------------------------------------------------------------------
(* The session the reader works on: the cloud's                                *)

\* ensureStarted, under s.mu
Write(r) ==
    LET s == recognizer[reader[r].target]
    IN  /\ Provider = "aliyun"
        /\ Goto(r, "write", IF s.closed \/ s.closing THEN "reply"
                            ELSE IF s.started THEN "sendAudio" ELSE "start")
        /\ UNCHANGED <<asr, recognizer, channels, forwarder, callback, produced, output, panicked>>

\* client.Start and the wait for its answer, at most 20 s: the service may have
\* started although the answer did not come.
Start(r) ==
    LET n == reader[r].target
    IN  /\ \/ /\ Goto(r, "start", "markStarted") \/ Goto(r, "start", "reply")
              /\ recognizer' = [recognizer EXCEPT ![n].client = "running"]
           \/ Goto(r, "start", "reply") /\ UNCHANGED recognizer
        /\ UNCHANGED <<asr, channels, forwarder, callback, produced, output, panicked>>

MarkStarted(r) ==
    /\ Goto(r, "markStarted", "sendAudio")
    /\ recognizer' = [recognizer EXCEPT ![reader[r].target].started = TRUE]
    /\ UNCHANGED <<asr, channels, forwarder, callback, produced, output, panicked>>

\* The second half of WriteAudio: the SDK takes the audio or refuses it.
SendAudio(r) ==
    LET s == recognizer[reader[r].target]
    IN  /\ \/ Goto(r, "sendAudio", "ready")
           \/ Goto(r, "sendAudio", "reply") /\ ~s.closed /\ ~s.closing
        /\ UNCHANGED <<asr, recognizer, channels, forwarder, callback, produced, output, panicked>>

\* A faulty variant: only a client that is known to have started is shut down.
CloudCloseStartedOnly(r) ==
    LET n == reader[r].target
        s == recognizer[n]
    IN  /\ Provider = "aliyun"
        /\ Goto(r, "close", IF s.closed \/ s.closing THEN Home(r)
                            ELSE IF s.started THEN "stopClient" ELSE "markClosed")
        /\ recognizer' = [recognizer EXCEPT ![n].closing = ~s.closed]
        /\ UNCHANGED <<asr, channels, forwarder, callback, produced, output, panicked>>

\* aliyunSession.Close, first critical section
CloudClose(r) ==
    LET n == reader[r].target
        s == recognizer[n]
        again == s.closed \/ s.closing
    IN  /\ Provider = "aliyun"
        /\ Goto(r, "close", IF again THEN Home(r) ELSE IF s.started THEN "stopClient" ELSE "shutdown")
        /\ recognizer' = [recognizer EXCEPT ![n].closing = IF again THEN @ ELSE TRUE]
        /\ UNCHANGED <<asr, channels, forwarder, callback, produced, output, panicked>>

\* client.Stop and the wait for the service to complete, at most 20 s
StopClient(r) ==
    /\ Goto(r, "stopClient", "shutdown")
    /\ UNCHANGED <<asr, recognizer, channels, forwarder, callback, produced, output, panicked>>

Shutdown(r) ==
    /\ Goto(r, "shutdown", "markClosed")
    /\ recognizer' = [recognizer EXCEPT ![reader[r].target].client = "shutdown"]
    /\ UNCHANGED <<asr, channels, forwarder, callback, produced, output, panicked>>

MarkClosed(r) ==
    /\ Goto(r, "markClosed", "takeChannels")
    /\ recognizer' = [recognizer EXCEPT ![reader[r].target].closed = TRUE,
                                        ![reader[r].target].closing = FALSE]
    /\ UNCHANGED <<asr, channels, forwarder, callback, produced, output, panicked>>

\* closeChannels, under s.mu: the session forgets its channels.
TakeChannels(r) ==
    /\ Goto(r, "takeChannels", "closeResults")
    /\ recognizer' = [recognizer EXCEPT ![reader[r].target].open = FALSE]
    /\ UNCHANGED <<asr, channels, forwarder, callback, produced, output, panicked>>

-----------------------------------------------------------------------------
(* Both kinds of session close their channels, the results first.              *)

CloseResults(r) ==
    /\ Goto(r, "closeResults", "closeErrs")
    /\ results' = [results EXCEPT ![reader[r].target].closed = TRUE]
    /\ UNCHANGED <<asr, recognizer, errs, forwarder, callback, produced, output, panicked>>

\* The mock lets go of its mutex; a cloud session may report that it could not be stopped.
CloseErrs(r) ==
    LET n == reader[r].target
    IN  /\ \/ Goto(r, "closeErrs", Home(r))
           \/ Goto(r, "closeErrs", "reply") /\ recognizer[n].started /\ ~reader[r].leaving
        /\ errs' = [errs EXCEPT ![n].closed = TRUE]
        /\ recognizer' = [recognizer EXCEPT ![n].holder = None]
        /\ UNCHANGED <<asr, results, forwarder, callback, produced, output, panicked>>

-----------------------------------------------------------------------------
(* forwardResults and emitResult: the forwarder of session n                   *)

Forward(n, from, to) ==
    forwarder[n].pc = from /\ forwarder' = [forwarder EXCEPT ![n].pc = to]

\* One round of the loop is over, and its local variables are forgotten.
EndRound(n, from, to) ==
    forwarder[n].pc = from /\ forwarder' = [forwarder EXCEPT ![n] = [Idle EXCEPT !.pc = to]]

\* select reads the two fields of the session, one after the other, in every round.
EvalResults(n) ==
    /\ forwarder[n].pc = "evalResults"
    /\ forwarder' = [forwarder EXCEPT ![n].pc = "evalErrs", ![n].results = recognizer[n].open]
    /\ UNCHANGED <<reader, asr, recognizer, channels, callback, produced, output, panicked>>

EvalErrs(n) ==
    /\ forwarder[n].pc = "evalErrs"
    /\ forwarder' = [forwarder EXCEPT ![n].pc = "select", ![n].errs = recognizer[n].open]
    /\ UNCHANGED <<reader, asr, recognizer, channels, callback, produced, output, panicked>>

TakeResult(n) ==
    /\ forwarder[n].pc = "select" /\ forwarder[n].results /\ results[n].buf # <<>>
    /\ forwarder' = [forwarder EXCEPT ![n] = [Idle EXCEPT !.pc = "number", !.item = Head(results[n].buf)]]
    /\ results' = [results EXCEPT ![n].buf = Tail(@)]
    /\ UNCHANGED <<reader, asr, recognizer, errs, callback, produced, output, panicked>>

\* onError fails the call, which breaks the connection: see Break.
TakeError(n) ==
    /\ forwarder[n].errs /\ errs[n].buf # <<>>
    /\ EndRound(n, "select", "evalResults")
    /\ errs' = [errs EXCEPT ![n].buf = Tail(@)]
    /\ UNCHANGED <<reader, asr, recognizer, results, callback, produced, output, panicked>>

\* A faulty variant: a closed channel is taken for an empty result.
ChannelClosedIgnored(n) ==
    /\ forwarder[n].results /\ results[n].closed /\ results[n].buf = <<>>
    /\ EndRound(n, "select", "evalResults")
    /\ UNCHANGED <<reader, asr, recognizer, channels, callback, produced, output, panicked>>

\* A closed and empty channel, of either kind, ends the goroutine.
ChannelClosed(n) ==
    /\ \/ forwarder[n].results /\ results[n].closed /\ results[n].buf = <<>>
       \/ forwarder[n].errs /\ errs[n].closed /\ errs[n].buf = <<>>
    /\ EndRound(n, "select", "done")
    /\ UNCHANGED <<reader, asr, recognizer, channels, callback, produced, output, panicked>>

\* A faulty variant: the index is given but not counted.
NumberUncounted(n) ==
    /\ forwarder[n].pc = "number"
    /\ forwarder' = [forwarder EXCEPT ![n].pc = IF asr.ttfbSent THEN "write" ELSE "ttfb",
                                      ![n].index = asr.index + 1]
    /\ asr' = [asr EXCEPT !.ttfbSent = TRUE]
    /\ UNCHANGED <<reader, recognizer, channels, callback, produced, output, panicked>>

\* emitResult, under a.mu
Number(n) ==
    /\ forwarder[n].pc = "number"
    /\ forwarder' = [forwarder EXCEPT ![n].pc = IF asr.ttfbSent THEN "write" ELSE "ttfb",
                                      ![n].index = asr.index + 1]
    /\ asr' = [asr EXCEPT !.ttfbSent = TRUE, !.index = @ + 1]
    /\ UNCHANGED <<reader, recognizer, channels, callback, produced, output, panicked>>

EventOf(n, kind) == [kind |-> kind, session |-> n, number |-> forwarder[n].item,
                     index |-> forwarder[n].index]

WriteTtfb(n) ==
    /\ \/ Forward(n, "ttfb", "write") /\ Written(EventOf(n, "ttfb"))
       \/ EndRound(n, "ttfb", "evalResults") /\ WriteFails
    /\ UNCHANGED <<reader, asr, recognizer, channels, callback, produced, broken, panicked>>

\* A faulty variant: the forwarder gives up when a write fails.
WriteResultGivesUp(n) ==
    /\ EndRound(n, "write", IF broken THEN "done" ELSE "evalResults")
    /\ Written(EventOf(n, "result")) \/ WriteFails
    /\ UNCHANGED <<reader, asr, recognizer, channels, callback, produced, broken, panicked>>

WriteResult(n) ==
    /\ EndRound(n, "write", "evalResults")
    /\ Written(EventOf(n, "result")) \/ WriteFails
    /\ UNCHANGED <<reader, asr, recognizer, channels, callback, produced, broken, panicked>>

-----------------------------------------------------------------------------
(* The SDK's callbacks and the connection                                      *)

\* appendResult or fail, under s.mu: a closed session ignores the call.
CallBack(n, next) ==
    /\ callback[n] = "idle" /\ recognizer[n].client = "running"
    /\ callback' = [callback EXCEPT ![n] = IF recognizer[n].closed \/ ~recognizer[n].open
                                           THEN "idle" ELSE next]
    /\ UNCHANGED <<reader, asr, channels, forwarder, output, panicked>>

OnResult(n) ==
    /\ FoldFunction(+, 0, produced) < MaxResults
    /\ produced' = [produced EXCEPT ![n] = @ + 1]
    /\ CallBack(n, "sendResult")
    /\ UNCHANGED recognizer

\* A failed task has ended at the service, which calls back no more.
OnTaskFailed(n) ==
    /\ CallBack(n, "sendError")
    /\ recognizer' = [recognizer EXCEPT ![n].client = "failed"]
    /\ UNCHANGED produced

\* The send itself, after the unlock, to a channel that may be full or closed.
Offer(channel, n, capacity, item) ==
    /\ callback' = [callback EXCEPT ![n] = "idle"]
    /\ panicked' = channel[n].closed
    /\ channel' = [channel EXCEPT ![n].buf =
                        IF channel[n].closed \/ Len(@) >= capacity THEN @ ELSE Append(@, item)]

AppendResult(n) ==
    /\ callback[n] = "sendResult"
    /\ Offer(results, n, Capacity, produced[n])
    /\ UNCHANGED <<reader, asr, recognizer, errs, forwarder, produced, output>>

AppendError(n) ==
    /\ callback[n] = "sendError"
    /\ Offer(errs, n, ErrCapacity, 0)
    /\ UNCHANGED <<reader, asr, recognizer, results, forwarder, produced, output>>

\* The connection is lost, or somebody in the gateway closes it.
Break ==
    /\ broken' = TRUE
    /\ UNCHANGED <<reader, asr, recognizer, channels, forwarder, callback, produced, wire, panicked>>

-----------------------------------------------------------------------------
ReaderStep(r) ==
    \/ EnsureOld(r) \/ EnsureNew(r) \/ EnsureFails(r) \/ StopActive(r) \/ Reply(r) \/ CloseAsr(r)
    \/ MockWrite(r) \/ MockSend(r) \/ MockClose(r)
    \/ Write(r) \/ Start(r) \/ MarkStarted(r) \/ SendAudio(r)
    \/ CloudClose(r) \/ StopClient(r) \/ Shutdown(r) \/ MarkClosed(r) \/ TakeChannels(r)
    \/ CloseResults(r) \/ CloseErrs(r)

ForwarderStep(n) ==
    \/ EvalResults(n) \/ EvalErrs(n) \/ TakeResult(n) \/ TakeError(n) \/ ChannelClosed(n)
    \/ Number(n) \/ WriteTtfb(n) \/ WriteResult(n)

\* A panic in any goroutine ends the process.
Next ==
    /\ ~panicked
    /\ \/ \E r \in Readers : Silent(r) \/ SegmentEnd(r) \/ Speech(r) \/ Leave(r) \/ ReaderStep(r)
       \/ \E n \in Sessions : \/ ForwarderStep(n)
                              \/ OnResult(n) \/ OnTaskFailed(n) \/ AppendResult(n) \/ AppendError(n)
       \/ Break

\* Goroutines run; a write returns once the connection is broken, and before that
\* only if the client reads, which nothing makes it do.
Fairness ==
    /\ \A r \in Readers : WF_vars(~panicked /\ ReaderStep(r))
    /\ \A n \in Sessions :
        /\ WF_vars(~panicked /\ (broken \/ forwarder[n].pc \notin {"ttfb", "write"})
                             /\ ForwarderStep(n))
        /\ WF_vars(~panicked /\ (AppendResult(n) \/ AppendError(n)))

Spec == Init /\ [][Next]_vars /\ Fairness

-----------------------------------------------------------------------------
(* Properties *)

\* What the client is told, as ResultFeed sees it.
told == {[session |-> wire[i].session, number |-> wire[i].number, index |-> wire[i].index] :
            i \in {j \in DOMAIN wire : wire[j].kind = "result"}}

Feed == INSTANCE ResultFeed

\* Whatever forwarders, readers and callbacks do to one another, the results of a
\* recognition session reach the client in their order, none twice, each with an
\* index of its own (emitResult numbers under a.mu, one forwarder per session).
FeedsResults == Feed!Spec

\* A session that is no longer the processor's is closed, or somebody is about to
\* close it: stopActiveSession and Close, of any two tracks, lose none between them.
NoOrphan ==
    \A n \in 1..asr.created :
        \/ n = asr.current
        \/ recognizer[n].closed
        \/ \E r \in Readers : reader[r].target = n /\ reader[r].pc \in ClosingPC

\* When a websocket call has released its stream (Chain.Close), no recognition
\* session is left hanging: each is closed with its channels, and no client runs.
AllReleased ==
    ClosesStream /\ (\A r \in Readers : reader[r].pc = "gone") =>
        \A n \in 1..asr.created :
            /\ recognizer[n].closed /\ recognizer[n].client # "running"
            /\ recognizer[n].holder = None
            /\ results[n].closed /\ errs[n].closed

\* mockSession sends and closes under its mutex, so that no track sends to a channel
\* that another track's silence has closed.
NeverPanics == ~panicked

\* A reader that is in the pipeline when the connection breaks gets out of it, even
\* if it was waiting for room in a full channel whose forwarder was blocked in a
\* write to a client that does not read (mockSession.WriteAudio, lockedEventWriter).
ReaderReturns ==
    \A r \in Readers :
        (broken /\ reader[r].pc # "ready") ~> (reader[r].pc \in {"ready", "gone"} \/ panicked)

\* forwardResults outlives its session only until the connection breaks: the closed
\* channels end it.
ForwarderEnds ==
    \A n \in Sessions :
        (broken /\ errs[n].closed) ~> (forwarder[n].pc = "done" \/ panicked)
=============================================================================
