---------------------------- MODULE CallHandler ----------------------------
(***************************************************************************)
(* The life of the calls of one gateway process: for every websocket       *)
(* connection a goroutine runs serveWS (adapter/inbound/http/              *)
(* call_handler.go), registers a session with the manager, serves the      *)
(* command loop and cleans up; goroutines of the admin interface kill      *)
(* calls by id; and the audio pipeline of a call (the goroutine that       *)
(* forwards recognition results, or the one that reads the WebRTC track)   *)
(* fails the session whenever it cannot deliver.                           *)
(*                                                                         *)
(* A step is what a goroutine does between two points where another one    *)
(* can get in: a critical section of the session or of the manager, one    *)
(* write to the connection, one call of the close function.                *)
(***************************************************************************)
EXTENDS Naturals, FiniteSets, SessionOps

CONSTANTS
    Calls,          \* the connections, one serveWS each
    Ids,            \* session ids
    Kills,          \* requests to the kill interface
    HangupReasons,    \* what a hangup command may carry as its reason ("" for none)
    HangupInitiators, \* and what as its initiator: both are the client's own words
    MaxCommands,    \* bound: frames read by one call after its first
    MaxFaults,      \* bound: failures of one call's audio pipeline
    None            \* no session, no call, no record, no close asked for

ASSUME CallsAssumption ==
    /\ HangupReasons \subseteq Texts \cup {""} /\ HangupInitiators \subseteq Texts \cup {""}
    /\ MaxCommands \in Nat /\ MaxFaults \in Nat
    /\ "error" \in Texts

\* The goroutines that hold a pointer to a session: serveWS, the audio goroutine,
\* and those that serve kills.
ASSUME KillsAssumption == Kills \cap {"serveWS", "audio"} = {}

VARIABLES
    pc,         \* pc[c]: where serveWS of call c is
    callType,   \* callType[c]: "websocket" or "webrtc"
    id,         \* id[c]: the id the connection asks for in its query, or a made up one
    conn,       \* conn[c]: the connection, seen from the gateway
    sess,       \* sess[c]: the session record, or None before Create
    sessions,   \* the manager's map: from an id to the call whose session is there
    closeInfo,  \* closeInfo[c]: serveWS's local variable
    closing,    \* closing[c]: the close of the command being served, or None
    sent,       \* sent[c]: which of "answer" and "hangup" were written
    record,     \* record[c]: the call record handed to the writer, or None
    stream,     \* stream[c]: "none", "open" or "closed"
    frames,     \* frames[c]: how many more frames may be read
    audio,      \* audio[c]: the call's audio goroutine
    kill,       \* kill[k]: a goroutine serving the kill interface
    closeFnRuns \* closeFnRuns[c]: how often the close function was called (history)

request  == <<callType, id>>                            \* what the client asked for
locals   == <<request, closeInfo, closing, frames>>    \* serveWS's own
outputs  == <<sent, record, stream>>                    \* what a call leaves behind
registry == <<sess, sessions>>                          \* sessions and their manager
wire     == <<conn, closeFnRuns>>                       \* connections
others   == <<audio, kill>>                             \* the other goroutines

vars == <<pc, locals, outputs, registry, wire, others>>

PC == {"ReadFirst", "Create", "BeginHandshake", "BindCloseFunc", "BindCalls",
       "BuildAnswer", "WriteAnswer", "RecordAnswer", "MarkActive", "ReadMessage",
       "Route", "WriteReplies", "RequestClose", "CallCloseFn", "Finalize", "CloseDone",
       "Delete", "WriteRecord", "Release", "CloseConn", "Done"}

\* open: both ends are there.  lost: the peer is gone and the gateway may not
\* know.  broken: a write has failed, and all later ones will.  closed: the
\* gateway closed it.
ConnStates == {"open", "lost", "broken", "closed"}

AudioStates == {"off", "on", "Fail", "CallCloseFn"}

\* answer: there is an SDP in the record's Answer, which is left out when it is empty.
Record == [reason: Texts \cup {""}, initiator: Texts \cup {""}, err: Texts \cup {""},
           answer: BOOLEAN]

ASSUME NoneAssumption ==
    None \notin Calls /\ None \notin Session /\ None \notin CloseInfo /\ None \notin Record

TypeOK ==
    /\ pc \in [Calls -> PC]
    /\ callType \in [Calls -> {"websocket", "webrtc"}]
    /\ id \in [Calls -> Ids]
    /\ conn \in [Calls -> ConnStates]
    /\ sess \in [Calls -> Session \cup {None}]
    /\ sessions \in [Ids -> Calls \cup {None}]
    /\ closeInfo \in [Calls -> CloseInfo]
    /\ closing \in [Calls -> CloseInfo \cup {None}]
    /\ sent \in [Calls -> SUBSET {"answer", "hangup"}]
    /\ record \in [Calls -> Record \cup {None}]
    /\ stream \in [Calls -> {"none", "open", "closed"}]
    /\ frames \in [Calls -> 0..MaxCommands]
    /\ audio \in [Calls -> [pc: AudioStates, faults: 0..MaxFaults]]
    /\ kill \in [Kills -> [pc: {"Lookup", "RequestClose", "CallCloseFn", "Done"},
                           target: Calls \cup {None}]]
    /\ closeFnRuns \in [Calls -> Nat]

Init ==
    /\ pc = [c \in Calls |-> "ReadFirst"]
    /\ callType \in [Calls -> {"websocket", "webrtc"}]
    /\ id \in [Calls -> Ids]
    /\ conn = [c \in Calls |-> "open"]
    /\ sess = [c \in Calls |-> None]
    /\ sessions = [i \in Ids |-> None]
    /\ closeInfo = [c \in Calls |-> DisconnectInfo]
    /\ closing = [c \in Calls |-> None]
    /\ sent = [c \in Calls |-> {}]
    /\ record = [c \in Calls |-> None]
    /\ stream = [c \in Calls |-> "none"]
    /\ frames = [c \in Calls |-> MaxCommands]
    /\ audio = [c \in Calls |-> [pc |-> "off", faults |-> 0]]
    /\ kill = [k \in Kills |-> [pc |-> "Lookup", target |-> None]]
    /\ closeFnRuns = [c \in Calls |-> 0]

-----------------------------------------------------------------------------
(* Helpers *)

Goto(c, from, to) == pc[c] = from /\ pc' = [pc EXCEPT ![c] = to]

SessionStep(c, s) == sess' = [sess EXCEPT ![c] = s]

\* buildAnswerSDP: the answer to a WebRTC call has an SDP, that to a websocket call is "".
AnswerHasSDP(c) == callType[c] = "webrtc"

\* The close function serveWS binds is conn.Close: the connection is closed
\* whatever became of it.
RunCloseFn(c) ==
    /\ conn' = [conn EXCEPT ![c] = "closed"]
    /\ closeFnRuns' = [closeFnRuns EXCEPT ![c] = @ + 1]

\* WriteEvent succeeds while the peer is there, and may succeed into the
\* kernel's buffers when it no longer is.
WriteSucceeds(c) == conn[c] \in {"open", "lost"} /\ UNCHANGED conn

\* WriteEvent fails once the gateway closed the connection or a write failed,
\* and may fail when the peer is gone.
WriteFails(c) ==
    /\ conn[c] # "open"
    /\ conn' = [conn EXCEPT ![c] = IF @ = "lost" THEN "broken" ELSE @]

\* serveWS gives up: it notes the error and is about to call Fail with it.
GiveUp(c, from) ==
    /\ Goto(c, from, "RequestClose")
    /\ closeInfo' = [closeInfo EXCEPT ![c] = FailInfo("error")]

-----------------------------------------------------------------------------
(* Faulty variants of actions below, against which the properties are tried. *)

\* The read error is taken for a frame to skip.
ReadMessageRetries(c) ==
    /\ conn[c] # "open"
    /\ Goto(c, "ReadMessage", "ReadMessage")
    /\ UNCHANGED <<locals, outputs, registry, wire, others>>

\* The check that the command asks for a close is missing.
WriteRepliesAlwaysClose(c) ==
    /\ WriteSucceeds(c)
    /\ Goto(c, "WriteReplies", "RequestClose")
    /\ closeInfo' = [closeInfo EXCEPT ![c] = closing[c]]
    /\ closing' = [closing EXCEPT ![c] = None]
    /\ sent' = [sent EXCEPT ![c] = @ \cup {"hangup"}]
    /\ UNCHANGED <<request, record, stream, frames, closeFnRuns, registry, others>>

\* The record is made from serveWS's local variable.
WriteRecordLocal(c) ==
    /\ Goto(c, "WriteRecord", "Release")
    /\ record' = [record EXCEPT ![c] =
                     [reason |-> closeInfo[c].reason, initiator |-> closeInfo[c].initiator,
                      err |-> closeInfo[c].err,
                      answer |-> sess[c].answered /\ AnswerHasSDP(c)]]
    /\ UNCHANGED <<sent, stream, locals, registry, wire, others>>

\* The session is left in the manager.
DeleteForgotten(c) ==
    /\ Goto(c, "Delete", "WriteRecord")
    /\ UNCHANGED <<locals, outputs, registry, wire, others>>

\* Kill takes the session out of the map.
KillLookupDeletes(k, i) ==
    /\ kill[k].pc = "Lookup"
    /\ kill' = [kill EXCEPT ![k] = [pc |-> IF sessions[i] = None THEN "Done" ELSE "RequestClose",
                                    target |-> sessions[i]]]
    /\ sessions' = [sessions EXCEPT ![i] = None]
    /\ UNCHANGED <<pc, sess, audio, locals, outputs, wire>>

\* Kill calls the close function without asking whether it was called.
KillRequestCloseAgain(k) ==
    /\ kill[k].pc = "RequestClose"
    /\ LET c == kill[k].target
       IN  /\ kill' = [kill EXCEPT ![k].pc = IF sess[c].closeFn THEN "CallCloseFn" ELSE "Done"]
           /\ SessionStep(c, RequestClose(sess[c], KillInfo))
    /\ UNCHANGED <<pc, sessions, audio, locals, outputs, wire>>

-----------------------------------------------------------------------------
(* serveWS, up to the answer *)

\* The first message: nothing comes, or it is no valid invite or accept and
\* the error event that is sent may or may not arrive (its result is dropped).
\* Either way there is no session, and the deferred calls only close conn.
ReadFirstFails(c) ==
    /\ Goto(c, "ReadFirst", "CloseConn")
    /\ UNCHANGED <<locals, outputs, registry, wire, others>>

ReadFirst(c) ==
    /\ Goto(c, "ReadFirst", "Create")
    /\ UNCHANGED <<locals, outputs, registry, wire, others>>

\* Manager.Create looks at nothing: a session already there under the same id
\* is replaced.
Create(c) ==
    /\ Goto(c, "Create", "BeginHandshake")
    /\ SessionStep(c, NewSession)
    /\ sessions' = [sessions EXCEPT ![id[c]] = c]
    /\ UNCHANGED <<locals, outputs, wire, others>>

DoBeginHandshake(c) ==
    /\ Goto(c, "BeginHandshake", "BindCloseFunc")
    /\ SessionStep(c, BeginHandshake(sess[c]))
    /\ UNCHANGED <<sessions, locals, outputs, wire, others>>

DoBindCloseFunc(c) ==
    /\ Goto(c, "BindCloseFunc", IF BindCallsNow(sess[c]) THEN "BindCalls" ELSE "BuildAnswer")
    /\ SessionStep(c, BindCloseFunc(sess[c]))
    /\ UNCHANGED <<sessions, locals, outputs, wire, others>>

BindCalls(c) ==
    /\ Goto(c, "BindCalls", "BuildAnswer")
    /\ RunCloseFn(c)
    /\ UNCHANGED <<locals, outputs, registry, others>>

\* The audio pipeline is built for either kind of call; a WebRTC call goes on
\* to negotiate.
BuildAnswer(c) ==
    /\ Goto(c, "BuildAnswer", "WriteAnswer")
    /\ stream' = [stream EXCEPT ![c] = "open"]
    /\ UNCHANGED <<sent, record, locals, registry, wire, others>>

\* BuildAnswer has closed the peer connection itself, and the track it built
\* is not kept.
BuildAnswerFails(c) ==
    /\ callType[c] = "webrtc"
    /\ GiveUp(c, "BuildAnswer")
    /\ stream' = [stream EXCEPT ![c] = "open"]
    /\ UNCHANGED <<request, closing, sent, record, frames, registry, wire, others>>

WriteAnswer(c) ==
    /\ Goto(c, "WriteAnswer", "RecordAnswer")
    /\ WriteSucceeds(c)
    /\ sent' = [sent EXCEPT ![c] = @ \cup {"answer"}]
    /\ UNCHANGED <<record, stream, closeFnRuns, locals, registry, others>>

WriteAnswerFails(c) ==
    /\ GiveUp(c, "WriteAnswer")
    /\ WriteFails(c)
    /\ UNCHANGED <<request, closing, frames, closeFnRuns, outputs, registry, others>>

DoRecordAnswer(c) ==
    /\ Goto(c, "RecordAnswer", "MarkActive")
    /\ SessionStep(c, RecordAnswer(sess[c]))
    /\ UNCHANGED <<sessions, locals, outputs, wire, others>>

DoMarkActive(c) ==
    /\ Goto(c, "MarkActive", "ReadMessage")
    /\ SessionStep(c, MarkActive(sess[c]))
    /\ UNCHANGED <<sessions, locals, outputs, wire, others>>

-----------------------------------------------------------------------------
(* serveWS, the command loop *)

\* The read fails once the connection is not whole; serveWS returns with the
\* close information it started with.
ReadMessageFails(c) ==
    /\ conn[c] # "open"
    /\ Goto(c, "ReadMessage", "Finalize")
    /\ UNCHANGED <<locals, outputs, registry, wire, others>>

\* One more frame: the peer sent it, or it was received before the connection
\* went and still is in the reader's buffer.
TakeFrame(c, to) ==
    /\ frames[c] > 0
    /\ frames' = [frames EXCEPT ![c] = @ - 1]
    /\ Goto(c, "ReadMessage", to)

\* A binary frame goes through the audio pipeline, which may start a
\* recognition session and the goroutine that forwards its results.  The
\* errors the pipeline answers with are written back.  A WebRTC call drops it.
ReadAudio(c) ==
    /\ TakeFrame(c, "WriteReplies")
    /\ audio' = IF callType[c] = "websocket" /\ audio[c].pc = "off"
                THEN [audio EXCEPT ![c].pc = "on"] ELSE audio
    /\ UNCHANGED <<request, closeInfo, closing, kill, outputs, registry, wire>>

\* A text frame that is no command, or a candidate the peer connection refuses.
ReadNonsense(c) ==
    /\ frames[c] > 0
    /\ frames' = [frames EXCEPT ![c] = @ - 1]
    /\ GiveUp(c, "ReadMessage")
    /\ UNCHANGED <<request, closing, outputs, registry, wire, others>>

\* A hangup command passes on what the client gives as reason and initiator.
Hangups == {HangupInfo(r, i) : r \in HangupReasons, i \in HangupInitiators}

\* What a command may ask of its session: nothing, or to close.  A tts or play
\* command with autoHangup closes when its synthesis succeeded.
CloseResults == {None, AutoHangupInfo} \cup Hangups

\* A command, which CommandRouter.Route serves to the end before anything is
\* written: a synthesis it asks for is over by then, however long it takes.
ReadCommand(c) ==
    /\ TakeFrame(c, "Route")
    /\ UNCHANGED <<request, closeInfo, closing, outputs, registry, wire, others>>

Route(c) ==
    /\ Goto(c, "Route", "WriteReplies")
    /\ \E close \in CloseResults : closing' = [closing EXCEPT ![c] = close]
    /\ UNCHANGED <<request, closeInfo, frames, outputs, registry, wire, others>>

\* All the events of the command are written, a hangup event last.  Then the
\* command's close takes effect.
WriteReplies(c) ==
    /\ WriteSucceeds(c)
    /\ IF closing[c] = None
       THEN Goto(c, "WriteReplies", "ReadMessage") /\ UNCHANGED <<closeInfo, closing, sent>>
       ELSE /\ Goto(c, "WriteReplies", "RequestClose")
            /\ closeInfo' = [closeInfo EXCEPT ![c] = closing[c]]
            /\ closing' = [closing EXCEPT ![c] = None]
            /\ sent' = [sent EXCEPT ![c] = @ \cup {"hangup"}]
    /\ UNCHANGED <<request, record, stream, frames, closeFnRuns, registry, others>>

\* A frame that is answered with nothing needs no working connection.
NoReply(c) ==
    /\ closing[c] = None
    /\ Goto(c, "WriteReplies", "ReadMessage")
    /\ UNCHANGED <<locals, outputs, registry, wire, others>>

\* One of the events is not written: the close the command asked for is forgotten.
WriteRepliesFails(c) ==
    /\ GiveUp(c, "WriteReplies")
    /\ WriteFails(c)
    /\ closing' = [closing EXCEPT ![c] = None]
    /\ UNCHANGED <<request, frames, closeFnRuns, outputs, registry, others>>

\* RequestClose(closeInfo), or Fail with the error closeInfo holds.
DoRequestClose(c) ==
    /\ Goto(c, "RequestClose", IF TakesCloseFn(sess[c]) THEN "CallCloseFn" ELSE "Finalize")
    /\ SessionStep(c, RequestClose(sess[c], closeInfo[c]))
    /\ UNCHANGED <<sessions, locals, outputs, wire, others>>

CallCloseFn(c) ==
    /\ Goto(c, "CallCloseFn", "Finalize")
    /\ RunCloseFn(c)
    /\ UNCHANGED <<locals, outputs, registry, others>>

-----------------------------------------------------------------------------
(* serveWS, the deferred calls *)

DoFinalize(c) ==
    /\ Goto(c, "Finalize", "CloseDone")
    /\ SessionStep(c, Finalize(sess[c], closeInfo[c]))
    /\ UNCHANGED <<sessions, locals, outputs, wire, others>>

CloseDone(c) ==
    /\ Goto(c, "CloseDone", "Delete")
    /\ UNCHANGED <<locals, outputs, registry, wire, others>>

\* Manager.Delete goes by the id: it removes whatever session is there.
Delete(c) ==
    /\ Goto(c, "Delete", "WriteRecord")
    /\ sessions' = [sessions EXCEPT ![id[c]] = None]
    /\ UNCHANGED <<sess, locals, outputs, wire, others>>

\* buildCallRecord takes the close information from a snapshot of the session,
\* which by now names a cause, and not from serveWS's local variable.  The answer is
\* the text the session was told with RecordAnswer; that and when it was told is not kept.
WriteRecord(c) ==
    /\ Goto(c, "WriteRecord", "Release")
    /\ record' = [record EXCEPT ![c] =
                     [reason |-> sess[c].closeInfo.reason,
                      initiator |-> sess[c].closeInfo.initiator,
                      err |-> sess[c].closeInfo.err,
                      answer |-> sess[c].answered /\ AnswerHasSDP(c)]]
    /\ UNCHANGED <<sent, stream, locals, registry, wire, others>>

\* A websocket call closes its audio stream; a WebRTC call closes its peer
\* connection and leaves the stream alone.
Release(c) ==
    /\ Goto(c, "Release", "CloseConn")
    /\ stream' = IF callType[c] = "websocket" /\ stream[c] = "open"
                 THEN [stream EXCEPT ![c] = "closed"] ELSE stream
    /\ UNCHANGED <<sent, record, locals, registry, wire, others>>

CloseConn(c) ==
    /\ Goto(c, "CloseConn", "Done")
    /\ conn' = [conn EXCEPT ![c] = "closed"]
    /\ UNCHANGED <<closeFnRuns, locals, outputs, registry, others>>

-----------------------------------------------------------------------------
(* The audio goroutine of a call *)

Audio(c, to) == audio' = [audio EXCEPT ![c].pc = to]

\* The peer starts sending its track: it can once it has the answer, and until
\* the peer connection is closed.
TrackStarts(c) ==
    /\ callType[c] = "webrtc" /\ audio[c].pc = "off"
    /\ "answer" \in sent[c] /\ pc[c] \notin {"CloseConn", "Done"}
    /\ Audio(c, "on")
    /\ UNCHANGED <<pc, kill, locals, outputs, registry, wire>>

\* An event cannot be written, or the recogniser or the track reports an error.
\* It may happen at any time, also when serveWS has returned: nothing waits
\* for this goroutine.
AudioFails(c) ==
    /\ audio[c].pc = "on" /\ audio[c].faults < MaxFaults
    /\ audio' = [audio EXCEPT ![c] = [pc |-> "Fail", faults |-> @.faults + 1]]
    /\ WriteFails(c) \/ UNCHANGED conn
    /\ UNCHANGED <<pc, kill, closeFnRuns, locals, outputs, registry>>

AudioFail(c) ==
    /\ audio[c].pc = "Fail"
    /\ Audio(c, IF TakesCloseFn(sess[c]) THEN "CallCloseFn" ELSE "on")
    /\ SessionStep(c, RequestClose(sess[c], FailInfo("error")))
    /\ UNCHANGED <<pc, sessions, kill, locals, outputs, wire>>

AudioCallsCloseFn(c) ==
    /\ audio[c].pc = "CallCloseFn"
    /\ Audio(c, "on")
    /\ RunCloseFn(c)
    /\ UNCHANGED <<pc, kill, locals, outputs, registry>>

-----------------------------------------------------------------------------
(* The kill interface: Manager.Kill finds the session under the manager's    *)
(* read lock and requests its close after letting go of it.                  *)

KillLookup(k, i) ==
    /\ kill[k].pc = "Lookup"
    /\ kill' = [kill EXCEPT ![k] = [pc |-> IF sessions[i] = None THEN "Done" ELSE "RequestClose",
                                    target |-> sessions[i]]]
    /\ UNCHANGED <<pc, audio, locals, outputs, registry, wire>>

KillRequestClose(k) ==
    /\ kill[k].pc = "RequestClose"
    /\ LET c == kill[k].target
       IN  /\ kill' = [kill EXCEPT ![k].pc = IF TakesCloseFn(sess[c]) THEN "CallCloseFn"
                                             ELSE "Done"]
           /\ SessionStep(c, RequestClose(sess[c], KillInfo))
    /\ UNCHANGED <<pc, sessions, audio, locals, outputs, wire>>

KillCallsCloseFn(k) ==
    /\ kill[k].pc = "CallCloseFn"
    /\ kill' = [kill EXCEPT ![k].pc = "Done"]
    /\ RunCloseFn(kill[k].target)
    /\ UNCHANGED <<pc, audio, locals, outputs, registry>>

-----------------------------------------------------------------------------
(* The peer goes away. *)

PeerLeaves(c) ==
    /\ conn[c] = "open"
    /\ conn' = [conn EXCEPT ![c] = "lost"]
    /\ UNCHANGED <<pc, closeFnRuns, locals, outputs, registry, others>>

-----------------------------------------------------------------------------
(* The specification *)

\* Steps of serveWS that wait for no one.
LocalStep(c) ==
    \/ Create(c) \/ DoBeginHandshake(c) \/ DoBindCloseFunc(c) \/ BindCalls(c)
    \/ BuildAnswer(c) \/ BuildAnswerFails(c) \/ DoRecordAnswer(c) \/ DoMarkActive(c)
    \/ Route(c) \/ DoRequestClose(c) \/ CallCloseFn(c)
    \/ DoFinalize(c) \/ CloseDone(c) \/ Delete(c) \/ WriteRecord(c) \/ Release(c)
    \/ CloseConn(c)

\* Steps of serveWS that read from or write to the connection.
ConnStep(c) ==
    \/ ReadFirst(c) \/ ReadFirstFails(c) \/ WriteAnswer(c) \/ WriteAnswerFails(c)
    \/ ReadMessageFails(c) \/ ReadAudio(c) \/ ReadNonsense(c) \/ ReadCommand(c)
    \/ WriteReplies(c) \/ NoReply(c) \/ WriteRepliesFails(c)

AudioStep(c) == AudioFail(c) \/ AudioCallsCloseFn(c)
KillStep(k)  == KillRequestClose(k) \/ KillCallsCloseFn(k)

Next ==
    \/ \E c \in Calls :
        \/ LocalStep(c) \/ ConnStep(c)
        \/ TrackStarts(c) \/ AudioFails(c) \/ AudioStep(c)
        \/ PeerLeaves(c)
    \/ \E k \in Kills : KillStep(k) \/ \E i \in Ids : KillLookup(k, i)

\* A goroutine that waits for no one is scheduled.  Reads and writes carry no
\* deadline, so on an open connection they may wait for the peer for ever; on
\* one that is closed or lost they return.  Nobody is obliged to kill a call,
\* and nothing obliges the audio pipeline to fail.
Fairness ==
    /\ \A c \in Calls :
        /\ WF_vars(LocalStep(c))
        /\ WF_vars(conn[c] # "open" /\ ConnStep(c))
        /\ WF_vars(AudioStep(c))
    /\ \A k \in Kills : WF_vars(KillStep(k))

Spec == Init /\ [][Next]_vars /\ Fairness

-----------------------------------------------------------------------------
(* Properties *)

Registered(c) == sess[c] # None /\ sessions[id[c]] = c

\* Manager.List, as the set of calls it returns.
List == {c \in Calls : Registered(c) /\ VisibleInList(sess[c])}

\* What the kill and list interfaces see is right: the manager knows exactly the calls
\* between Create and Delete, so a call that is being served can be listed and killed, unless
\* another call has its id; and no closer takes the connection of a call that is still listed.
ServedIsRegistered ==
    \A c \in Calls :
        /\ (\A d \in Calls \ {c} : id[d] # id[c]) =>
               (Registered(c) <=>
                   pc[c] \notin {"ReadFirst", "Create", "WriteRecord", "Release", "CloseConn", "Done"})
        /\ c \in List => conn[c] # "closed"

\* The record of a WebRTC call has the answer exactly when the client was sent one, also
\* when the call was killed or failed between the two; that of a websocket call never has,
\* for its answer carries no SDP.
RecordTellsAnswer ==
    \A c \in Calls :
        record[c] # None =>
            (record[c].answer <=> callType[c] = "webrtc" /\ "answer" \in sent[c])

Killed(c) == \E k \in Kills : kill[k].target = c

\* A text of a record is that of the hangup event, or a kill's where the event has none.
FromEventOrKill(c, text, ofEvent, ofKill) ==
    text = ofEvent \/ (ofEvent = "" /\ text = ofKill /\ Killed(c))

\* The record agrees with what ended the call, whoever else asked for a close as well: a
\* killed call says so and a failed one gives the error.  A call put down to a hangup, at any
\* time, has sent its client the hangup event (the order call_handler.go:242 insists on), and
\* its record repeats the event, of which a kill fills in what is blank.  And a call that
\* nobody killed, and that announced no hangup, names neither reason nor initiator.
RecordTellsCause ==
    \A c \in Calls :
        /\ record[c] # None =>
            /\ sess[c].closeInfo.cause = "kill" =>
                  record[c].reason = "killed" /\ record[c].initiator = "system"
            /\ sess[c].closeInfo.cause = "error" => record[c].err # ""
            /\ sess[c].closeInfo.cause = "hangup" =>
                  /\ FromEventOrKill(c, record[c].reason, closeInfo[c].reason, "killed")
                  /\ FromEventOrKill(c, record[c].initiator, closeInfo[c].initiator, "system")
            /\ ~Killed(c) /\ "hangup" \notin sent[c] =>
                  record[c].reason = "" /\ record[c].initiator = ""
        /\ sess[c] # None /\ sess[c].closeInfo.cause = "hangup" => "hangup" \in sent[c]

\* When every handler has returned nothing is left behind: the manager is empty,
\* whatever the ids, and every session is closed and has its record.
NothingLeftBehind ==
    (\A c \in Calls : pc[c] = "Done") =>
        /\ \A i \in Ids : sessions[i] = None
        /\ \A c \in Calls : conn[c] = "closed"
        /\ \A c \in Calls : sess[c] # None => sess[c].state = "closed" /\ record[c] # None

\* A kill that found a call ends it: the handler returns, however the kill falls
\* among the handler's own steps and the audio goroutine's.
KillEndsCall ==
    \A k \in Kills, c \in Calls : kill[k].target = c ~> pc[c] = "Done"

\* A call whose connection is lost, broken or closed ends, and if it had a
\* session leaves its record.
LostConnEndsCall ==
    \A c \in Calls :
        conn[c] # "open" ~> pc[c] = "Done" /\ (sess[c] # None => record[c] # None)

-----------------------------------------------------------------------------
(* Every call uses its session the way SessionClose lets goroutines use one *)

Users == {"serveWS", "audio"} \cup Kills

\* What user u has still to do to the session of call c, having let go of its lock.
Owed(c, u) ==
    CASE u = "serveWS" -> IF pc[c] \in {"BindCalls", "CallCloseFn"} THEN "closeFn"
                          ELSE IF pc[c] = "CloseDone" THEN "close(done)" ELSE "nothing"
      [] u = "audio" -> IF audio[c].pc = "CallCloseFn" THEN "closeFn" ELSE "nothing"
      [] OTHER -> IF kill[u].target = c /\ kill[u].pc = "CallCloseFn"
                  THEN "closeFn" ELSE "nothing"

SessionOf(c) == INSTANCE SessionClose WITH
    Routines <- Users,
    s <- IF sess[c] = None THEN NewSession ELSE sess[c],
    todo <- [u \in Users |-> Owed(c, u)],
    closeFnRuns <- closeFnRuns[c],
    doneCloses <- IF sess[c] # None
                     /\ pc[c] \in {"Delete", "WriteRecord", "Release", "CloseConn", "Done"}
                  THEN 1 ELSE 0

\* Seen from one session, the whole gateway is a behaviour of SessionClose, so
\* what is proved there holds of every session here.
SessionsUsedWell ==
    /\ \A c \in Calls : SessionOf(c)!Init
    /\ [][\A c \in Calls : [SessionOf(c)!Next]_(SessionOf(c)!vars)]_vars

-----------------------------------------------------------------------------
(* What comments in the code say, and the code does not do *)

\* chain.go:60-61: no recognition session is left hanging when the connection
\* has ended: the audio stream of a call that had one is closed.
StreamIsReleased ==
    \A c \in Calls : pc[c] = "Done" /\ audio[c].pc # "off" => stream[c] = "closed"
=============================================================================
