------------------------- MODULE CallHandlerProofs -------------------------
(***************************************************************************)
(* Proofs about CallHandler, for any number of calls and kill requests,    *)
(* any ids and any bounds.                                                 *)
(*                                                                         *)
(* The inductive invariant says, of each call, how what serveWS has done   *)
(* so far (its pc) agrees with the session it shares with the other        *)
(* goroutines, the connection, and what it leaves behind; and of the       *)
(* manager's map, that it holds nobody who is not being served.            *)
(*                                                                         *)
(* Every step is then shown to be one of SessionClose for each session, or *)
(* none for it; by the lemmas of SessionOpsProofs all sessions are orderly, *)
(* which gives for the gateway what SessionClose promises of one session.  *)
(***************************************************************************)
EXTENDS CallHandler, SessionOpsProofs

-----------------------------------------------------------------------------
(* The inductive invariant *)

Before    == {"ReadFirst", "Create"}
Unbound   == {"BeginHandshake", "BindCloseFunc"}
Unanswered == Before \cup Unbound \cup {"BindCalls", "BuildAnswer", "WriteAnswer"}
Unasked   == Unanswered \cup {"RecordAnswer", "MarkActive", "ReadMessage", "Route",
                              "WriteReplies", "RequestClose"}
Recorded  == {"Release", "CloseConn", "Done"}
Finalized == {"CloseDone", "Delete", "WriteRecord"} \cup Recorded
Served    == PC \ (Before \cup {"WriteRecord"} \cup Recorded)

\* What a close may say while nobody was killed.
OwnInfos == {DisconnectInfo, FailInfo("error")} \cup (CloseResults \ {None})

\* There is a session from Create on, and only then anything of it.
SessionPlaced(c) ==
    /\ pc[c] \in Before => sess[c] = None
    /\ sess[c] = None =>
        /\ pc[c] \in Before \cup {"CloseConn", "Done"}
        /\ audio[c].pc = "off" /\ closeFnRuns[c] = 0 /\ record[c] = None

\* The close function was called, or is about to be.
CloseFnDue(c) ==
    \/ closeFnRuns[c] > 0
    \/ pc[c] \in {"BindCalls", "CallCloseFn"}
    \/ audio[c].pc = "CallCloseFn"
    \/ \E k \in Kills : kill[k].target = c /\ kill[k].pc = "CallCloseFn"

\* The session agrees with where serveWS is, and with the calls of the close
\* function that were made or are owed.
SessionAgrees(c) ==
    sess[c] # None =>
        /\ InOrder(sess[c])
        /\ sess[c].state \in Live <=> ~sess[c].closeRequested
        /\ sess[c].state = "closed" <=> pc[c] \in Finalized
        /\ sess[c].done <=> pc[c] \notin Finalized
        /\ pc[c] \in Unbound => ~sess[c].closeFn
        /\ sess[c].closeFnCalled => sess[c].closeRequested
        /\ CloseFnDue(c) => sess[c].closeFnCalled

\* Who has a session in hand has one.
HoldersPlaced ==
    \A k \in Kills :
        /\ kill[k].pc \in {"RequestClose", "CallCloseFn"} => kill[k].target # None
        /\ kill[k].pc = "Lookup" => kill[k].target = None
        /\ kill[k].target # None => sess[kill[k].target] # None

\* The gateway closes a connection through the close function, or at the end.
ConnPlaced(c) ==
    /\ conn[c] = "closed" => pc[c] = "Done" \/ closeFnRuns[c] > 0
    /\ pc[c] = "Done" => conn[c] = "closed"

\* The session knows of an answer once serveWS has been past the write.
AnswerKnown(c) ==
    /\ pc[c] \in Unanswered => "answer" \notin sent[c]
    /\ pc[c] = "RecordAnswer" => "answer" \in sent[c]
    /\ sess[c] # None => (sess[c].answered <=> "answer" \in sent[c] /\ pc[c] # "RecordAnswer")

\* What was asked of serveWS, and what it asks itself.
AskedFor(c) ==
    /\ closing[c] \in CloseResults
    /\ closeInfo[c] \in OwnInfos
    /\ closeInfo[c].cause = "hangup" => "hangup" \in sent[c]
    /\ pc[c] = "RequestClose" => closeInfo[c].cause # "disconnect"

\* The close information of the session says what ended the call.
CauseKnown(c) ==
    sess[c] # None =>
        /\ sess[c].closeInfo.cause = "hangup" => "hangup" \in sent[c]
        /\ sess[c].closeInfo.cause = "kill" =>
               sess[c].closeInfo.reason = "killed" /\ sess[c].closeInfo.initiator = "system"
        /\ sess[c].closeInfo.cause = "error" => sess[c].closeInfo.err # ""

\* Without a kill, it can only say what serveWS has asked for; and what it says of a
\* hangup is serveWS's, but for what a kill has filled in.
KillKnown(c) ==
    sess[c] # None =>
        /\ ~Killed(c) =>
            \/ sess[c].closeInfo.reason = "" /\ sess[c].closeInfo.initiator = ""
            \/ /\ pc[c] \notin Unasked
               /\ sess[c].closeInfo.reason = closeInfo[c].reason
               /\ sess[c].closeInfo.initiator = closeInfo[c].initiator
        /\ sess[c].closeInfo.cause = "hangup" =>
            /\ pc[c] \notin Unasked
            /\ FromEventOrKill(c, sess[c].closeInfo.reason, closeInfo[c].reason, "killed")
            /\ FromEventOrKill(c, sess[c].closeInfo.initiator, closeInfo[c].initiator, "system")

\* The record is there when serveWS is past writing it, and keeps saying what
\* the session says.
RecordKept(c) ==
    /\ record[c] # None <=> sess[c] # None /\ pc[c] \in Recorded
    /\ record[c] # None =>
        /\ record[c].answer <=> sess[c].answered /\ callType[c] = "webrtc"
        /\ sess[c].closeInfo.cause = "kill" =>
               record[c].reason = "killed" /\ record[c].initiator = "system"
        /\ sess[c].closeInfo.cause = "error" => record[c].err # ""
        /\ sess[c].closeInfo.cause = "hangup" =>
            /\ FromEventOrKill(c, record[c].reason, closeInfo[c].reason, "killed")
            /\ FromEventOrKill(c, record[c].initiator, closeInfo[c].initiator, "system")
        /\ ~Killed(c) /\ "hangup" \notin sent[c] =>
               record[c].reason = "" /\ record[c].initiator = ""

\* Only who is being served is in the map, and only under its own id; who has
\* an id of its own is there.
MapKept ==
    /\ \A i \in Ids : sessions[i] # None =>
           id[sessions[i]] = i /\ pc[sessions[i]] \in Served
    /\ \A c \in Calls : pc[c] \in Served /\ (\A d \in Calls \ {c} : id[d] # id[c]) =>
           sessions[id[c]] = c

CallKept(c) ==
    /\ SessionPlaced(c) /\ SessionAgrees(c) /\ ConnPlaced(c) /\ AnswerKnown(c)
    /\ AskedFor(c) /\ CauseKnown(c) /\ KillKnown(c) /\ RecordKept(c)

IInv == TypeOK /\ (\A c \in Calls : CallKept(c)) /\ HoldersPlaced /\ MapKept

\* The invariant is strong enough for what the runs check.
LEMMA IInvImplies ==
    IInv => RecordTellsAnswer /\ RecordTellsCause /\ ServedIsRegistered /\ NothingLeftBehind
<1> SUFFICES ASSUME IInv
             PROVE  RecordTellsAnswer /\ RecordTellsCause /\ ServedIsRegistered
                    /\ NothingLeftBehind
  OBVIOUS
<1>1. RecordTellsAnswer
  BY DEF IInv, CallKept, RecordKept, AnswerKnown, RecordTellsAnswer, Recorded
<1>2. RecordTellsCause
  BY DEF IInv, CallKept, RecordKept, CauseKnown, RecordTellsCause
<1>3. ServedIsRegistered
  <2>0. \A c \in Calls : pc[c] \in PC
    BY DEF IInv, TypeOK
  <2> SUFFICES ASSUME NEW c \in Calls
               PROVE  /\ (\A d \in Calls \ {c} : id[d] # id[c]) =>
                            (Registered(c) <=> pc[c] \in Served)
                      /\ c \in List => conn[c] # "closed"
    BY <2>0 DEF ServedIsRegistered, Served, Before, Recorded
  <2>1. id[c] \in Ids /\ c # None
    BY NoneAssumption DEF IInv, TypeOK
  <2>2. Registered(c) => pc[c] \in Served
    BY <2>1 DEF Registered, IInv, MapKept
  <2>3. pc[c] \in Served => sess[c] # None
    BY DEF IInv, CallKept, SessionPlaced, Served, Recorded, Before
  <2>4. ASSUME c \in List PROVE conn[c] # "closed"
    <3>1. sess[c] # None /\ sess[c].state \in Live /\ pc[c] \in Served
      BY <2>2, <2>4 DEF List, Registered, VisibleInList
    <3>2. ~(closeFnRuns[c] > 0)
      BY <3>1 DEF IInv, CallKept, SessionAgrees, CloseFnDue
    <3> QED
      BY <3>1, <3>2 DEF IInv, CallKept, ConnPlaced, Served, Recorded
  <2> QED
    BY <2>2, <2>3, <2>4 DEF Registered, IInv, MapKept
<1>4. NothingLeftBehind
  <2> SUFFICES ASSUME \A c \in Calls : pc[c] = "Done"
               PROVE  /\ \A i \in Ids : sessions[i] = None
                      /\ \A c \in Calls : conn[c] = "closed"
                      /\ \A c \in Calls : sess[c] # None =>
                             sess[c].state = "closed" /\ record[c] # None
    BY DEF NothingLeftBehind
  <2>1. \A i \in Ids : sessions[i] \in Calls \cup {None}
    BY DEF IInv, TypeOK
  <2>2. \A i \in Ids : sessions[i] = None
    BY <2>1 DEF IInv, MapKept, Served, Recorded
  <2>3. ASSUME NEW c \in Calls
        PROVE  /\ conn[c] = "closed"
               /\ sess[c] # None => sess[c].state = "closed" /\ record[c] # None
    BY DEF IInv, CallKept, ConnPlaced, SessionAgrees, RecordKept, Finalized, Recorded
  <2> QED
    BY <2>2, <2>3
<1> QED
  BY <1>1, <1>2, <1>3, <1>4

LEMMA InitIInv == Init => IInv
<1> SUFFICES ASSUME Init PROVE IInv
  OBVIOUS
<1>1. DisconnectInfo \in CloseInfo /\ DisconnectInfo.cause = "disconnect"
  BY DEF DisconnectInfo, CloseInfo, Causes
<1>2. TypeOK
  <2>1. 0 \in 0..MaxFaults /\ MaxCommands \in 0..MaxCommands
    <3>1. MaxCommands \in Nat /\ MaxFaults \in Nat
      BY CallsAssumption
    <3> QED
      BY <3>1
  <2>2. /\ pc \in [Calls -> PC]
        /\ callType \in [Calls -> {"websocket", "webrtc"}]
        /\ id \in [Calls -> Ids]
        /\ conn \in [Calls -> ConnStates]
        /\ sess \in [Calls -> Session \cup {None}]
        /\ sessions \in [Ids -> Calls \cup {None}]
        /\ closeInfo \in [Calls -> CloseInfo]
        /\ closing \in [Calls -> CloseInfo \cup {None}]
    BY <1>1 DEF Init, PC, ConnStates
  <2>3. /\ sent \in [Calls -> SUBSET {"answer", "hangup"}]
        /\ record \in [Calls -> Record \cup {None}]
        /\ stream \in [Calls -> {"none", "open", "closed"}]
        /\ frames \in [Calls -> 0..MaxCommands]
        /\ closeFnRuns \in [Calls -> Nat]
    BY <2>1 DEF Init
  <2>4. audio \in [Calls -> [pc: AudioStates, faults: 0..MaxFaults]]
    BY <2>1 DEF Init, AudioStates
  <2>5. kill \in [Kills -> [pc: {"Lookup", "RequestClose", "CallCloseFn", "Done"},
                            target: Calls \cup {None}]]
    BY DEF Init
  <2> QED
    BY <2>2, <2>3, <2>4, <2>5 DEF TypeOK
<1>3. ASSUME NEW c \in Calls PROVE CallKept(c)
  BY <1>1 DEF Init, CallKept, SessionPlaced, SessionAgrees, ConnPlaced, AnswerKnown, AskedFor,
     CauseKnown, KillKnown, Killed, FromEventOrKill, RecordKept, CloseResults, OwnInfos,
     Before, Recorded
<1>4. HoldersPlaced
  BY DEF Init, HoldersPlaced
<1>5. MapKept
  BY DEF Init, MapKept, Served, Before
<1> QED
  BY <1>2, <1>3, <1>4, <1>5 DEF IInv

-----------------------------------------------------------------------------
(* Types of what the steps assign *)

LEMMA FrameTyped ==
    ASSUME TypeOK, NEW c \in Calls, frames[c] > 0, frames' = [frames EXCEPT ![c] = @ - 1]
    PROVE  frames' \in [Calls -> 0..MaxCommands]
<1>1. MaxCommands \in Nat
  BY CallsAssumption
<1>2. frames \in [Calls -> 0..MaxCommands]
  BY DEF TypeOK
<1>3. frames[c] - 1 \in 0..MaxCommands
  BY <1>1, <1>2
<1> QED
  BY <1>2, <1>3

LEMMA AudioTyped ==
    ASSUME TypeOK, NEW c \in Calls, NEW to \in AudioStates, Audio(c, to)
    PROVE  /\ audio' \in [Calls -> [pc: AudioStates, faults: 0..MaxFaults]]
           /\ audio'[c].pc = to
           /\ \A d \in Calls \ {c} : audio'[d] = audio[d]
<1>1. audio \in [Calls -> [pc: AudioStates, faults: 0..MaxFaults]]
  BY DEF TypeOK
<1> DEFINE a == [audio[c] EXCEPT !.pc = to]
<1>2. a \in [pc: AudioStates, faults: 0..MaxFaults] /\ a.pc = to
  BY <1>1
<1>3. audio' = [audio EXCEPT ![c] = a]
  BY DEF Audio
<1> HIDE DEF a
<1> QED
  BY <1>1, <1>2, <1>3

LEMMA RunsTyped ==
    ASSUME TypeOK, NEW c \in Calls, RunCloseFn(c)
    PROVE  /\ conn' \in [Calls -> ConnStates] /\ closeFnRuns' \in [Calls -> Nat]
           /\ conn'[c] = "closed" /\ closeFnRuns'[c] > 0
           /\ \A d \in Calls \ {c} : conn'[d] = conn[d] /\ closeFnRuns'[d] = closeFnRuns[d]
<1>1. closeFnRuns \in [Calls -> Nat] /\ conn \in [Calls -> ConnStates]
  BY DEF TypeOK
<1>2. closeFnRuns[c] + 1 \in Nat /\ closeFnRuns[c] + 1 > 0
  BY <1>1
<1> QED
  BY <1>1, <1>2 DEF RunCloseFn, ConnStates

LEMMA FailTyped == FailInfo("error") \in CloseInfo
BY CallsAssumption DEF FailInfo, CloseInfo, Causes

-----------------------------------------------------------------------------
(* Who is not concerned by a step *)

SameCall(d) ==
    /\ pc'[d] = pc[d] /\ conn'[d] = conn[d] /\ sess'[d] = sess[d]
    /\ closeInfo'[d] = closeInfo[d] /\ closing'[d] = closing[d] /\ sent'[d] = sent[d]
    /\ record'[d] = record[d] /\ audio'[d].pc = audio[d].pc
    /\ closeFnRuns'[d] = closeFnRuns[d] /\ callType'[d] = callType[d]

\* No kill is about to call the close function of d that was not, and those
\* that found d have found it.
SameKills(d) ==
    \A k \in Kills :
        /\ kill'[k].target = d /\ kill'[k].pc = "CallCloseFn" =>
               kill[k].target = d /\ kill[k].pc = "CallCloseFn"
        /\ kill[k].target = d => kill'[k].target = d

LEMMA CallUntouched ==
    ASSUME NEW d, CallKept(d), SameCall(d), SameKills(d)
    PROVE  CallKept(d)'
<1>1. SessionPlaced(d)' /\ ConnPlaced(d)' /\ AnswerKnown(d)' /\ AskedFor(d)' /\ CauseKnown(d)'
  BY DEF CallKept, SameCall, SessionPlaced, ConnPlaced, AnswerKnown, AskedFor, CauseKnown
<1>2. CloseFnDue(d)' => CloseFnDue(d)
  BY DEF SameCall, SameKills, CloseFnDue
<1>3. SessionAgrees(d)'
  BY <1>2 DEF CallKept, SameCall, SessionAgrees
<1>4. KillKnown(d)' /\ RecordKept(d)'
  BY DEF CallKept, SameCall, SameKills, KillKnown, Killed, FromEventOrKill, RecordKept
<1> QED
  BY <1>1, <1>3, <1>4 DEF CallKept

-----------------------------------------------------------------------------
(* What the goroutines of a call ask of its session *)

\* u is what a request, or Finalize, with close information info makes of the
\* session t, as far as the invariant can tell.
Asked(t, u, info) ==
    /\ u.closeRequested = TRUE /\ u.closeInfo.cause # ""
    /\ u.closeInfo.cause = OrElse(t.closeInfo.cause, info.cause)
    /\ u.closeInfo.reason = OrElse(t.closeInfo.reason, info.reason)
    /\ u.closeInfo.initiator = OrElse(t.closeInfo.initiator, info.initiator)
    /\ u.closeInfo.err = OrElse(t.closeInfo.err, info.err)
    /\ u.closeFn = t.closeFn /\ u.answered = t.answered

\* What anyone asks for is close information that names a cause.
LEMMA InfosTyped ==
    ASSUME NEW info \in OwnInfos \cup {KillInfo}
    PROVE  /\ info \in CloseInfo
           /\ info.cause \in Causes
           /\ info.cause = "error" => info.err # ""
           /\ info.cause = "kill" => info = KillInfo
<1>1. "" \notin Texts /\ "killed" \in Texts /\ "autohangup" \in Texts /\ "system" \in Texts
  BY TextsAssumption
<1>2. /\ "error" \in Texts
      /\ HangupReasons \subseteq Texts \cup {""} /\ HangupInitiators \subseteq Texts \cup {""}
  BY CallsAssumption
<1>3. CASE info = DisconnectInfo
  BY <1>3 DEF DisconnectInfo, CloseInfo, Causes
<1>4. CASE info = FailInfo("error")
  BY <1>1, <1>2, <1>4 DEF FailInfo, CloseInfo, Causes
<1>5. CASE info = AutoHangupInfo
  BY <1>1, <1>5 DEF AutoHangupInfo, HangupInfo, CloseInfo, Causes
<1>6. ASSUME NEW r \in HangupReasons, NEW i \in HangupInitiators, info = HangupInfo(r, i)
      PROVE  /\ info \in CloseInfo /\ info.cause = "hangup"
  BY <1>2, <1>6 DEF HangupInfo, CloseInfo, Causes
<1>7. CASE info = KillInfo
  <2>1. info \in CloseInfo /\ info.cause \in Causes /\ info.cause = "kill"
    BY <1>1, <1>7 DEF KillInfo, CloseInfo, Causes
  <2> QED
    BY <1>7, <2>1
<1>8. info \in Hangups => \E r \in HangupReasons, i \in HangupInitiators : info = HangupInfo(r, i)
  BY DEF Hangups
<1> QED
  BY <1>3, <1>4, <1>5, <1>6, <1>7, <1>8 DEF OwnInfos, CloseResults, Causes

\* A command that closes puts it down to a hangup.
LEMMA CommandsHangUp ==
    ASSUME NEW info \in CloseResults \ {None}
    PROVE  info.cause = "hangup"
<1>1. AutoHangupInfo.cause = "hangup"
  BY DEF AutoHangupInfo, HangupInfo
<1>2. info \in Hangups => \E r \in HangupReasons, i \in HangupInitiators : info = HangupInfo(r, i)
  BY DEF Hangups
<1>3. \A r, i : HangupInfo(r, i).cause = "hangup"
  BY DEF HangupInfo
<1> QED
  BY <1>1, <1>2, <1>3 DEF CloseResults

\* Who does not announce a hangup has neither reason nor initiator to give.
LEMMA OwnInfosBlank ==
    ASSUME NEW info \in OwnInfos, info.cause # "hangup"
    PROVE  info.reason = "" /\ info.initiator = ""
<1>1. CASE info = DisconnectInfo
  BY <1>1 DEF DisconnectInfo
<1>2. CASE info = FailInfo("error")
  BY <1>2 DEF FailInfo
<1>3. CASE info \in CloseResults \ {None}
  BY <1>3, CommandsHangUp
<1> QED
  BY <1>1, <1>2, <1>3 DEF OwnInfos

LEMMA RequestAsked ==
    ASSUME NEW t \in Session, InOrder(t), NEW info \in OwnInfos \cup {KillInfo}
    PROVE  /\ Asked(t, RequestClose(t, info), info)
           /\ RequestPost(t, RequestClose(t, info))
           /\ RequestClose(t, info) \in Session
<1>1. info \in CloseInfo /\ info.cause # ""
  BY InfosTyped DEF Causes
<1> DEFINE u == RequestClose(t, info)
<1>2. RequestPost(t, u)
  BY <1>1, RequestCloseCorrect
<1>3. /\ u.closeInfo.cause = OrElse(t.closeInfo.cause, info.cause)
      /\ u.closeInfo.reason = OrElse(t.closeInfo.reason, info.reason)
      /\ u.closeInfo.initiator = OrElse(t.closeInfo.initiator, info.initiator)
      /\ u.closeInfo.err = OrElse(t.closeInfo.err, info.err)
      /\ u.answered = t.answered
  BY <1>1, FillsBlanks
<1> QED
  BY <1>2, <1>3 DEF RequestPost, Asked

LEMMA FinalizeAsked ==
    ASSUME NEW t \in Session, InOrder(t), NEW info \in OwnInfos
    PROVE  /\ Asked(t, Finalize(t, info), info)
           /\ Finalize(t, info) \in Session
           /\ Finalize(t, info).state = "closed"
           /\ Finalize(t, info).closeFnCalled = t.closeFnCalled
           /\ Finalize(t, info).done = FALSE
<1>1. info \in CloseInfo /\ info.cause # ""
  BY InfosTyped DEF Causes
<1> DEFINE u == Finalize(t, info)
<1>2. /\ u \in Session
      /\ u.closeRequested = TRUE
      /\ u.closeInfo.cause # ""
      /\ u.state = "closed"
      /\ u.closeFn = t.closeFn
      /\ u.closeFnCalled = t.closeFnCalled
      /\ u.done = FALSE
  BY ZenonT(30), <1>1, FinalizeCorrect
<1>3. /\ u.closeInfo.cause = OrElse(t.closeInfo.cause, info.cause)
      /\ u.closeInfo.reason = OrElse(t.closeInfo.reason, info.reason)
      /\ u.closeInfo.initiator = OrElse(t.closeInfo.initiator, info.initiator)
      /\ u.closeInfo.err = OrElse(t.closeInfo.err, info.err)
      /\ u.answered = t.answered
  BY <1>1, FillsBlanks
<1> QED
  BY <1>2, <1>3 DEF Asked

-----------------------------------------------------------------------------
(* The steps of serveWS, as seen by its own call *)

\* Steps that change neither the session nor what is asked of it.
LEMMA QuietStep ==
    ASSUME TypeOK, NEW c \in Calls, CallKept(c),
           \/ ReadFirst(c) \/ ReadFirstFails(c) \/ BuildAnswer(c) \/ WriteAnswer(c)
           \/ ReadMessageFails(c) \/ NoReply(c) \/ CloseDone(c) \/ Delete(c) \/ Release(c)
           \/ CloseConn(c) \/ ReadCommand(c) \/ ReadAudio(c) \/ Route(c)
    PROVE  TypeOK' /\ CallKept(c)' /\ \A d \in Calls \ {c} : SameCall(d)
<1> USE DEF locals, outputs, registry, wire, others, request, Goto, PC, ConnStates, TypeOK,
            CallKept, SessionPlaced, SessionAgrees, CloseFnDue, ConnPlaced, AnswerKnown,
            AskedFor, CauseKnown, KillKnown, Killed, FromEventOrKill, RecordKept, Before,
            Unbound, Unanswered, Unasked, Recorded, Finalized, Served, SameCall
<1>1. CASE ReadFirst(c)
  BY <1>1 DEF ReadFirst
<1>2. CASE ReadFirstFails(c)
  BY <1>2 DEF ReadFirstFails
<1>3. CASE BuildAnswer(c)
  BY ZenonT(30), <1>3 DEF BuildAnswer
<1>4. CASE WriteAnswer(c)
  BY ZenonT(30), <1>4 DEF WriteAnswer, WriteSucceeds
<1>5. CASE ReadMessageFails(c)
  BY ZenonT(30), <1>5 DEF ReadMessageFails
<1>6. CASE NoReply(c)
  BY ZenonT(30), <1>6 DEF NoReply
<1>7. CASE CloseDone(c)
  BY ZenonT(30), <1>7 DEF CloseDone
<1>8. CASE Delete(c)
  BY ZenonT(30), <1>8 DEF Delete
<1>9. CASE Release(c)
  <2>1. TypeOK' /\ \A d \in Calls \ {c} : SameCall(d)
    BY <1>9 DEF Release
  <2>2. CallKept(c)'
    BY ZenonT(30), <1>9 DEF Release
  <2> QED
    BY <2>1, <2>2
<1>10. CASE CloseConn(c)
  <2>1. TypeOK' /\ \A d \in Calls \ {c} : SameCall(d)
    BY <1>10 DEF CloseConn
  <2>2. CallKept(c)'
    BY ZenonT(30), <1>10 DEF CloseConn
  <2> QED
    BY <2>1, <2>2
<1>11. CASE ReadCommand(c)
  <2>1. frames' \in [Calls -> 0..MaxCommands]
    BY <1>11, FrameTyped DEF ReadCommand, TakeFrame
  <2> QED
    BY ZenonT(30), <1>11, <2>1 DEF ReadCommand, TakeFrame
<1>12. CASE ReadAudio(c)
  <2>1. frames' \in [Calls -> 0..MaxCommands]
    BY <1>12, FrameTyped DEF ReadAudio, TakeFrame
  <2>2. audio' = audio \/ Audio(c, "on")
    BY <1>12 DEF ReadAudio, Audio
  <2>3. /\ audio' \in [Calls -> [pc: AudioStates, faults: 0..MaxFaults]]
        /\ audio'[c].pc = "CallCloseFn" => audio[c].pc = "CallCloseFn"
        /\ \A d \in Calls \ {c} : audio'[d] = audio[d]
    BY <2>2, AudioTyped DEF AudioStates
  <2> QED
    BY ZenonT(30), <1>12, <2>1, <2>3 DEF ReadAudio, TakeFrame
<1>13. CASE Route(c)
  <2>1. CloseResults \subseteq CloseInfo \cup {None}
    BY InfosTyped DEF OwnInfos
  <2>2. PICK close \in CloseResults : closing' = [closing EXCEPT ![c] = close]
    BY <1>13 DEF Route
  <2>3. TypeOK' /\ \A d \in Calls \ {c} : SameCall(d)
    BY <1>13, <2>1, <2>2 DEF Route
  <2>4. CallKept(c)'
    BY ZenonT(30), <1>13, <2>2 DEF Route
  <2> QED
    BY <2>3, <2>4
<1> QED
  BY <1>1, <1>2, <1>3, <1>4, <1>5, <1>6, <1>7, <1>8, <1>9, <1>10, <1>11, <1>12, <1>13

\* serveWS calls the close function: it was there to be called.
LEMMA OwnCloseStep ==
    ASSUME TypeOK, NEW c \in Calls, CallKept(c), BindCalls(c) \/ CallCloseFn(c)
    PROVE  TypeOK' /\ CallKept(c)' /\ \A d \in Calls \ {c} : SameCall(d)
<1> USE DEF locals, outputs, registry, wire, others, request, Goto, PC, ConnStates, TypeOK,
            CallKept, SessionPlaced, SessionAgrees, CloseFnDue, ConnPlaced, AnswerKnown,
            AskedFor, CauseKnown, KillKnown, Killed, FromEventOrKill, RecordKept, Before,
            Unbound, Unanswered, Unasked, Recorded, Finalized, Served, SameCall
<1>1. /\ conn' \in [Calls -> ConnStates] /\ closeFnRuns' \in [Calls -> Nat]
      /\ conn'[c] = "closed" /\ closeFnRuns'[c] > 0
      /\ \A d \in Calls \ {c} : conn'[d] = conn[d] /\ closeFnRuns'[d] = closeFnRuns[d]
  BY RunsTyped DEF BindCalls, CallCloseFn
<1>2. /\ pc[c] \in {"BindCalls", "CallCloseFn"}
      /\ UNCHANGED <<locals, outputs, registry, others>>
  BY DEF BindCalls, CallCloseFn
<1>3. PICK to \in {"BuildAnswer", "Finalize"} :
          /\ pc' = [pc EXCEPT ![c] = to]
          /\ pc[c] = "BindCalls" <=> to = "BuildAnswer"
  BY DEF BindCalls, CallCloseFn
<1>4. TypeOK' /\ \A d \in Calls \ {c} : SameCall(d)
  BY ZenonT(30), <1>1, <1>2, <1>3
<1>5. CallKept(c)'
  BY ZenonT(30), <1>1, <1>2, <1>3
<1> QED
  BY <1>4, <1>5

\* serveWS gives up, before it has asked the session for anything.
LEMMA GiveUpStep ==
    ASSUME TypeOK, NEW c \in Calls, CallKept(c),
           \/ BuildAnswerFails(c) \/ WriteAnswerFails(c) \/ ReadNonsense(c)
           \/ WriteRepliesFails(c)
    PROVE  TypeOK' /\ CallKept(c)' /\ \A d \in Calls \ {c} : SameCall(d)
<1> USE DEF locals, outputs, registry, wire, others, request, Goto, PC, ConnStates, TypeOK,
            CallKept, SessionPlaced, SessionAgrees, CloseFnDue, ConnPlaced, AnswerKnown,
            AskedFor, CauseKnown, KillKnown, Killed, FromEventOrKill, RecordKept, Before,
            Unbound, Unanswered, Unasked, Recorded, Finalized, Served, SameCall
<1>1. FailInfo("error") \in CloseInfo /\ FailInfo("error").cause = "error"
  BY FailTyped DEF FailInfo
<1>2. FailInfo("error") \in OwnInfos
  BY DEF OwnInfos
<1>3. None \in CloseResults
  BY DEF CloseResults
<1>4. CASE BuildAnswerFails(c)
  <2>1. TypeOK' /\ \A d \in Calls \ {c} : SameCall(d)
    BY <1>1, <1>4 DEF BuildAnswerFails, GiveUp
  <2>2. CallKept(c)'
    BY ZenonT(30), <1>1, <1>2, <1>4 DEF BuildAnswerFails, GiveUp
  <2> QED
    BY <2>1, <2>2
<1>5. CASE WriteAnswerFails(c)
  <2>1. TypeOK' /\ \A d \in Calls \ {c} : SameCall(d)
    BY ZenonT(30), <1>1, <1>5 DEF WriteAnswerFails, GiveUp, WriteFails
  <2>2. CallKept(c)'
    BY ZenonT(30), <1>1, <1>2, <1>5 DEF WriteAnswerFails, GiveUp, WriteFails
  <2> QED
    BY <2>1, <2>2
<1>6. CASE ReadNonsense(c)
  <2>1. frames' \in [Calls -> 0..MaxCommands]
    BY <1>6, FrameTyped DEF ReadNonsense
  <2>2. TypeOK' /\ \A d \in Calls \ {c} : SameCall(d)
    BY <1>1, <1>6, <2>1 DEF ReadNonsense, GiveUp
  <2>3. CallKept(c)'
    BY ZenonT(30), <1>1, <1>2, <1>6 DEF ReadNonsense, GiveUp
  <2> QED
    BY <2>2, <2>3
<1>7. CASE WriteRepliesFails(c)
  <2>1. TypeOK' /\ \A d \in Calls \ {c} : SameCall(d)
    BY ZenonT(30), <1>1, <1>7 DEF WriteRepliesFails, GiveUp, WriteFails
  <2>2. CallKept(c)'
    BY ZenonT(30), <1>1, <1>2, <1>3, <1>7 DEF WriteRepliesFails, GiveUp, WriteFails
  <2> QED
    BY <2>1, <2>2
<1> QED
  BY <1>4, <1>5, <1>6, <1>7

\* The replies are written, and then the command's close takes effect: the
\* client has the hangup event before the session hears of it.
LEMMA RepliesStep ==
    ASSUME TypeOK, NEW c \in Calls, CallKept(c), WriteReplies(c)
    PROVE  TypeOK' /\ CallKept(c)' /\ \A d \in Calls \ {c} : SameCall(d)
<1> USE DEF locals, outputs, registry, wire, others, request, Goto, PC, ConnStates, TypeOK,
            CallKept, SessionPlaced, SessionAgrees, CloseFnDue, ConnPlaced, AnswerKnown,
            AskedFor, CauseKnown, KillKnown, Killed, FromEventOrKill, RecordKept, Before,
            Unbound, Unanswered, Unasked, Recorded, Finalized, Served, SameCall
<1>1. None \in CloseResults
  BY DEF CloseResults
<1>2. UNCHANGED <<conn, request, record, stream, frames, closeFnRuns, registry, others>>
  BY DEF WriteReplies, WriteSucceeds
<1>3. CASE closing[c] = None
  <2>1. /\ pc[c] = "WriteReplies" /\ pc' = [pc EXCEPT ![c] = "ReadMessage"]
        /\ UNCHANGED <<closeInfo, closing, sent>>
    BY <1>3 DEF WriteReplies
  <2>2. TypeOK' /\ \A d \in Calls \ {c} : SameCall(d)
    BY <1>2, <2>1
  <2>3. CallKept(c)'
    BY ZenonT(30), <1>2, <2>1
  <2> QED
    BY <2>2, <2>3
<1>4. CASE closing[c] # None
  <2>1. closing[c] \in CloseInfo /\ closing[c] \in OwnInfos /\ closing[c].cause = "hangup"
    BY <1>4, CommandsHangUp DEF OwnInfos
  <2>2. /\ pc[c] = "WriteReplies" /\ pc' = [pc EXCEPT ![c] = "RequestClose"]
        /\ closeInfo' = [closeInfo EXCEPT ![c] = closing[c]]
        /\ closing' = [closing EXCEPT ![c] = None]
        /\ sent' = [sent EXCEPT ![c] = @ \cup {"hangup"}]
    BY <1>4 DEF WriteReplies
  <2>3. TypeOK' /\ \A d \in Calls \ {c} : SameCall(d)
    BY ZenonT(30), <1>2, <2>1, <2>2
  <2>4. CallKept(c)'
    BY ZenonT(30), <1>1, <1>2, <2>1, <2>2
  <2> QED
    BY <2>3, <2>4
<1> QED
  BY <1>3, <1>4

\* The record takes over what the session says, whose cause is settled.
LEMMA RecordStep ==
    ASSUME TypeOK, NEW c \in Calls, CallKept(c), WriteRecord(c)
    PROVE  TypeOK' /\ CallKept(c)' /\ \A d \in Calls \ {c} : SameCall(d)
<1> USE DEF locals, outputs, registry, wire, others, request, Goto, PC, ConnStates, TypeOK,
            CallKept, SessionPlaced, SessionAgrees, CloseFnDue, ConnPlaced, AnswerKnown,
            AskedFor, CauseKnown, KillKnown, Killed, FromEventOrKill, RecordKept, Before,
            Unbound, Unanswered, Unasked, Recorded, Finalized, Served, SameCall
<1>1. sess[c] \in Session /\ sess[c] # None
  BY ZenonT(30) DEF WriteRecord
<1>0. sess[c].closeInfo \in CloseInfo /\ sess[c].answered \in BOOLEAN
  BY <1>1 DEF Session
<1> DEFINE r == [reason |-> sess[c].closeInfo.reason, initiator |-> sess[c].closeInfo.initiator,
                 err |-> sess[c].closeInfo.err, answer |-> sess[c].answered /\ AnswerHasSDP(c)]
<1>2. /\ r \in Record /\ r # None
      /\ r.answer <=> sess[c].answered /\ callType[c] = "webrtc"
      /\ r.reason = sess[c].closeInfo.reason /\ r.initiator = sess[c].closeInfo.initiator
      /\ r.err = sess[c].closeInfo.err
  <2>1. r \in Record
    BY <1>0 DEF CloseInfo, Record, AnswerHasSDP
  <2> QED
    BY <2>1, NoneAssumption DEF AnswerHasSDP
<1>3. record' = [record EXCEPT ![c] = r]
  BY DEF WriteRecord
<1> HIDE DEF r
<1>4. TypeOK' /\ \A d \in Calls \ {c} : SameCall(d)
  <2>1. record' \in [Calls -> Record \cup {None}]
    BY <1>2, <1>3
  <2>2. \A d \in Calls \ {c} : record'[d] = record[d]
    BY <1>3
  <2> QED
    BY <2>1, <2>2 DEF WriteRecord
<1>5. CallKept(c)'
  <2>1. closeInfo[c].cause # "hangup" => closeInfo[c].reason = "" /\ closeInfo[c].initiator = ""
    BY OwnInfosBlank
  <2>2. ~Killed(c) /\ "hangup" \notin sent[c] => r.reason = "" /\ r.initiator = ""
    BY <1>1, <1>2, <2>1
  <2>3. record'[c] = r
    BY <1>3
  <2>4. /\ pc[c] = "WriteRecord" /\ pc'[c] = "Release"
        /\ UNCHANGED <<sent, locals, registry, wire, others>>
    BY DEF WriteRecord
  <2> QED
    BY ZenonT(30), <1>1, <1>2, <2>2, <2>3, <2>4
<1> QED
  BY <1>4, <1>5

\* The session is there, and nobody else knows of it yet.
LEMMA CreateStep ==
    ASSUME TypeOK, HoldersPlaced, NEW c \in Calls, CallKept(c), Create(c)
    PROVE  TypeOK' /\ CallKept(c)' /\ \A d \in Calls \ {c} : SameCall(d)
<1> USE DEF locals, outputs, registry, wire, others, request, Goto, PC, ConnStates, TypeOK,
            CallKept, SessionPlaced, SessionAgrees, CloseFnDue, ConnPlaced, AnswerKnown,
            AskedFor, CauseKnown, KillKnown, Killed, FromEventOrKill, RecordKept, Before,
            Unbound, Unanswered, Unasked, Recorded, Finalized, Served, SameCall
<1>1. NewSession \in Session /\ NewSession # None
  BY NewSessionTyped, NoneAssumption
<1>2. /\ InOrder(NewSession) /\ NewSession.state = "connected" /\ NewSession.answered = FALSE
      /\ NewSession.closeRequested = FALSE /\ NewSession.closeFn = FALSE
      /\ NewSession.closeFnCalled = FALSE /\ NewSession.done = TRUE
      /\ NewSession.closeInfo.cause = "" /\ NewSession.closeInfo.reason = ""
      /\ NewSession.closeInfo.initiator = ""
  BY DEF NewSession, InOrder, NoCloseInfo
<1>3. /\ pc[c] = "Create" /\ pc' = [pc EXCEPT ![c] = "BeginHandshake"]
      /\ sess' = [sess EXCEPT ![c] = NewSession]
      /\ sessions' = [sessions EXCEPT ![id[c]] = c]
      /\ UNCHANGED <<locals, outputs, wire, others>>
  BY DEF Create, SessionStep
<1>4. TypeOK' /\ \A d \in Calls \ {c} : SameCall(d)
  BY <1>1, <1>3
<1>5. \A k \in Kills : kill[k].target # c
  <2>1. sess[c] = None /\ c # None
    BY <1>3, NoneAssumption
  <2> QED
    BY <2>1 DEF HoldersPlaced
<1>6. CallKept(c)'
  <2>1. sess'[c] = NewSession /\ pc'[c] = "BeginHandshake"
    BY <1>3
  <2>2. SessionPlaced(c)' /\ ConnPlaced(c)' /\ AnswerKnown(c)' /\ AskedFor(c)'
    BY <1>1, <1>2, <1>3, <2>1
  <2>3. SessionAgrees(c)'
    <3>1. ~CloseFnDue(c)'
      BY <1>3, <1>5, <2>1
    <3> QED
      BY <1>1, <1>2, <2>1, <3>1 DEF Live
  <2>4. CauseKnown(c)' /\ KillKnown(c)'
    BY <1>1, <1>2, <2>1
  <2>5. RecordKept(c)'
    BY <1>3, <2>1
  <2> QED
    BY <2>2, <2>3, <2>4, <2>5
<1> QED
  BY <1>4, <1>6

\* The methods that prepare the session: they leave a terminal one alone, and
\* an answer is recorded in any state.
LEMMA SetupStep ==
    ASSUME TypeOK, NEW c \in Calls, CallKept(c),
           DoBeginHandshake(c) \/ DoMarkActive(c) \/ DoRecordAnswer(c)
    PROVE  TypeOK' /\ CallKept(c)' /\ \A d \in Calls \ {c} : SameCall(d)
<1> USE DEF locals, outputs, registry, wire, others, request, Goto, PC, ConnStates, TypeOK,
            CallKept, SessionPlaced, SessionAgrees, CloseFnDue, ConnPlaced, AnswerKnown,
            AskedFor, CauseKnown, KillKnown, Killed, FromEventOrKill, RecordKept, Before,
            Unbound, Unanswered, Unasked, Recorded, Finalized, Served, SameCall
<1> DEFINE t == sess[c]
<1>1. pc[c] \in {"BeginHandshake", "RecordAnswer", "MarkActive"}
  BY DEF DoBeginHandshake, DoMarkActive, DoRecordAnswer
<1>2. t \in Session /\ t # None /\ t.state \in Live \cup Terminal
  BY ZenonT(30), <1>1 DEF Session
<1>3. ASSUME NEW u, NEW to \in PC,
             u = BeginHandshake(t) \/ u = MarkActive(t) \/ u = RecordAnswer(t),
             u.answered <=> (t.answered \/ pc[c] = "RecordAnswer"),
             sess' = [sess EXCEPT ![c] = u], pc' = [pc EXCEPT ![c] = to],
             \/ pc[c] = "BeginHandshake" /\ to = "BindCloseFunc"
             \/ pc[c] = "RecordAnswer" /\ to = "MarkActive"
             \/ pc[c] = "MarkActive" /\ to = "ReadMessage",
             UNCHANGED <<sessions, locals, outputs, wire, others>>
      PROVE  TypeOK' /\ CallKept(c)' /\ \A d \in Calls \ {c} : SameCall(d)
  <2>1. /\ u \in Session
        /\ t.state \in Terminal => u.state = t.state
        /\ t.state \in Live => u.state \in Live
        /\ u.closeRequested = t.closeRequested
        /\ u.closeInfo = t.closeInfo
        /\ u.closeFn = t.closeFn
        /\ u.closeFnCalled = t.closeFnCalled
        /\ u.done = t.done
    BY <1>2, <1>3, SetupCorrect
  <2>2. u # None
    BY <2>1, NoneAssumption
  <2>3. InOrder(t) => InOrder(u)
    BY <2>1 DEF InOrder
  <2>4. (u.state \in Live <=> t.state \in Live) /\ (u.state = "closed" <=> t.state = "closed")
    BY <1>2, <2>1 DEF Live, Terminal
  <2>5. TypeOK' /\ \A d \in Calls \ {c} : SameCall(d)
    BY ZenonT(30), <1>3, <2>1
  <2>6. sess'[c] = u /\ pc'[c] = to
    BY <1>3
  <2>7. SessionPlaced(c)'
    BY <1>2, <1>3, <2>2, <2>6
  <2>11. ConnPlaced(c)' /\ AskedFor(c)'
    BY <1>3, <2>6
  <2>12. CauseKnown(c)'
    <3>1. CauseKnown(c) /\ sess[c] # None /\ sess'[c].closeInfo = sess[c].closeInfo
      BY <1>2, <2>1, <2>6
    <3>2. sent'[c] = sent[c]
      BY <1>3
    <3> QED
      BY <3>1, <3>2
  <2>10. KillKnown(c)'
    BY ZenonT(30), <1>2, <1>3, <2>1, <2>6
  <2>8. SessionAgrees(c)'
    <3>1. CloseFnDue(c)' => CloseFnDue(c)
      BY <1>3, <2>6
    <3> QED
      BY ZenonT(30), <1>2, <1>3, <2>1, <2>2, <2>3, <2>4, <2>6, <3>1
  <2>9. AnswerKnown(c)' /\ RecordKept(c)'
    BY ZenonT(30), <1>2, <1>3, <2>1, <2>2, <2>6
  <2> QED
    BY <2>5, <2>7, <2>8, <2>9, <2>10, <2>11, <2>12
<1>4. CASE DoBeginHandshake(c)
  <2>1. BeginHandshake(t).answered = t.answered
    BY <1>2 DEF BeginHandshake, Session
  <2> QED
    BY <1>3, <1>4, <2>1 DEF DoBeginHandshake, SessionStep
<1>5. CASE DoMarkActive(c)
  <2>1. MarkActive(t).answered = t.answered
    BY <1>2 DEF MarkActive, Session
  <2> QED
    BY <1>3, <1>5, <2>1 DEF DoMarkActive, SessionStep
<1>6. CASE DoRecordAnswer(c)
  <2>1. RecordAnswer(t).answered = TRUE
    BY <1>2 DEF RecordAnswer, Session
  <2> QED
    BY <1>3, <1>6, <2>1 DEF DoRecordAnswer, SessionStep
<1> QED
  BY <1>4, <1>5, <1>6

\* The close function is bound, and called at once if a close was requested.
LEMMA BindStep ==
    ASSUME TypeOK, NEW c \in Calls, CallKept(c), DoBindCloseFunc(c)
    PROVE  TypeOK' /\ CallKept(c)' /\ \A d \in Calls \ {c} : SameCall(d)
<1> USE DEF locals, outputs, registry, wire, others, request, Goto, PC, ConnStates, TypeOK,
            CallKept, SessionPlaced, SessionAgrees, CloseFnDue, ConnPlaced, AnswerKnown,
            AskedFor, CauseKnown, KillKnown, Killed, FromEventOrKill, RecordKept, Before,
            Unbound, Unanswered, Unasked, Recorded, Finalized, Served, SameCall
<1> DEFINE t == sess[c]
           u == BindCloseFunc(t)
<1>1. t \in Session /\ t # None /\ pc[c] = "BindCloseFunc"
  BY ZenonT(30) DEF DoBindCloseFunc
<1>2. /\ u \in Session
      /\ u.state = t.state
      /\ u.closeRequested = t.closeRequested
      /\ u.closeInfo = t.closeInfo
      /\ u.closeFn = TRUE
      /\ u.closeFnCalled <=> (t.closeFnCalled \/ t.closeRequested)
      /\ u.done = t.done
  BY <1>1, BindCorrect
<1>3. u.answered = t.answered
  BY <1>1 DEF BindCloseFunc, Session
<1>4. PICK to \in {"BindCalls", "BuildAnswer"} :
          /\ pc' = [pc EXCEPT ![c] = to]
          /\ to = "BindCalls" => t.closeRequested
  BY DEF DoBindCloseFunc, BindCallsNow
<1>5. sess' = [sess EXCEPT ![c] = u] /\ UNCHANGED <<sessions, locals, outputs, wire, others>>
  BY DEF DoBindCloseFunc, SessionStep
<1> HIDE DEF u
<1>6. u # None /\ (InOrder(t) => InOrder(u))
  BY ZenonT(30), <1>2, NoneAssumption DEF InOrder
<1>7. TypeOK' /\ \A d \in Calls \ {c} : SameCall(d)
  BY <1>2, <1>4, <1>5
<1>8. sess'[c] = u /\ pc'[c] = to
  BY <1>4, <1>5
<1>9. SessionPlaced(c)' /\ ConnPlaced(c)' /\ AskedFor(c)' /\ CauseKnown(c)' /\ KillKnown(c)'
  BY ZenonT(30), <1>1, <1>2, <1>4, <1>5, <1>6, <1>8
<1>10. SessionAgrees(c)'
  <2>1. CloseFnDue(c)' => CloseFnDue(c) \/ t.closeRequested
    BY <1>4, <1>5, <1>8
  <2> QED
    BY <1>1, <1>2, <1>4, <1>6, <1>8, <2>1
<1>11. AnswerKnown(c)' /\ RecordKept(c)'
  BY <1>1, <1>2, <1>3, <1>4, <1>5, <1>6, <1>8
<1> QED
  BY <1>7, <1>9, <1>10, <1>11

-----------------------------------------------------------------------------
(* Closing *)

\* What is said of the cause stays true when somebody else asks as well: fields
\* that are filled are not touched, and who fills a blank one says what it knows.
LEMMA AskedKept ==
    ASSUME TypeOK, NEW c \in Calls, CallKept(c), sess[c] # None, sess'[c] # None,
           NEW info \in OwnInfos \cup {KillInfo}, Asked(sess[c], sess'[c], info),
           sent'[c] = sent[c], record'[c] = record[c], closeInfo'[c] = closeInfo[c],
           callType'[c] = callType[c],
           \/ info = FailInfo("error")
           \/ info = closeInfo[c] /\ pc'[c] \notin Unasked
           \/ info = KillInfo /\ \E k \in Kills : kill'[k].target = c,
           pc[c] \notin Unasked => pc'[c] \notin Unasked,
           pc[c] \in Recorded <=> pc'[c] \in Recorded,
           \A k \in Kills : kill[k].target = c => kill'[k].target = c
    PROVE  CauseKnown(c)' /\ KillKnown(c)' /\ RecordKept(c)'
<1> DEFINE a == sess[c].closeInfo
           b == sess'[c].closeInfo
<1>1. /\ b.cause = OrElse(a.cause, info.cause) /\ b.reason = OrElse(a.reason, info.reason)
      /\ b.initiator = OrElse(a.initiator, info.initiator) /\ b.err = OrElse(a.err, info.err)
      /\ sess'[c].answered = sess[c].answered
  BY DEF Asked
<1>2. /\ info.cause \in Causes
      /\ info.cause = "error" => info.err # ""
      /\ info.cause = "kill" => info = KillInfo
  BY InfosTyped
<1>3. KillInfo.reason = "killed" /\ KillInfo.initiator = "system" /\ KillInfo.cause = "kill"
  BY DEF KillInfo
<1>4. /\ FailInfo("error").cause = "error" /\ FailInfo("error").reason = ""
      /\ FailInfo("error").initiator = ""
  BY DEF FailInfo
<1>5. ~sess[c].closeRequested => a.cause = "" /\ a.reason = "" /\ a.initiator = "" /\ a.err = ""
  <2> SUFFICES ASSUME ~sess[c].closeRequested
               PROVE  a.cause = "" /\ a.reason = "" /\ a.initiator = "" /\ a.err = ""
    OBVIOUS
  <2>1. a = NoCloseInfo
    BY DEF CallKept, SessionAgrees, InOrder
  <2> HIDE DEF a
  <2> QED
    BY <2>1 DEF NoCloseInfo
<1>6. sess[c].closeRequested => a.cause # ""
  BY DEF CallKept, SessionAgrees, InOrder
<1>7. a \in CloseInfo
  BY DEF TypeOK, Session
<1>8. CauseKnown(c)'
  <2>1. CASE sess[c].closeRequested
    <3>1. /\ b.cause = a.cause
          /\ a.reason # "" => b.reason = a.reason
          /\ a.initiator # "" => b.initiator = a.initiator
          /\ a.err # "" => b.err = a.err
      BY <1>1, <1>6, <2>1 DEF OrElse
    <3> QED
      BY <3>1 DEF CallKept, CauseKnown
  <2>2. CASE ~sess[c].closeRequested
    <3>1. /\ b.cause = info.cause /\ b.reason = info.reason
          /\ b.initiator = info.initiator /\ b.err = info.err
      BY <1>1, <1>5, <2>2 DEF OrElse
    <3>2. info.cause = "hangup" => "hangup" \in sent[c]
      BY <1>3, <1>4 DEF CallKept, AskedFor
    <3> QED
      BY <1>2, <1>3, <3>1, <3>2 DEF CauseKnown
  <2> QED
    BY <2>1, <2>2
<1>9. KillKnown(c)'
  <2>1. ASSUME ~Killed(c)'
        PROVE  \/ b.reason = "" /\ b.initiator = ""
               \/ /\ pc'[c] \notin Unasked
                  /\ b.reason = closeInfo[c].reason
                  /\ b.initiator = closeInfo[c].initiator
    <3>1. \A k \in Kills : kill'[k].target # c
      BY <2>1 DEF Killed
    <3>2. \/ a.reason = "" /\ a.initiator = ""
          \/ /\ pc'[c] \notin Unasked
             /\ a.reason = closeInfo[c].reason
             /\ a.initiator = closeInfo[c].initiator
      BY <3>1 DEF CallKept, KillKnown, Killed
    <3>3. CASE info = FailInfo("error")
      BY <1>1, <1>4, <3>2, <3>3 DEF OrElse
    <3>4. CASE info = closeInfo[c] /\ pc'[c] \notin Unasked
      BY <1>1, <3>2, <3>4 DEF OrElse
    <3> QED
      BY <3>1, <3>3, <3>4
  <2>2. ASSUME b.cause = "hangup"
        PROVE  /\ pc'[c] \notin Unasked
               /\ \/ b.reason = closeInfo[c].reason
                  \/ closeInfo[c].reason = "" /\ b.reason = "killed" /\ Killed(c)'
               /\ \/ b.initiator = closeInfo[c].initiator
                  \/ closeInfo[c].initiator = "" /\ b.initiator = "system" /\ Killed(c)'
    <3>1. CASE sess[c].closeRequested
      <4>1. /\ a.cause = "hangup" /\ pc'[c] \notin Unasked
            /\ FromEventOrKill(c, a.reason, closeInfo[c].reason, "killed")
            /\ FromEventOrKill(c, a.initiator, closeInfo[c].initiator, "system")
        BY <1>1, <1>6, <2>2, <3>1 DEF OrElse, CallKept, KillKnown
      <4>2. CASE info = FailInfo("error")
        <5>1. b.reason = a.reason /\ b.initiator = a.initiator
          BY <1>1, <1>4, <4>2 DEF OrElse
        <5> QED
          BY <4>1, <5>1 DEF FromEventOrKill, Killed
      <4>3. CASE info = closeInfo[c]
        <5>1. /\ b.reason = a.reason \/ (a.reason = "" /\ b.reason = closeInfo[c].reason)
              /\ b.initiator = a.initiator
                 \/ (a.initiator = "" /\ b.initiator = closeInfo[c].initiator)
          BY <1>1, <4>3 DEF OrElse
        <5> QED
          BY <4>1, <5>1 DEF FromEventOrKill, Killed
      <4>4. CASE info = KillInfo /\ \E k \in Kills : kill'[k].target = c
        <5>1. /\ b.reason = a.reason \/ (a.reason = "" /\ b.reason = "killed")
              /\ b.initiator = a.initiator \/ (a.initiator = "" /\ b.initiator = "system")
          BY <1>1, <1>3, <4>4 DEF OrElse
        <5>2. Killed(c)'
          BY <4>4 DEF Killed
        <5> QED
          BY <4>1, <5>1, <5>2 DEF FromEventOrKill
      <4> QED
        BY <4>2, <4>3, <4>4
    <3>2. CASE ~sess[c].closeRequested
      <4>1. /\ b.cause = info.cause /\ b.reason = info.reason
            /\ b.initiator = info.initiator
        BY <1>1, <1>5, <3>2 DEF OrElse
      <4>2. info = closeInfo[c] /\ pc'[c] \notin Unasked
        BY <1>3, <1>4, <2>2, <4>1
      <4> QED
        BY <4>1, <4>2
    <3> QED
      BY <3>1, <3>2
  <2> QED
    BY <2>1, <2>2 DEF KillKnown, FromEventOrKill
<1>10. RecordKept(c)'
  <2>1. record[c] # None =>
          /\ sess[c].closeRequested
          /\ b.cause = a.cause
    <3>1. record[c] # None => sess[c].closeRequested
      BY DEF CallKept, RecordKept, SessionAgrees, Finalized, Live
    <3> QED
      BY <1>1, <1>6, <3>1 DEF OrElse
  <2>2. Killed(c) => Killed(c)'
    BY DEF Killed
  <2> QED
    BY <1>1, <2>1, <2>2 DEF CallKept, RecordKept, FromEventOrKill
<1> QED
  BY <1>8, <1>9, <1>10

\* serveWS asks, and learns whether it is to call the close function.
LEMMA RequestStep ==
    ASSUME TypeOK, NEW c \in Calls, CallKept(c), DoRequestClose(c)
    PROVE  TypeOK' /\ CallKept(c)' /\ \A d \in Calls \ {c} : SameCall(d)
<1> DEFINE t == sess[c]
           u == RequestClose(t, closeInfo[c])
<1>1. /\ pc[c] = "RequestClose" /\ t \in Session /\ t # None /\ closeInfo[c] \in OwnInfos
  BY DEF DoRequestClose, Goto, TypeOK, CallKept, AskedFor, SessionPlaced, Before
<1>2. InOrder(t)
  BY <1>1 DEF CallKept, SessionAgrees
<1>3. Asked(t, u, closeInfo[c]) /\ RequestPost(t, u) /\ u \in Session
  BY <1>1, <1>2, RequestAsked
<1>4. PICK to \in {"CallCloseFn", "Finalize"} :
          /\ pc' = [pc EXCEPT ![c] = to]
          /\ to = "CallCloseFn" => t.closeFn
  BY DEF DoRequestClose, Goto, TakesCloseFn
<1>5. sess' = [sess EXCEPT ![c] = u] /\ UNCHANGED <<sessions, locals, outputs, wire, others>>
  BY DEF DoRequestClose, SessionStep
<1> HIDE DEF u
<1>6. u # None
  BY <1>3, NoneAssumption
<1>7. TypeOK' /\ \A d \in Calls \ {c} : SameCall(d)
  BY <1>3, <1>4, <1>5 DEF TypeOK, PC, SameCall, locals, outputs, wire, others, request
<1>8. sess'[c] = u /\ pc'[c] = to
  BY <1>4, <1>5 DEF TypeOK
<1>9. UNCHANGED <<conn, closeInfo, closing, sent, record, audio, kill, closeFnRuns, callType>>
  BY <1>5 DEF locals, outputs, wire, others, request
<1>10. SessionPlaced(c)' /\ ConnPlaced(c)' /\ AskedFor(c)'
  BY <1>1, <1>4, <1>6, <1>8, <1>9
     DEF CallKept, SessionPlaced, ConnPlaced, AskedFor, Before
<1>11. SessionAgrees(c)'
  <2>1. CloseFnDue(c)' => CloseFnDue(c) \/ t.closeFn
    BY <1>4, <1>8, <1>9 DEF CloseFnDue
  <2>2. InOrder(u) /\ u.closeRequested /\ u.state \notin Live /\ u.state # "closed"
    BY <1>1, <1>3 DEF RequestPost, InOrder, Live, CallKept, SessionAgrees, Finalized, Recorded
  <2>3. /\ t.closeFn => u.closeFnCalled
        /\ t.closeFnCalled => u.closeFnCalled
        /\ u.done = t.done
    BY <1>3 DEF RequestPost
  <2> QED
    BY <1>1, <1>4, <1>8, <2>1, <2>2, <2>3
       DEF CallKept, SessionAgrees, Finalized, Recorded, Unbound
<1>12. AnswerKnown(c)'
  BY <1>1, <1>3, <1>4, <1>8, <1>9
     DEF Asked, CallKept, AnswerKnown, Unanswered, Before, Unbound
<1>13. CauseKnown(c)' /\ KillKnown(c)' /\ RecordKept(c)'
  BY <1>1, <1>3, <1>4, <1>6, <1>8, <1>9, AskedKept
     DEF Unasked, Unanswered, Before, Unbound, Recorded
<1> QED
  BY <1>7, <1>10, <1>11, <1>12, <1>13 DEF CallKept

\* Finalize closes the session, with what serveWS thinks the reason is.
LEMMA FinalizeStep ==
    ASSUME TypeOK, NEW c \in Calls, CallKept(c), DoFinalize(c)
    PROVE  TypeOK' /\ CallKept(c)' /\ \A d \in Calls \ {c} : SameCall(d)
<1> DEFINE t == sess[c]
           u == Finalize(t, closeInfo[c])
<1>1. /\ pc[c] = "Finalize" /\ t \in Session /\ t # None /\ closeInfo[c] \in OwnInfos
  BY DEF DoFinalize, Goto, TypeOK, CallKept, AskedFor, SessionPlaced, Before
<1>2. InOrder(t)
  BY <1>1 DEF CallKept, SessionAgrees
<1>3. /\ Asked(t, u, closeInfo[c])
      /\ u \in Session
      /\ u.state = "closed"
      /\ u.closeFnCalled = t.closeFnCalled
      /\ u.done = FALSE
  BY <1>1, <1>2, FinalizeAsked
<1>4. pc' = [pc EXCEPT ![c] = "CloseDone"]
  BY DEF DoFinalize, Goto
<1>5. sess' = [sess EXCEPT ![c] = u] /\ UNCHANGED <<sessions, locals, outputs, wire, others>>
  BY DEF DoFinalize, SessionStep
<1> HIDE DEF u
<1>6. u # None
  BY <1>3, NoneAssumption
<1>7. TypeOK' /\ \A d \in Calls \ {c} : SameCall(d)
  BY <1>3, <1>4, <1>5 DEF TypeOK, PC, SameCall, locals, outputs, wire, others, request
<1>8. sess'[c] = u /\ pc'[c] = "CloseDone"
  BY <1>4, <1>5 DEF TypeOK
<1>9. UNCHANGED <<conn, closeInfo, closing, sent, record, audio, kill, closeFnRuns, callType>>
  BY <1>5 DEF locals, outputs, wire, others, request
<1>10. SessionPlaced(c)' /\ ConnPlaced(c)' /\ AskedFor(c)'
  BY <1>1, <1>6, <1>8, <1>9 DEF CallKept, SessionPlaced, ConnPlaced, AskedFor, Before
<1>11. SessionAgrees(c)'
  <2>1. CloseFnDue(c)' => CloseFnDue(c)
    BY <1>8, <1>9 DEF CloseFnDue
  <2>2. InOrder(u) /\ u.closeRequested
    BY <1>3 DEF Asked, InOrder
  <2> QED
    BY <1>1, <1>3, <1>8, <2>1, <2>2
       DEF CallKept, SessionAgrees, Finalized, Recorded, Unbound, Live
<1>12. AnswerKnown(c)'
  BY <1>1, <1>3, <1>8, <1>9 DEF Asked, CallKept, AnswerKnown, Unanswered, Before, Unbound
<1>13. CauseKnown(c)' /\ KillKnown(c)' /\ RecordKept(c)'
  BY <1>1, <1>3, <1>6, <1>8, <1>9, AskedKept
     DEF Unasked, Unanswered, Before, Unbound, Recorded
<1> QED
  BY <1>7, <1>10, <1>11, <1>12, <1>13 DEF CallKept

\* Another goroutine asks, at any moment of serveWS, also when it has returned.
LEMMA OthersRequest ==
    ASSUME TypeOK, NEW c \in Calls, CallKept(c), sess[c] # None,
           NEW info, info = FailInfo("error") \/ info = KillInfo,
           sess'[c] = RequestClose(sess[c], info),
           UNCHANGED <<pc, conn, closeInfo, closing, sent, record, closeFnRuns, callType>>,
           CloseFnDue(c)' => CloseFnDue(c) \/ sess[c].closeFn,
           info = KillInfo => \E k \in Kills : kill'[k].target = c,
           \A k \in Kills : kill[k].target = c => kill'[k].target = c
    PROVE  CallKept(c)' /\ sess'[c] \in Session /\ sess'[c] # None
<1> DEFINE t == sess[c]
           u == RequestClose(t, info)
<1>1. t \in Session /\ info \in OwnInfos \cup {KillInfo} /\ InOrder(t)
  BY DEF TypeOK, OwnInfos, CallKept, SessionAgrees
<1>2. Asked(t, u, info) /\ RequestPost(t, u) /\ u \in Session
  BY <1>1, RequestAsked
<1>3. sess'[c] = u
  OBVIOUS
<1> HIDE DEF u
<1>4. u # None
  BY <1>2, NoneAssumption
<1>5. UNCHANGED <<pc, conn, closeInfo, closing, sent, record, closeFnRuns, callType>>
  OBVIOUS
<1>6. SessionPlaced(c)' /\ ConnPlaced(c)' /\ AskedFor(c)'
  BY <1>4, <1>3, <1>5 DEF CallKept, SessionPlaced, ConnPlaced, AskedFor
<1>7. SessionAgrees(c)'
  <2>1. /\ InOrder(u) /\ u.closeRequested /\ u.state \notin Live
        /\ u.state = "closed" <=> t.state = "closed"
    BY <1>2 DEF RequestPost, InOrder, Live
  <2>2. /\ u.closeFn = t.closeFn /\ u.done = t.done
        /\ t.closeFn => u.closeFnCalled
        /\ t.closeFnCalled => u.closeFnCalled
    BY <1>2 DEF RequestPost
  <2> QED
    BY <1>3, <1>5, <2>1, <2>2 DEF CallKept, SessionAgrees
<1>8. AnswerKnown(c)'
  BY <1>2, <1>3, <1>5 DEF Asked, CallKept, AnswerKnown
<1>9. CauseKnown(c)' /\ KillKnown(c)' /\ RecordKept(c)'
  BY <1>1, <1>2, <1>4, <1>3, <1>5, AskedKept
<1>10. CallKept(c)'
  BY <1>6, <1>7, <1>8, <1>9 DEF CallKept
<1> QED
  BY <1>2, <1>3, <1>4, <1>10

-----------------------------------------------------------------------------
(* The steps of a call's audio goroutine and of its peer *)

LEMMA AudioStepKept ==
    ASSUME TypeOK, NEW c \in Calls, CallKept(c),
           TrackStarts(c) \/ AudioFails(c) \/ AudioFail(c) \/ AudioCallsCloseFn(c) \/ PeerLeaves(c)
    PROVE  /\ TypeOK' /\ CallKept(c)' /\ \A d \in Calls \ {c} : SameCall(d)
           /\ sess'[c] = None => sess[c] = None
<1>1. CASE TrackStarts(c)
  <2>1. sess[c] # None
    BY <1>1 DEF TrackStarts, CallKept, SessionPlaced, AnswerKnown, Unanswered
  <2>2. /\ audio' \in [Calls -> [pc: AudioStates, faults: 0..MaxFaults]]
        /\ audio'[c].pc = "on"
        /\ \A d \in Calls \ {c} : audio'[d] = audio[d]
    BY <1>1, AudioTyped DEF TrackStarts, AudioStates
  <2>3. UNCHANGED <<pc, kill, locals, outputs, registry, wire>>
    BY <1>1 DEF TrackStarts
  <2>4. TypeOK' /\ \A d \in Calls \ {c} : SameCall(d)
    BY <2>2, <2>3 DEF TypeOK, SameCall, locals, outputs, registry, wire, request
  <2>5. SessionAgrees(c)'
    <3>1. CloseFnDue(c)' => CloseFnDue(c)
      BY <2>2, <2>3 DEF CloseFnDue, wire
    <3> QED
      BY <2>3, <3>1 DEF CallKept, SessionAgrees, registry
  <2>6. SessionPlaced(c)' /\ ConnPlaced(c)' /\ AnswerKnown(c)' /\ AskedFor(c)'
    BY <2>1, <2>3 DEF CallKept, SessionPlaced, ConnPlaced, AnswerKnown, AskedFor, locals, outputs,
                      registry, wire
  <2>7. CauseKnown(c)' /\ KillKnown(c)' /\ RecordKept(c)'
    BY <2>3 DEF CallKept, CauseKnown, KillKnown, Killed,
       FromEventOrKill, RecordKept, locals, request, outputs, registry
  <2> QED
    BY <2>3, <2>4, <2>5, <2>6, <2>7 DEF CallKept, registry
<1>2. CASE AudioFails(c)
  <2> DEFINE a == [pc |-> "Fail", faults |-> audio[c].faults + 1]
  <2>1. a \in [pc: AudioStates, faults: 0..MaxFaults]
    <3>1. MaxFaults \in Nat
      BY CallsAssumption
    <3>2. audio[c].faults \in 0..MaxFaults /\ audio[c].faults < MaxFaults
      BY <1>2 DEF AudioFails, TypeOK
    <3> QED
      BY <3>1, <3>2 DEF AudioStates
  <2>2. audio' = [audio EXCEPT ![c] = a]
    BY <1>2 DEF AudioFails
  <2>3. a.pc = "Fail"
    OBVIOUS
  <2> HIDE DEF a
  <2>4. /\ audio' \in [Calls -> [pc: AudioStates, faults: 0..MaxFaults]]
        /\ audio'[c].pc = "Fail"
        /\ \A d \in Calls \ {c} : audio'[d] = audio[d]
    BY <2>1, <2>2, <2>3 DEF TypeOK
  <2>5. /\ conn' \in [Calls -> ConnStates]
        /\ conn'[c] = "closed" <=> conn[c] = "closed"
        /\ \A d \in Calls \ {c} : conn'[d] = conn[d]
    <3>1. conn \in [Calls -> ConnStates]
      BY DEF TypeOK
    <3>2. CASE UNCHANGED conn
      BY <3>1, <3>2
    <3>3. CASE WriteFails(c)
      <4>1. PICK q \in ConnStates :
                conn' = [conn EXCEPT ![c] = q] /\ (q = "closed" <=> conn[c] = "closed")
        BY <3>1, <3>3 DEF WriteFails, ConnStates
      <4> QED
        BY <3>1, <4>1
    <3> QED
      BY <1>2, <3>2, <3>3 DEF AudioFails
  <2>6. UNCHANGED <<pc, kill, closeFnRuns, locals, outputs, registry>> /\ audio[c].pc = "on"
    BY <1>2 DEF AudioFails
  <2>7. TypeOK' /\ \A d \in Calls \ {c} : SameCall(d)
    BY <2>4, <2>5, <2>6 DEF TypeOK, SameCall, locals, outputs, registry, request
  <2>8. SessionAgrees(c)'
    <3>1. CloseFnDue(c)' => CloseFnDue(c)
      BY <2>4, <2>6 DEF CloseFnDue
    <3> QED
      BY <2>6, <3>1 DEF CallKept, SessionAgrees, registry
  <2>9. SessionPlaced(c)' /\ ConnPlaced(c)'
    BY <2>1, <2>4, <2>5, <2>6 DEF CallKept, SessionPlaced, ConnPlaced, registry, outputs
  <2>10. AnswerKnown(c)' /\ AskedFor(c)' /\ CauseKnown(c)' /\ KillKnown(c)' /\ RecordKept(c)'
    BY <2>6 DEF CallKept, AnswerKnown, AskedFor, CauseKnown, KillKnown, Killed,
       FromEventOrKill, RecordKept, locals, request,
                outputs, registry
  <2> QED
    BY <2>6, <2>7, <2>8, <2>9, <2>10 DEF CallKept, registry
<1>3. CASE AudioFail(c)
  <2>1. sess[c] # None
    BY <1>3 DEF AudioFail, CallKept, SessionPlaced
  <2>2. PICK to \in {"CallCloseFn", "on"} :
            Audio(c, to) /\ (to = "CallCloseFn" => sess[c].closeFn)
    BY <1>3 DEF AudioFail, TakesCloseFn
  <2>3. /\ audio' \in [Calls -> [pc: AudioStates, faults: 0..MaxFaults]]
        /\ audio'[c].pc = to
        /\ \A d \in Calls \ {c} : audio'[d] = audio[d]
    BY <2>2, AudioTyped DEF AudioStates
  <2>4. /\ UNCHANGED <<pc, locals, outputs, wire>>
        /\ UNCHANGED <<sessions, kill>>
        /\ sess' = [sess EXCEPT ![c] = RequestClose(sess[c], FailInfo("error"))]
    BY <1>3 DEF AudioFail, SessionStep
  <2>5. CloseFnDue(c)' => CloseFnDue(c) \/ sess[c].closeFn
    BY <2>2, <2>3, <2>4 DEF CloseFnDue, wire
  <2>6. FailInfo("error") # KillInfo
    BY DEF FailInfo, KillInfo
  <2>7. CallKept(c)' /\ sess'[c] \in Session
    <3>0. sess'[c] = RequestClose(sess[c], FailInfo("error"))
      BY <2>4 DEF TypeOK
    <3>1. \A k \in Kills : kill[k].target = c => kill'[k].target = c
      BY <2>4
    <3>2. UNCHANGED <<pc, conn, closeInfo, closing, sent, record, closeFnRuns, callType>>
      BY <2>4 DEF locals, request, outputs, wire
    <3> QED
      BY <2>1, <2>5, <2>6, <3>0, <3>1, <3>2, OthersRequest
  <2>8. /\ sess' \in [Calls -> Session \cup {None}]
        /\ \A d \in Calls \ {c} : sess'[d] = sess[d]
    BY <2>4, <2>7 DEF TypeOK
  <2> QED
    BY <2>3, <2>4, <2>7, <2>8, NoneAssumption
       DEF TypeOK, SameCall, locals, outputs, wire, request
<1>4. CASE AudioCallsCloseFn(c)
  <2>1. audio[c].pc = "CallCloseFn" /\ UNCHANGED <<pc, kill, locals, outputs, registry>>
    BY <1>4 DEF AudioCallsCloseFn
  <2>2. sess[c] # None /\ sess[c].closeFnCalled
    BY <2>1 DEF CallKept, SessionPlaced, SessionAgrees, CloseFnDue
  <2>3. /\ audio' \in [Calls -> [pc: AudioStates, faults: 0..MaxFaults]]
        /\ audio'[c].pc = "on"
        /\ \A d \in Calls \ {c} : audio'[d] = audio[d]
    BY <1>4, AudioTyped DEF AudioCallsCloseFn, AudioStates
  <2>4. /\ conn' \in [Calls -> ConnStates] /\ closeFnRuns' \in [Calls -> Nat]
        /\ conn'[c] = "closed" /\ closeFnRuns'[c] > 0
        /\ \A d \in Calls \ {c} : conn'[d] = conn[d] /\ closeFnRuns'[d] = closeFnRuns[d]
    BY <1>4, RunsTyped DEF AudioCallsCloseFn
  <2>5. TypeOK' /\ \A d \in Calls \ {c} : SameCall(d)
    BY <2>1, <2>3, <2>4 DEF TypeOK, SameCall, locals, outputs, registry, request
  <2>6. SessionAgrees(c)'
    BY <2>1, <2>2 DEF CallKept, SessionAgrees, registry
  <2>7. SessionPlaced(c)' /\ ConnPlaced(c)'
    BY <2>1, <2>2, <2>4 DEF CallKept, SessionPlaced, ConnPlaced, registry
  <2>8. AnswerKnown(c)' /\ AskedFor(c)' /\ CauseKnown(c)' /\ KillKnown(c)' /\ RecordKept(c)'
    BY <2>1 DEF CallKept, AnswerKnown, AskedFor, CauseKnown, KillKnown, Killed,
       FromEventOrKill, RecordKept, locals, request,
                outputs, registry
  <2> QED
    BY <2>1, <2>5, <2>6, <2>7, <2>8 DEF CallKept, registry
<1>5. CASE PeerLeaves(c)
  <2>1. TypeOK' /\ \A d \in Calls \ {c} : SameCall(d)
    BY <1>5 DEF PeerLeaves, TypeOK, ConnStates, SameCall, locals, outputs, registry, others,
                request
  <2>2. SessionAgrees(c)'
    BY <1>5 DEF PeerLeaves, CallKept, SessionAgrees, CloseFnDue, registry, others
  <2>3. conn[c] = "open" /\ conn'[c] = "lost" /\ pc'[c] = pc[c] /\ pc[c] # "Done"
    BY <1>5 DEF PeerLeaves, TypeOK, CallKept, ConnPlaced
  <2>4. SessionPlaced(c)' /\ ConnPlaced(c)'
    BY <1>5, <2>3 DEF PeerLeaves, CallKept, SessionPlaced, ConnPlaced, registry, outputs, others
  <2>5. AnswerKnown(c)' /\ AskedFor(c)' /\ CauseKnown(c)' /\ KillKnown(c)' /\ RecordKept(c)'
    BY <1>5 DEF PeerLeaves, CallKept, AnswerKnown, AskedFor, CauseKnown, KillKnown, Killed,
       FromEventOrKill, RecordKept,
                locals, request, outputs, registry, others
  <2> QED
    BY <1>5, <2>1, <2>2, <2>4, <2>5 DEF PeerLeaves, CallKept, registry, others
<1> QED
  BY <1>1, <1>2, <1>3, <1>4, <1>5

-----------------------------------------------------------------------------
(* The steps of a kill *)

LEMMA KillTyped ==
    ASSUME TypeOK, NEW k \in Kills, NEW r,
           r \in [pc: {"Lookup", "RequestClose", "CallCloseFn", "Done"}, target: Calls \cup {None}],
           kill' = [kill EXCEPT ![k] = r]
    PROVE  /\ kill' \in [Kills -> [pc: {"Lookup", "RequestClose", "CallCloseFn", "Done"},
                                   target: Calls \cup {None}]]
           /\ kill'[k] = r
           /\ \A j \in Kills \ {k} : kill'[j] = kill[j]
BY DEF TypeOK

\* A kill that finds a call finds one whose session is there, and moves no call.
LEMMA LookupStep ==
    ASSUME IInv, NEW k \in Kills, NEW i \in Ids, KillLookup(k, i)
    PROVE  IInv'
<1> DEFINE r == [pc |-> IF sessions[i] = None THEN "Done" ELSE "RequestClose",
                 target |-> sessions[i]]
<1>1. /\ r \in [pc: {"Lookup", "RequestClose", "CallCloseFn", "Done"}, target: Calls \cup {None}]
      /\ r.pc \in {"Done", "RequestClose"} /\ r.target = sessions[i]
      /\ r.pc = "RequestClose" => sessions[i] # None
  BY DEF IInv, TypeOK
<1>2. kill' = [kill EXCEPT ![k] = r] /\ kill[k].pc = "Lookup"
  BY DEF KillLookup
<1> HIDE DEF r
<1>3. /\ kill' \in [Kills -> [pc: {"Lookup", "RequestClose", "CallCloseFn", "Done"},
                              target: Calls \cup {None}]]
      /\ kill'[k] = r
      /\ \A j \in Kills \ {k} : kill'[j] = kill[j]
  BY <1>1, <1>2, KillTyped DEF IInv
<1>4. UNCHANGED <<pc, audio, locals, outputs, registry, wire>>
  BY DEF KillLookup
<1>5. TypeOK'
  BY <1>3, <1>4 DEF IInv, TypeOK, locals, outputs, registry, wire, request
<1>6. ASSUME NEW d \in Calls PROVE CallKept(d)'
  <2>1. SameCall(d)
    BY <1>4 DEF SameCall, locals, request, outputs, registry, wire
  <2>2. d # None /\ kill[k].target = None
    BY <1>2, NoneAssumption DEF IInv, HoldersPlaced
  <2>3. SameKills(d)
    BY <1>1, <1>3, <2>2 DEF SameKills
  <2> QED
    BY <2>1, <2>3, CallUntouched DEF IInv
<1>7. HoldersPlaced'
  <2>1. sessions[i] # None => sess[sessions[i]] # None
    BY DEF IInv, TypeOK, MapKept, CallKept, SessionPlaced, Served, Before, Recorded
  <2>2. UNCHANGED sess
    BY <1>4 DEF registry
  <2> QED
    BY <1>1, <1>3, <2>1, <2>2 DEF IInv, HoldersPlaced
<1>8. MapKept'
  BY <1>4 DEF IInv, MapKept, registry, locals, request
<1> QED
  BY <1>5, <1>6, <1>7, <1>8 DEF IInv

LEMMA KillRequestStep ==
    ASSUME IInv, NEW k \in Kills, KillRequestClose(k)
    PROVE  IInv'
<1>0. kill[k].target \in Calls
  BY DEF KillRequestClose, IInv, HoldersPlaced, TypeOK
<1> SUFFICES ASSUME NEW c \in Calls, c = kill[k].target PROVE IInv'
  BY <1>0
<1>1. sess[c] # None /\ sess[c] \in Session /\ kill[k].pc = "RequestClose"
  BY DEF KillRequestClose, IInv, HoldersPlaced, TypeOK
<1>2. PICK to \in {"CallCloseFn", "Done"} :
          kill' = [kill EXCEPT ![k].pc = to] /\ (to = "CallCloseFn" => sess[c].closeFn)
  BY DEF KillRequestClose, TakesCloseFn
<1> DEFINE r == [kill[k] EXCEPT !.pc = to]
<1>3. /\ r \in [pc: {"Lookup", "RequestClose", "CallCloseFn", "Done"}, target: Calls \cup {None}]
      /\ r.pc = to /\ r.target = c
  BY SMTT(30) DEF IInv, TypeOK
<1>4. kill' = [kill EXCEPT ![k] = r]
  BY <1>2
<1> HIDE DEF r
<1>5. /\ kill' \in [Kills -> [pc: {"Lookup", "RequestClose", "CallCloseFn", "Done"},
                              target: Calls \cup {None}]]
      /\ kill'[k] = r
      /\ \A j \in Kills \ {k} : kill'[j] = kill[j]
  BY <1>3, <1>4, KillTyped DEF IInv
<1>6. /\ sess' = [sess EXCEPT ![c] = RequestClose(sess[c], KillInfo)]
      /\ UNCHANGED <<pc, sessions, audio, locals, outputs, wire>>
  BY DEF KillRequestClose, SessionStep
<1>7. UNCHANGED <<pc, conn, closeInfo, closing, sent, record, closeFnRuns, callType>>
  BY <1>6 DEF locals, request, outputs, wire
<1>8. /\ sess'[c] = RequestClose(sess[c], KillInfo)
      /\ \A d \in Calls \ {c} : sess'[d] = sess[d]
  BY <1>1, <1>6 DEF IInv, TypeOK
<1>9. CallKept(c)' /\ sess'[c] \in Session /\ sess'[c] # None
  <2>1. CloseFnDue(c)' => CloseFnDue(c) \/ sess[c].closeFn
    BY <1>2, <1>3, <1>5, <1>6, <1>7 DEF CloseFnDue
  <2>2. \A j \in Kills : kill[j].target = c => kill'[j].target = c
    BY <1>3, <1>5
  <2>3. \E j \in Kills : kill'[j].target = c
    BY <1>3, <1>5
  <2> QED
    BY <1>1, <1>7, <1>8, <2>1, <2>2, <2>3, OthersRequest DEF IInv
<1>10. TypeOK'
  <2>1. sess' \in [Calls -> Session \cup {None}]
    BY <1>1, <1>6, <1>8, <1>9 DEF IInv, TypeOK
  <2> QED
    BY <1>5, <1>6, <2>1 DEF IInv, TypeOK, locals, outputs, wire, request
<1>11. ASSUME NEW d \in Calls PROVE CallKept(d)'
  <2>1. CASE d = c
    BY <1>9, <2>1
  <2>2. CASE d # c
    <3>1. SameCall(d)
      BY <1>6, <1>7, <1>8, <2>2 DEF SameCall
    <3>2. SameKills(d)
      BY <1>3, <1>5, <2>2 DEF SameKills
    <3> QED
      BY <3>1, <3>2, CallUntouched DEF IInv
  <2> QED
    BY <2>1, <2>2
<1>12. HoldersPlaced'
  <2>1. \A d \in Calls : sess[d] # None => sess'[d] # None
    BY <1>8, <1>9
  <2>2. \A j \in Kills : kill[j].target \in Calls \cup {None}
    BY DEF IInv, TypeOK
  <2> QED
    BY <1>1, <1>3, <1>5, <2>1, <2>2, NoneAssumption DEF IInv, HoldersPlaced
<1>13. MapKept'
  BY <1>6 DEF IInv, MapKept, locals, request
<1> QED
  BY <1>10, <1>11, <1>12, <1>13 DEF IInv

LEMMA KillCloseStep ==
    ASSUME IInv, NEW k \in Kills, KillCallsCloseFn(k)
    PROVE  IInv'
<1>0. kill[k].target \in Calls
  BY DEF KillCallsCloseFn, IInv, HoldersPlaced, TypeOK
<1> SUFFICES ASSUME NEW c \in Calls, c = kill[k].target PROVE IInv'
  BY <1>0
<1>1. sess[c] # None /\ kill[k].pc = "CallCloseFn"
  BY DEF KillCallsCloseFn, IInv, HoldersPlaced, TypeOK
<1>2. sess[c].closeFnCalled
  BY <1>1 DEF IInv, CallKept, SessionAgrees, CloseFnDue
<1> DEFINE r == [kill[k] EXCEPT !.pc = "Done"]
<1>3. /\ r \in [pc: {"Lookup", "RequestClose", "CallCloseFn", "Done"}, target: Calls \cup {None}]
      /\ r.pc = "Done" /\ r.target = c
  BY ZenonT(30) DEF IInv, TypeOK
<1>4. kill' = [kill EXCEPT ![k] = r]
  BY DEF KillCallsCloseFn
<1> HIDE DEF r
<1>5. /\ kill' \in [Kills -> [pc: {"Lookup", "RequestClose", "CallCloseFn", "Done"},
                              target: Calls \cup {None}]]
      /\ kill'[k] = r
      /\ \A j \in Kills \ {k} : kill'[j] = kill[j]
  BY <1>3, <1>4, KillTyped DEF IInv
<1>6. RunCloseFn(c) /\ UNCHANGED <<pc, audio, locals, outputs, registry>>
  BY DEF KillCallsCloseFn
<1>7. /\ conn' \in [Calls -> ConnStates] /\ closeFnRuns' \in [Calls -> Nat]
      /\ conn'[c] = "closed" /\ closeFnRuns'[c] > 0
      /\ \A d \in Calls \ {c} : conn'[d] = conn[d] /\ closeFnRuns'[d] = closeFnRuns[d]
  BY <1>1, <1>6, RunsTyped DEF IInv
<1>8. TypeOK'
  BY <1>5, <1>6, <1>7 DEF IInv, TypeOK, locals, outputs, registry, request
<1>9. \A d \in Calls : SameKills(d)
  BY <1>3, <1>5 DEF SameKills
<1>10. CallKept(c)'
  <2>1. CallKept(c)
    BY <1>1 DEF IInv
  <2>2. SessionAgrees(c)'
    BY <1>2, <1>6, <2>1 DEF CallKept, SessionAgrees, registry
  <2>3. KillKnown(c)' /\ RecordKept(c)'
    BY <1>1, <1>6, <1>9, <2>1
       DEF SameKills, CallKept, KillKnown, Killed,
       FromEventOrKill, RecordKept, locals, request, outputs, registry
  <2> QED
    BY <1>1, <1>6, <1>7, <2>1, <2>2, <2>3
       DEF CallKept, SessionPlaced, ConnPlaced, AnswerKnown, AskedFor, CauseKnown,
           locals, outputs, registry
<1>11. ASSUME NEW d \in Calls PROVE CallKept(d)'
  <2>1. CASE d = c
    BY <1>10, <2>1
  <2>2. CASE d # c
    <3>1. SameCall(d)
      BY <1>6, <1>7, <2>2 DEF SameCall, locals, request, outputs, registry
    <3> QED
      BY <1>9, <3>1, CallUntouched DEF IInv
  <2> QED
    BY <2>1, <2>2
<1>12. HoldersPlaced'
  BY <1>1, <1>3, <1>5, <1>6 DEF IInv, HoldersPlaced, registry
<1>13. MapKept'
  BY <1>6 DEF IInv, MapKept, registry, locals, request
<1> QED
  BY <1>8, <1>11, <1>12, <1>13 DEF IInv

-----------------------------------------------------------------------------
(* The manager's map, and who holds a session, over the steps of serveWS *)

\* Where a step of serveWS leads: a session stays, nobody goes back, and only
\* Create and Delete change the map and lead in or out of the part that is served.
LEMMA WhereItLeads ==
    ASSUME TypeOK, NEW c \in Calls, LocalStep(c) \/ ConnStep(c)
    PROVE  /\ UNCHANGED <<id, kill>>
           /\ sess' = sess \/ pc'[c] \notin Before \cup {"CloseConn", "Done"}
           /\ pc'[c] \in Before => pc[c] \in Before
           /\ ~Create(c) /\ ~Delete(c) =>
                  UNCHANGED sessions /\ (pc'[c] \in Served <=> pc[c] \in Served)
<1> USE DEF TypeOK, PC, Before, Served, Recorded, Goto, locals, outputs, registry, wire, others,
            request
<1>1. ASSUME Create(c) \/ DoBeginHandshake(c) \/ DoBindCloseFunc(c) \/ DoRecordAnswer(c)
             \/ DoMarkActive(c) \/ DoRequestClose(c) \/ DoFinalize(c)
      PROVE  /\ UNCHANGED <<id, kill>>
             /\ pc'[c] \notin Before \cup {"CloseConn", "Done"}
             /\ ~Create(c) =>
                    UNCHANGED sessions /\ (pc'[c] \in Served <=> pc[c] \in Served)
  BY <1>1 DEF Create, DoBeginHandshake, DoBindCloseFunc, DoRecordAnswer, DoMarkActive,
              DoRequestClose, DoFinalize
<1>2. ASSUME BindCalls(c) \/ BuildAnswer(c) \/ BuildAnswerFails(c) \/ Route(c) \/ CallCloseFn(c)
             \/ CloseDone(c) \/ Delete(c) \/ WriteRecord(c) \/ Release(c) \/ CloseConn(c)
      PROVE  /\ UNCHANGED <<id, kill, sess>>
             /\ pc'[c] \notin Before
             /\ ~Delete(c) =>
                    UNCHANGED sessions /\ (pc'[c] \in Served <=> pc[c] \in Served)
  BY <1>2 DEF BindCalls, BuildAnswer, BuildAnswerFails, GiveUp, Route, CallCloseFn, CloseDone,
              Delete, WriteRecord, Release, CloseConn
<1>3. ASSUME ReadFirst(c) \/ ReadFirstFails(c) \/ WriteAnswer(c) \/ WriteAnswerFails(c)
             \/ ReadMessageFails(c) \/ ReadAudio(c) \/ ReadNonsense(c) \/ ReadCommand(c)
             \/ WriteReplies(c) \/ NoReply(c) \/ WriteRepliesFails(c)
      PROVE  /\ UNCHANGED <<id, kill, sess, sessions>>
             /\ pc'[c] \in Before => pc[c] \in Before
             /\ pc'[c] \in Served <=> pc[c] \in Served
  BY <1>3 DEF ReadFirst, ReadFirstFails, WriteAnswer, WriteAnswerFails, GiveUp, ReadMessageFails,
              ReadAudio, TakeFrame, ReadNonsense, ReadCommand, WriteReplies, NoReply,
              WriteRepliesFails
<1> QED
  BY <1>1, <1>2, <1>3 DEF LocalStep, ConnStep

LEMMA ServeStep ==
    ASSUME IInv, NEW c \in Calls, LocalStep(c) \/ ConnStep(c)
    PROVE  IInv'
<1>1. TypeOK' /\ CallKept(c)' /\ \A d \in Calls \ {c} : SameCall(d)
  <2>1. TypeOK /\ CallKept(c) /\ HoldersPlaced
    BY DEF IInv
  <2> QED
    BY <2>1, QuietStep, OwnCloseStep, GiveUpStep, RepliesStep, RecordStep, CreateStep, SetupStep,
       BindStep, RequestStep, FinalizeStep
       DEF LocalStep, ConnStep
<1>2. /\ UNCHANGED <<id, kill>>
      /\ sess' = sess \/ pc'[c] \notin Before \cup {"CloseConn", "Done"}
      /\ pc'[c] \in Before => pc[c] \in Before
      /\ ~Create(c) /\ ~Delete(c) =>
             UNCHANGED sessions /\ (pc'[c] \in Served <=> pc[c] \in Served)
  BY WhereItLeads DEF IInv
<1>3. ASSUME NEW d \in Calls PROVE CallKept(d)'
  <2>1. CASE d = c
    BY <1>1, <2>1
  <2>2. CASE d # c
    <3>1. SameKills(d)
      BY <1>2 DEF SameKills
    <3> QED
      BY <1>1, <2>2, <3>1, CallUntouched DEF IInv
  <2> QED
    BY <2>1, <2>2
<1>4. HoldersPlaced'
  <2>1. \A d \in Calls : sess[d] # None => sess'[d] # None
    <3>1. sess'[c] # None \/ sess' = sess
      BY <1>1, <1>2 DEF CallKept, SessionPlaced
    <3> QED
      BY <1>1, <3>1 DEF SameCall
  <2>2. \A k \in Kills : kill[k].target \in Calls \cup {None}
    BY DEF IInv, TypeOK
  <2> QED
    BY <1>2, <2>1, <2>2 DEF IInv, HoldersPlaced
<1>5. MapKept'
  <2>1. /\ \A i \in Ids : sessions[i] \in Calls \cup {None}
        /\ \A d \in Calls : id[d] \in Ids
        /\ sessions \in [Ids -> Calls \cup {None}]
    BY DEF IInv, TypeOK
  <2>2. \A d \in Calls \ {c} : pc'[d] = pc[d]
    BY <1>1 DEF SameCall
  <2>3. CASE Create(c)
    <3>1. sessions' = [sessions EXCEPT ![id[c]] = c] /\ pc[c] \notin Served
      BY <2>3 DEF Create, Goto, Served, Before
    <3>2. pc'[c] \in Served
      BY <2>3 DEF Create, Goto, IInv, TypeOK, PC, Served, Before, Recorded
    <3> QED
      BY <1>2, <2>1, <2>2, <3>1, <3>2, NoneAssumption DEF IInv, MapKept
  <2>4. CASE Delete(c)
    <3>1. sessions' = [sessions EXCEPT ![id[c]] = None]
      BY <2>4 DEF Delete
    <3>2. pc'[c] \notin Served
      BY <2>4 DEF Delete, Goto, IInv, TypeOK, Served
    <3> QED
      BY <1>2, <2>1, <2>2, <3>1, <3>2, NoneAssumption DEF IInv, MapKept
  <2>5. CASE ~Create(c) /\ ~Delete(c)
    BY <1>2, <2>1, <2>2, <2>5 DEF IInv, MapKept
  <2> QED
    BY <2>3, <2>4, <2>5
<1> QED
  BY <1>1, <1>3, <1>4, <1>5 DEF IInv

LEMMA AudioAndPeerStep ==
    ASSUME IInv, NEW c \in Calls,
           TrackStarts(c) \/ AudioFails(c) \/ AudioFail(c) \/ AudioCallsCloseFn(c) \/ PeerLeaves(c)
    PROVE  IInv'
<1>1. /\ TypeOK' /\ CallKept(c)' /\ \A d \in Calls \ {c} : SameCall(d)
      /\ sess'[c] = None => sess[c] = None
  BY AudioStepKept DEF IInv
<1>2. UNCHANGED <<pc, id, kill, sessions>>
  BY DEF TrackStarts, AudioFails, AudioFail, AudioCallsCloseFn, PeerLeaves, locals, registry,
         others, request
<1>3. ASSUME NEW d \in Calls PROVE CallKept(d)'
  <2>1. CASE d = c
    BY <1>1, <2>1
  <2>2. CASE d # c
    <3>1. SameKills(d)
      BY <1>2 DEF SameKills
    <3> QED
      BY <1>1, <2>2, <3>1, CallUntouched DEF IInv
  <2> QED
    BY <2>1, <2>2
<1>4. HoldersPlaced'
  <2>1. \A d \in Calls : sess[d] # None => sess'[d] # None
    BY <1>1 DEF SameCall
  <2>2. \A k \in Kills : kill[k].target \in Calls \cup {None}
    BY DEF IInv, TypeOK
  <2> QED
    BY <1>2, <2>1, <2>2 DEF IInv, HoldersPlaced
<1>5. MapKept'
  BY <1>2 DEF IInv, MapKept
<1> QED
  BY <1>1, <1>3, <1>4, <1>5 DEF IInv

LEMMA StepKeeps ==
    ASSUME IInv, [Next]_vars PROVE IInv'
<1>1. CASE UNCHANGED vars
  <2>1. TypeOK'
    BY <1>1 DEF IInv, TypeOK, vars, locals, outputs, registry, wire, others, request
  <2>2. ASSUME NEW d \in Calls PROVE CallKept(d)'
    <3>1. SameCall(d) /\ SameKills(d)
      BY <1>1 DEF SameCall, SameKills, vars, locals, request, outputs, registry, wire, others
    <3> QED
      BY <3>1, CallUntouched DEF IInv
  <2>3. HoldersPlaced' /\ MapKept'
    BY <1>1 DEF IInv, HoldersPlaced, MapKept, vars, locals, registry, others, request
  <2> QED
    BY <2>1, <2>2, <2>3 DEF IInv
<1>2. CASE Next
  BY <1>2, ServeStep, AudioAndPeerStep, LookupStep, KillRequestStep, KillCloseStep
     DEF Next, AudioStep, KillStep
<1> QED
  BY <1>1, <1>2

-----------------------------------------------------------------------------
(* The theorems *)

\* In every reachable state, for any number of calls and kills, what serveWS has
\* done so far agrees with the session, the connection, the record and the map.
THEOREM CallInvariant == Spec => []IInv
<1>1. Init => IInv
  BY InitIInv
<1>2. IInv /\ [Next]_vars => IInv'
  BY StepKeeps
<1> QED
  BY <1>1, <1>2, PTL DEF Spec

\* The variables keep their types.
THEOREM CallTyped == Spec => []TypeOK
<1>1. IInv => TypeOK
  BY DEF IInv
<1> QED
  BY <1>1, CallInvariant, PTL

\* A record tells of an answer exactly when the client was sent one.
THEOREM AnswerIsTold == Spec => []RecordTellsAnswer
<1>1. IInv => RecordTellsAnswer
  BY IInvImplies
<1> QED
  BY <1>1, CallInvariant, PTL

\* A record agrees with what ended the call, whoever asked, in whatever order.
THEOREM CauseIsTold == Spec => []RecordTellsCause
<1>1. IInv => RecordTellsCause
  BY IInvImplies
<1> QED
  BY <1>1, CallInvariant, PTL

\* The kill and list interfaces see the calls that are served, and only those.
THEOREM ListIsRight == Spec => []ServedIsRegistered
<1>1. IInv => ServedIsRegistered
  BY IInvImplies
<1> QED
  BY <1>1, CallInvariant, PTL

\* When all handlers have returned the manager is empty, and every session is
\* closed and has its record.
THEOREM AllIsCleanedUp == Spec => []NothingLeftBehind
<1>1. IInv => NothingLeftBehind
  BY IInvImplies
<1> QED
  BY <1>1, CallInvariant, PTL

-----------------------------------------------------------------------------
(* Every call uses its session as SessionClose says *)

\* SessionClose's operators on sessions, seen from a call, are the same ones.
LEMMA SameMethods ==
    ASSUME NEW c, NEW t, NEW info
    PROVE  /\ SessionOf(c)!NewSession = NewSession
           /\ SessionOf(c)!BeginHandshake(t) = BeginHandshake(t)
           /\ SessionOf(c)!MarkActive(t) = MarkActive(t)
           /\ SessionOf(c)!RecordAnswer(t) = RecordAnswer(t)
           /\ SessionOf(c)!BindCloseFunc(t) = BindCloseFunc(t)
           /\ SessionOf(c)!BindCallsNow(t) <=> BindCallsNow(t)
           /\ SessionOf(c)!TakesCloseFn(t) <=> TakesCloseFn(t)
           /\ SessionOf(c)!RequestClose(t, info) = RequestClose(t, info)
           /\ SessionOf(c)!Finalize(t, info) = Finalize(t, info)
<1>1. SessionOf(c)!NewSession = NewSession
  BY DEF SessionOf!NewSession, SessionOf!NoCloseInfo, NewSession, NoCloseInfo
<1>2. /\ SessionOf(c)!BeginHandshake(t) = BeginHandshake(t)
      /\ SessionOf(c)!MarkActive(t) = MarkActive(t)
  BY DEF SessionOf!BeginHandshake, SessionOf!MarkActive, SessionOf!isTerminalLocked,
         SessionOf!Terminal, BeginHandshake, MarkActive, isTerminalLocked, Terminal
<1>3. /\ SessionOf(c)!RecordAnswer(t) = RecordAnswer(t)
      /\ SessionOf(c)!BindCloseFunc(t) = BindCloseFunc(t)
      /\ SessionOf(c)!BindCallsNow(t) <=> BindCallsNow(t)
      /\ SessionOf(c)!TakesCloseFn(t) <=> TakesCloseFn(t)
  BY DEF SessionOf!RecordAnswer, SessionOf!BindCloseFunc, SessionOf!BindCallsNow,
         SessionOf!TakesCloseFn, RecordAnswer, BindCloseFunc, BindCallsNow, TakesCloseFn
<1>4. /\ SessionOf(c)!normalizeCloseInfo(info) = normalizeCloseInfo(info)
      /\ \A b : SessionOf(c)!mergeCloseInfo(b, info) = mergeCloseInfo(b, info)
      /\ \A b : SessionOf(c)!mergeCloseInfo(b, normalizeCloseInfo(info)) =
                    mergeCloseInfo(b, normalizeCloseInfo(info))
  BY DEF SessionOf!normalizeCloseInfo, SessionOf!mergeCloseInfo, SessionOf!OrElse,
         normalizeCloseInfo, mergeCloseInfo, OrElse
<1>5. SessionOf(c)!RequestInfo(t, info) = RequestInfo(t, info)
  BY <1>4 DEF SessionOf!RequestInfo, RequestInfo
<1>6. \A i : SessionOf(c)!RequestState(t, i) = RequestState(t, i)
  BY DEF SessionOf!RequestState, RequestState
<1>7. SessionOf(c)!RequestClose(t, info) = RequestClose(t, info)
  BY <1>5, <1>6 DEF SessionOf!RequestClose, RequestClose
<1>8. SessionOf(c)!Finalize(t, info) = Finalize(t, info)
  BY <1>4 DEF SessionOf!Finalize, Finalize
<1> QED
  BY <1>1, <1>2, <1>3, <1>7, <1>8

LEMMA SameRequests ==
    ASSUME NEW c, NEW info \in OwnInfos \cup {KillInfo}
    PROVE  /\ info \in SessionOf(c)!Fallbacks
           /\ info.cause # "disconnect" => info \in SessionOf(c)!Requests
<1> USE DEF SessionOf!Fallbacks, SessionOf!Requests
<1>1. CASE info = DisconnectInfo
  BY <1>1 DEF SessionOf!DisconnectInfo, DisconnectInfo
<1>2. CASE info = KillInfo
  BY <1>2 DEF SessionOf!KillInfo, KillInfo
<1>3. CASE info = FailInfo("error")
  BY <1>3, CallsAssumption DEF SessionOf!FailRequests, FailInfo
<1>4. ASSUME NEW r \in Texts \cup {""}, NEW i \in Texts \cup {""}, info = HangupInfo(r, i)
      PROVE  info \in SessionOf(c)!HangupRequests
  BY <1>4 DEF SessionOf!HangupRequests, HangupInfo
<1>5. CASE info \in CloseResults \ {None}
  <2>1. "autohangup" \in Texts /\ "system" \in Texts
    BY TextsAssumption
  <2>2. HangupReasons \subseteq Texts \cup {""} /\ HangupInitiators \subseteq Texts \cup {""}
    BY CallsAssumption
  <2>3. info \in Hangups => \E r \in HangupReasons, i \in HangupInitiators : info = HangupInfo(r, i)
    BY DEF Hangups
  <2>4. info = AutoHangupInfo \/ info \in Hangups
    BY <1>5 DEF CloseResults
  <2>5. info = AutoHangupInfo => info \in SessionOf(c)!HangupRequests
    BY <1>4, <2>1 DEF AutoHangupInfo
  <2>6. info \in SessionOf(c)!HangupRequests
    BY <1>4, <2>2, <2>3, <2>4, <2>5
  <2> QED
    BY <2>6 DEF SessionOf!HangupRequests
<1> QED
  BY <1>1, <1>2, <1>3, <1>5 DEF OwnInfos

\* What SessionClose calls s, todo and doneCloses, of call c.
SessionSeen(c)  == IF sess[c] = None THEN NewSession ELSE sess[c]
TodoSeen(c)     == [u \in Users |-> Owed(c, u)]
DoneCloses(c) == IF sess[c] # None
                    /\ pc[c] \in {"Delete", "WriteRecord", "Release", "CloseConn", "Done"}
                 THEN 1 ELSE 0

\* A step of user g that leaves it owing w, and nobody else anything else.
LEMMA TodoOfOne ==
    ASSUME NEW c, NEW g \in Users, NEW w, Owed(c, g)' = w,
           \A u \in Users \ {g} : Owed(c, u)' = Owed(c, u)
    PROVE  TodoSeen(c)' = [TodoSeen(c) EXCEPT ![g] = w]
BY DEF TodoSeen

\* A step of serveWS changes what serveWS owes, and nobody else.
LEMMA ServeOwes ==
    ASSUME NEW c, UNCHANGED <<audio, kill>>
    PROVE  \A u \in Users \ {"serveWS"} : Owed(c, u)' = Owed(c, u)
BY DEF Owed

\* A step that changes nothing of a call changes nothing of its session.
LEMMA Unconcerned ==
    ASSUME NEW c, SameCall(c), TodoSeen(c)' = TodoSeen(c)
    PROVE  UNCHANGED SessionOf(c)!vars
<1>1. SessionSeen(c)' = SessionSeen(c) /\ DoneCloses(c)' = DoneCloses(c)
  BY DEF SessionSeen, DoneCloses, SameCall
<1> QED
  BY <1>1 DEF SessionOf!vars, SessionSeen, TodoSeen, DoneCloses, SameCall

\* The three kinds of step that several goroutines take: to ask for a close, and
\* to call the close function; and those that change nothing of the session.
LEMMA IsRequest ==
    ASSUME NEW c, NEW g \in Users, NEW info \in SessionOf(c)!Requests,
           sess[c] # None, sess'[c] # None, sess'[c] = RequestClose(sess[c], info),
           Owed(c, g) = "nothing",
           Owed(c, g)' = IF TakesCloseFn(sess[c]) THEN "closeFn" ELSE "nothing",
           \A u \in Users \ {g} : Owed(c, u)' = Owed(c, u),
           closeFnRuns'[c] = closeFnRuns[c], DoneCloses(c)' = DoneCloses(c)
    PROVE  SessionOf(c)!Next
<1>1. SessionSeen(c) = sess[c] /\ SessionSeen(c)' = RequestClose(sess[c], info)
  BY DEF SessionSeen
<1>2. TodoSeen(c)' = [TodoSeen(c) EXCEPT ![g] = IF TakesCloseFn(sess[c]) THEN "closeFn"
                                               ELSE "nothing"]
  BY TodoOfOne
<1>3. TodoSeen(c)[g] = "nothing"
  BY DEF TodoSeen
<1>4. SessionOf(c)!CallRequestClose(g, info)
  BY ZenonT(30), <1>1, <1>2, <1>3, SameMethods
     DEF SessionOf!CallRequestClose, SessionOf!Idle, SessionOf!Unlock, SessionSeen, TodoSeen,
         DoneCloses
<1> QED
  BY <1>4 DEF SessionOf!Next

LEMMA IsCloseFn ==
    ASSUME TypeOK, NEW c \in Calls, NEW g \in Users, RunCloseFn(c), sess'[c] = sess[c],
           Owed(c, g) = "closeFn", Owed(c, g)' = "nothing",
           \A u \in Users \ {g} : Owed(c, u)' = Owed(c, u),
           DoneCloses(c)' = DoneCloses(c)
    PROVE  SessionOf(c)!Next
<1>1. SessionSeen(c)' = SessionSeen(c)
  BY DEF SessionSeen
<1>2. TodoSeen(c)' = [TodoSeen(c) EXCEPT ![g] = "nothing"]
  BY TodoOfOne
<1>3. TodoSeen(c)[g] = "closeFn"
  BY DEF TodoSeen
<1>4. closeFnRuns'[c] = closeFnRuns[c] + 1
  BY DEF RunCloseFn, TypeOK
<1>5. SessionOf(c)!RunCloseFn(g)
  BY <1>1, <1>2, <1>3, <1>4
     DEF SessionOf!RunCloseFn, SessionOf!Unlock, SessionSeen, TodoSeen, DoneCloses
<1> QED
  BY <1>5 DEF SessionOf!Next

\* The methods serveWS calls alone.
LEMMA IsOwnMethod ==
    ASSUME NEW c, NEW u, sess[c] # None, sess'[c] # None, sess'[c] = u,
           Owed(c, "serveWS") = "nothing", UNCHANGED <<audio, kill>>,
           closeFnRuns'[c] = closeFnRuns[c], DoneCloses(c)' = DoneCloses(c),
           \/ /\ u = BeginHandshake(sess[c]) \/ u = MarkActive(sess[c]) \/ u = RecordAnswer(sess[c])
              /\ Owed(c, "serveWS")' = "nothing"
           \/ /\ u = BindCloseFunc(sess[c]) /\ ~sess[c].closeFn
              /\ Owed(c, "serveWS")' = IF BindCallsNow(sess[c]) THEN "closeFn" ELSE "nothing"
           \/ /\ \E fallback \in SessionOf(c)!Fallbacks : u = Finalize(sess[c], fallback)
              /\ sess[c].done
              /\ Owed(c, "serveWS")' = "close(done)"
    PROVE  SessionOf(c)!Next
<1>1. SessionSeen(c) = sess[c] /\ SessionSeen(c)' = u
  BY DEF SessionSeen
<1>2. "serveWS" \in Users
  BY DEF Users
<1>3. \A v \in Users \ {"serveWS"} : Owed(c, v)' = Owed(c, v)
  BY ServeOwes
<1>4. TodoSeen(c)["serveWS"] = "nothing"
  BY <1>2 DEF TodoSeen
<1>5. ASSUME u = BeginHandshake(sess[c]) \/ u = MarkActive(sess[c]) \/ u = RecordAnswer(sess[c]),
             Owed(c, "serveWS")' = "nothing"
      PROVE  SessionOf(c)!Next
  <2>1. TodoSeen(c)' = TodoSeen(c)
    BY <1>3, <1>5 DEF TodoSeen
  <2>2. \/ SessionOf(c)!CallBeginHandshake("serveWS") \/ SessionOf(c)!CallMarkActive("serveWS")
        \/ SessionOf(c)!CallRecordAnswer("serveWS")
    BY <1>1, <1>4, <1>5, <2>1, SameMethods
       DEF SessionOf!CallBeginHandshake, SessionOf!CallMarkActive, SessionOf!CallRecordAnswer,
           SessionOf!Idle, SessionSeen, TodoSeen, DoneCloses
  <2> QED
    BY <1>2, <2>2 DEF SessionOf!Next
<1>6. ASSUME u = BindCloseFunc(sess[c]), ~sess[c].closeFn,
             Owed(c, "serveWS")' = IF BindCallsNow(sess[c]) THEN "closeFn" ELSE "nothing"
      PROVE  SessionOf(c)!Next
  <2>1. TodoSeen(c)' = [TodoSeen(c) EXCEPT !["serveWS"] =
                            IF BindCallsNow(sess[c]) THEN "closeFn" ELSE "nothing"]
    BY <1>2, <1>3, <1>6, TodoOfOne
  <2>2. SessionOf(c)!CallBindCloseFunc("serveWS")
    BY <1>1, <1>4, <1>6, <2>1, SameMethods
       DEF SessionOf!CallBindCloseFunc, SessionOf!Idle, SessionOf!Unlock, SessionSeen, TodoSeen,
           DoneCloses
  <2> QED
    BY <1>2, <2>2 DEF SessionOf!Next
<1>7. ASSUME NEW fallback \in SessionOf(c)!Fallbacks, u = Finalize(sess[c], fallback),
             sess[c].done, Owed(c, "serveWS")' = "close(done)"
      PROVE  SessionOf(c)!Next
  <2>1. TodoSeen(c)' = [TodoSeen(c) EXCEPT !["serveWS"] =
                            IF sess[c].done THEN "close(done)" ELSE "nothing"]
    BY <1>2, <1>3, <1>7, TodoOfOne
  <2>2. SessionSeen(c)' = SessionOf(c)!Finalize(SessionSeen(c), fallback)
    BY <1>1, <1>7, SameMethods
  <2>3. SessionOf(c)!CallFinalize("serveWS", fallback)
    BY <1>1, <1>4, <2>1, <2>2
       DEF SessionOf!CallFinalize, SessionOf!Idle, SessionOf!Unlock, SessionSeen, TodoSeen,
           DoneCloses
  <2> QED
    BY <1>2, <2>3 DEF SessionOf!Next
<1> QED
  BY <1>5, <1>6, <1>7

\* The steps of serveWS, on its own call.
LEMMA ServeMaps ==
    ASSUME IInv, NEW c \in Calls, LocalStep(c) \/ ConnStep(c)
    PROVE  [SessionOf(c)!Next]_(SessionOf(c)!vars)
<1> DEFINE t == sess[c]
<1>1. pc \in [Calls -> PC] /\ sess \in [Calls -> Session \cup {None}]
  BY DEF IInv, TypeOK
<1>3. "serveWS" \in Users
  BY DEF Users
<1>4. CallKept(c) /\ TypeOK
  BY DEF IInv
<1>5. /\ CallKept(c)' /\ TypeOK'
  BY ServeStep DEF IInv
<1>6. CASE Create(c)
  <2>1. SessionSeen(c)' = SessionSeen(c)
    BY <1>1, <1>4, <1>6 DEF Create, SessionStep, Goto, SessionSeen, CallKept, SessionPlaced, Before
  <2>2. TodoSeen(c)' = TodoSeen(c)
    BY <1>1, <1>6 DEF Create, Goto, TodoSeen, Owed, others
  <2>3. DoneCloses(c)' = DoneCloses(c)
    BY <1>1, <1>6 DEF Create, Goto, DoneCloses
  <2>4. closeFnRuns' = closeFnRuns
    BY <1>6 DEF Create, wire
  <2> QED
    BY <2>1, <2>2, <2>3, <2>4 DEF SessionOf!vars, SessionSeen, TodoSeen, DoneCloses
<1>7. CASE DoBeginHandshake(c) \/ DoMarkActive(c) \/ DoRecordAnswer(c)
  <2>1. /\ pc[c] \in {"BeginHandshake", "MarkActive", "RecordAnswer"}
        /\ pc'[c] \in {"BindCloseFunc", "ReadMessage", "MarkActive"}
        /\ UNCHANGED <<audio, kill, closeFnRuns>>
    BY <1>1, <1>7 DEF DoBeginHandshake, DoMarkActive, DoRecordAnswer, Goto, others, wire
  <2>2. /\ sess'[c] = BeginHandshake(t) \/ sess'[c] = MarkActive(t) \/ sess'[c] = RecordAnswer(t)
    BY <1>1, <1>7 DEF DoBeginHandshake, DoMarkActive, DoRecordAnswer, SessionStep
  <2>3. t # None /\ sess'[c] # None
    BY <1>4, <1>5, <2>1 DEF CallKept, SessionPlaced, Before
  <2>4. Owed(c, "serveWS") = "nothing" /\ Owed(c, "serveWS")' = "nothing"
    BY <2>1 DEF Owed
  <2>5. DoneCloses(c)' = DoneCloses(c)
    BY <2>1 DEF DoneCloses
  <2> QED
    BY <2>1, <2>2, <2>3, <2>4, <2>5, IsOwnMethod
<1>8. CASE DoBindCloseFunc(c)
  <2>1. /\ pc[c] = "BindCloseFunc" /\ UNCHANGED <<audio, kill, closeFnRuns>>
        /\ pc'[c] = IF BindCallsNow(t) THEN "BindCalls" ELSE "BuildAnswer"
        /\ sess'[c] = BindCloseFunc(t)
    BY <1>1, <1>8 DEF DoBindCloseFunc, Goto, others, wire, SessionStep
  <2>2. t # None /\ sess'[c] # None /\ ~t.closeFn
    BY <1>4, <1>5, <2>1 DEF CallKept, SessionPlaced, SessionAgrees, Before, Unbound
  <2>3. /\ Owed(c, "serveWS") = "nothing"
        /\ Owed(c, "serveWS")' = IF BindCallsNow(t) THEN "closeFn" ELSE "nothing"
    BY <2>1 DEF Owed
  <2>4. DoneCloses(c)' = DoneCloses(c)
    BY <2>1 DEF DoneCloses
  <2> QED
    BY <2>1, <2>2, <2>3, <2>4, IsOwnMethod
<1>9. CASE DoRequestClose(c)
  <2>1. /\ pc[c] = "RequestClose" /\ UNCHANGED <<audio, kill, closeFnRuns>>
        /\ pc'[c] = IF TakesCloseFn(t) THEN "CallCloseFn" ELSE "Finalize"
        /\ sess'[c] = RequestClose(t, closeInfo[c])
    BY <1>1, <1>9 DEF DoRequestClose, Goto, others, wire, SessionStep
  <2>2. t # None /\ sess'[c] # None
    BY <1>4, <1>5, <2>1 DEF CallKept, SessionPlaced, Before
  <2>3. /\ Owed(c, "serveWS") = "nothing"
        /\ Owed(c, "serveWS")' = IF TakesCloseFn(t) THEN "closeFn" ELSE "nothing"
    BY <2>1 DEF Owed
  <2>4. DoneCloses(c)' = DoneCloses(c)
    BY <2>1 DEF DoneCloses
  <2>5. closeInfo[c] \in SessionOf(c)!Requests
    BY <1>4, <2>1, SameRequests DEF CallKept, AskedFor
  <2> QED
    BY <1>3, <2>1, <2>2, <2>3, <2>4, <2>5, IsRequest, ServeOwes
<1>10. CASE DoFinalize(c)
  <2>1. /\ pc[c] = "Finalize" /\ pc'[c] = "CloseDone" /\ UNCHANGED <<audio, kill, closeFnRuns>>
        /\ sess'[c] = Finalize(t, closeInfo[c])
    BY <1>1, <1>10 DEF DoFinalize, Goto, others, wire, SessionStep
  <2>2. t # None /\ sess'[c] # None /\ t.done
    BY <1>4, <1>5, <2>1 DEF CallKept, SessionPlaced, SessionAgrees, Before, Finalized, Recorded
  <2>3. Owed(c, "serveWS") = "nothing" /\ Owed(c, "serveWS")' = "close(done)"
    BY <2>1 DEF Owed
  <2>4. DoneCloses(c)' = DoneCloses(c)
    BY <2>1 DEF DoneCloses
  <2>5. closeInfo[c] \in SessionOf(c)!Fallbacks
    BY <1>4, SameRequests DEF CallKept, AskedFor
  <2> QED
    BY <2>1, <2>2, <2>3, <2>4, <2>5, IsOwnMethod
<1>11. CASE BindCalls(c) \/ CallCloseFn(c)
  <2>1. /\ pc[c] \in {"BindCalls", "CallCloseFn"} /\ pc'[c] \in {"BuildAnswer", "Finalize"}
        /\ UNCHANGED <<audio, kill, sess>> /\ RunCloseFn(c)
    BY <1>1, <1>11 DEF BindCalls, CallCloseFn, Goto, others, registry
  <2>2. Owed(c, "serveWS") = "closeFn" /\ Owed(c, "serveWS")' = "nothing"
    BY <2>1 DEF Owed
  <2>3. DoneCloses(c)' = DoneCloses(c)
    BY <2>1 DEF DoneCloses
  <2> QED
    BY <1>3, <1>4, <2>1, <2>2, <2>3, IsCloseFn, ServeOwes
<1>12. CASE CloseDone(c)
  <2>1. /\ pc[c] = "CloseDone" /\ pc'[c] = "Delete" /\ UNCHANGED <<audio, kill, sess, closeFnRuns>>
    BY <1>1, <1>12 DEF CloseDone, Goto, others, wire, registry
  <2>2. t # None
    BY <1>4, <2>1 DEF CallKept, SessionPlaced, Before
  <2>3. Owed(c, "serveWS") = "close(done)" /\ Owed(c, "serveWS")' = "nothing"
    BY <2>1 DEF Owed
  <2>4. TodoSeen(c)' = [TodoSeen(c) EXCEPT !["serveWS"] = "nothing"]
    BY <1>3, <2>1, <2>3, TodoOfOne, ServeOwes
  <2>5. TodoSeen(c)["serveWS"] = "close(done)"
    BY <1>3, <2>3 DEF TodoSeen
  <2>6. DoneCloses(c) = 0 /\ DoneCloses(c)' = 1
    BY <2>1, <2>2 DEF DoneCloses
  <2>7. SessionSeen(c)' = SessionSeen(c)
    BY <2>1 DEF SessionSeen
  <2>8. SessionOf(c)!CloseDone("serveWS")
    BY <2>1, <2>4, <2>5, <2>6, <2>7
       DEF SessionOf!CloseDone, SessionOf!Unlock, SessionSeen, TodoSeen, DoneCloses
  <2> QED
    BY <1>3, <2>8 DEF SessionOf!Next
<1>13. ASSUME sess'[c] = t, closeFnRuns'[c] = closeFnRuns[c], kill' = kill,
              audio'[c].pc = "CallCloseFn" <=> audio[c].pc = "CallCloseFn",
              pc[c] \notin {"BindCalls", "CallCloseFn", "CloseDone"},
              pc'[c] \notin {"BindCalls", "CallCloseFn", "CloseDone"},
              t # None =>
                  (pc[c] \in {"Delete", "WriteRecord", "Release", "CloseConn", "Done"} <=>
                   pc'[c] \in {"Delete", "WriteRecord", "Release", "CloseConn", "Done"})
       PROVE  UNCHANGED SessionOf(c)!vars
  <2>1. TodoSeen(c)' = TodoSeen(c)
    BY <1>13 DEF TodoSeen, Owed
  <2>2. SessionSeen(c)' = SessionSeen(c) /\ DoneCloses(c)' = DoneCloses(c)
    BY <1>13 DEF SessionSeen, DoneCloses
  <2> QED
    BY <1>13, <2>1, <2>2 DEF SessionOf!vars, SessionSeen, TodoSeen, DoneCloses
<1>14. CASE BuildAnswer(c) \/ BuildAnswerFails(c) \/ Route(c) \/ Delete(c) \/ WriteRecord(c)
            \/ Release(c) \/ CloseConn(c)
  BY <1>1, <1>13, <1>14
     DEF BuildAnswer, BuildAnswerFails, GiveUp, Route, Delete, WriteRecord, Release, CloseConn,
         Goto, registry, wire, others
<1>15. CASE ReadFirst(c) \/ ReadFirstFails(c) \/ ReadMessageFails(c) \/ ReadNonsense(c)
            \/ ReadCommand(c) \/ NoReply(c) \/ WriteReplies(c) \/ WriteRepliesFails(c)
            \/ WriteAnswer(c) \/ WriteAnswerFails(c)
  <2>1. pc[c] \in Before => t = None
    BY <1>4 DEF CallKept, SessionPlaced
  <2> QED
    BY <1>1, <1>13, <1>15, <2>1
       DEF ReadFirst, ReadFirstFails, ReadMessageFails, ReadNonsense, ReadCommand, NoReply,
           WriteReplies, WriteRepliesFails, WriteAnswer, WriteAnswerFails, GiveUp, TakeFrame,
           Goto, registry, wire, others, Before
<1>16. CASE ReadAudio(c)
  <2>1. audio'[c].pc = "CallCloseFn" <=> audio[c].pc = "CallCloseFn"
    BY <1>4, <1>16 DEF ReadAudio, TypeOK
  <2> QED
    BY <1>1, <1>13, <1>16, <2>1 DEF ReadAudio, TakeFrame, Goto, registry, wire
<1> QED
  BY <1>6, <1>7, <1>8, <1>9, <1>10, <1>11, <1>12, <1>14, <1>15, <1>16 DEF LocalStep, ConnStep

\* The steps of the audio goroutine and of the peer, on their own call.
LEMMA AudioMaps ==
    ASSUME IInv, NEW c \in Calls,
           TrackStarts(c) \/ AudioFails(c) \/ AudioFail(c) \/ AudioCallsCloseFn(c) \/ PeerLeaves(c)
    PROVE  [SessionOf(c)!Next]_(SessionOf(c)!vars)
<1>1. /\ TypeOK /\ CallKept(c) /\ sess \in [Calls -> Session \cup {None}]
      /\ audio \in [Calls -> [pc: AudioStates, faults: 0..MaxFaults]]
  BY DEF IInv, TypeOK
<1>2. sess'[c] = None => sess[c] = None
  BY AudioStepKept DEF IInv
<1>3. "audio" \in Users
  BY DEF Users
<1>4. UNCHANGED <<pc, kill>>
  BY DEF TrackStarts, AudioFails, AudioFail, AudioCallsCloseFn, PeerLeaves, others
<1>5. \A u \in Users \ {"audio"} : Owed(c, u)' = Owed(c, u)
  BY <1>4 DEF Owed
<1>6. /\ Owed(c, "audio") = IF audio[c].pc = "CallCloseFn" THEN "closeFn" ELSE "nothing"
      /\ Owed(c, "audio")' = IF audio'[c].pc = "CallCloseFn" THEN "closeFn" ELSE "nothing"
  BY DEF Owed
<1>7. CASE TrackStarts(c) \/ AudioFails(c) \/ PeerLeaves(c)
  <2>1. /\ UNCHANGED <<sess, closeFnRuns>>
        /\ audio'[c].pc = "CallCloseFn" <=> audio[c].pc = "CallCloseFn"
    BY <1>1, <1>7
       DEF TrackStarts, AudioFails, PeerLeaves, Audio, registry, others, wire
  <2>2. TodoSeen(c)' = TodoSeen(c)
    BY <1>5, <1>6, <2>1 DEF TodoSeen
  <2>3. SessionSeen(c)' = SessionSeen(c) /\ DoneCloses(c)' = DoneCloses(c)
    BY <1>4, <2>1 DEF SessionSeen, DoneCloses
  <2> QED
    BY <2>1, <2>2, <2>3 DEF SessionOf!vars, SessionSeen, TodoSeen, DoneCloses
<1>8. CASE AudioFail(c)
  <2>1. /\ audio[c].pc = "Fail" /\ UNCHANGED closeFnRuns
        /\ audio'[c].pc = IF TakesCloseFn(sess[c]) THEN "CallCloseFn" ELSE "on"
        /\ sess'[c] = RequestClose(sess[c], FailInfo("error"))
    BY <1>1, <1>8 DEF AudioFail, Audio, SessionStep, wire
  <2>2. sess[c] # None /\ sess'[c] # None
    BY <1>1, <1>2, <2>1 DEF CallKept, SessionPlaced
  <2>3. /\ Owed(c, "audio") = "nothing"
        /\ Owed(c, "audio")' = IF TakesCloseFn(sess[c]) THEN "closeFn" ELSE "nothing"
    BY <1>6, <2>1
  <2>4. DoneCloses(c)' = DoneCloses(c)
    BY <1>4, <2>2 DEF DoneCloses
  <2>5. FailInfo("error") \in SessionOf(c)!Requests
    BY SameRequests DEF OwnInfos, FailInfo
  <2> QED
    BY <1>3, <1>5, <2>1, <2>2, <2>3, <2>4, <2>5, IsRequest
<1>9. CASE AudioCallsCloseFn(c)
  <2>1. /\ audio[c].pc = "CallCloseFn" /\ audio'[c].pc = "on" /\ UNCHANGED sess /\ RunCloseFn(c)
    BY <1>1, <1>9 DEF AudioCallsCloseFn, Audio, registry
  <2>2. Owed(c, "audio") = "closeFn" /\ Owed(c, "audio")' = "nothing"
    BY <1>6, <2>1
  <2>3. DoneCloses(c)' = DoneCloses(c)
    BY <1>4, <2>1 DEF DoneCloses
  <2> QED
    BY <1>1, <1>3, <1>5, <2>1, <2>2, <2>3, IsCloseFn
<1> QED
  BY <1>7, <1>8, <1>9

\* The steps of a kill, on the call it found.
LEMMA KillMaps ==
    ASSUME IInv, NEW k \in Kills, KillStep(k), NEW c \in Calls, c = kill[k].target
    PROVE  [SessionOf(c)!Next]_(SessionOf(c)!vars)
<1>1. /\ TypeOK /\ CallKept(c) /\ sess \in [Calls -> Session \cup {None}]
      /\ kill \in [Kills -> [pc: {"Lookup", "RequestClose", "CallCloseFn", "Done"},
                             target: Calls \cup {None}]]
  BY DEF IInv, TypeOK
<1>2. k \in Users /\ k # "serveWS" /\ k # "audio"
  BY KillsAssumption DEF Users
<1>3. /\ UNCHANGED <<pc, audio>>
      /\ \A j \in Kills \ {k} : kill'[j] = kill[j]
      /\ kill'[k].target = c
  BY <1>1 DEF KillStep, KillRequestClose, KillCallsCloseFn
<1>4. \A u \in Users \ {k} : Owed(c, u)' = Owed(c, u)
  BY <1>3 DEF Owed, Users
<1>5. /\ Owed(c, k) = IF kill[k].pc = "CallCloseFn" THEN "closeFn" ELSE "nothing"
      /\ Owed(c, k)' = IF kill'[k].pc = "CallCloseFn" THEN "closeFn" ELSE "nothing"
  BY <1>2, <1>3 DEF Owed
<1>6. sess[c] # None /\ c # None
  BY NoneAssumption DEF IInv, HoldersPlaced
<1>7. CASE KillRequestClose(k)
  <2>1. /\ kill[k].pc = "RequestClose" /\ UNCHANGED closeFnRuns
        /\ kill'[k].pc = IF TakesCloseFn(sess[c]) THEN "CallCloseFn" ELSE "Done"
        /\ sess'[c] = RequestClose(sess[c], KillInfo)
    BY <1>1, <1>7 DEF KillRequestClose, SessionStep, wire
  <2>2. sess'[c] # None
    BY <1>7, KillRequestStep, <1>3, <1>6 DEF IInv, HoldersPlaced
  <2>3. /\ Owed(c, k) = "nothing"
        /\ Owed(c, k)' = IF TakesCloseFn(sess[c]) THEN "closeFn" ELSE "nothing"
    BY <1>5, <2>1
  <2>4. DoneCloses(c)' = DoneCloses(c)
    BY <1>3, <1>6, <2>2 DEF DoneCloses
  <2>5. KillInfo \in SessionOf(c)!Requests
    BY SameRequests DEF KillInfo
  <2> QED
    BY <1>2, <1>4, <1>6, <2>1, <2>2, <2>3, <2>4, <2>5, IsRequest
<1>8. CASE KillCallsCloseFn(k)
  <2>1. /\ kill[k].pc = "CallCloseFn" /\ kill'[k].pc = "Done" /\ UNCHANGED sess /\ RunCloseFn(c)
    BY <1>1, <1>8 DEF KillCallsCloseFn, registry
  <2>2. Owed(c, k) = "closeFn" /\ Owed(c, k)' = "nothing"
    BY <1>5, <2>1
  <2>3. DoneCloses(c)' = DoneCloses(c)
    BY <1>3, <2>1 DEF DoneCloses
  <2> QED
    BY <1>1, <1>2, <1>4, <2>1, <2>2, <2>3, IsCloseFn
<1> QED
  BY <1>7, <1>8 DEF KillStep

\* A step that touches nothing of call d, and after which the same kills owe it
\* a call of the close function, changes nothing of its session.
LEMMA ElsewhereMaps ==
    ASSUME NEW d \in Calls, SameCall(d),
           \A k \in Kills : kill'[k].target = d /\ kill'[k].pc = "CallCloseFn" <=>
                            kill[k].target = d /\ kill[k].pc = "CallCloseFn"
    PROVE  UNCHANGED SessionOf(d)!vars
<1>1. \A u \in Users : Owed(d, u)' = Owed(d, u)
  BY DEF Owed, SameCall, Users
<1>2. TodoSeen(d)' = TodoSeen(d)
  BY <1>1 DEF TodoSeen
<1> QED
  BY <1>2, Unconcerned

\* The steps of a kill, on the calls it did not find, and its lookup.
LEMMA KillElsewhere ==
    ASSUME IInv, NEW k \in Kills, NEW d \in Calls,
           \/ KillStep(k) /\ d # kill[k].target
           \/ \E i \in Ids : KillLookup(k, i)
    PROVE  UNCHANGED SessionOf(d)!vars
<1>1. /\ kill \in [Kills -> [pc: {"Lookup", "RequestClose", "CallCloseFn", "Done"},
                             target: Calls \cup {None}]]
      /\ sess \in [Calls -> Session \cup {None}]
      /\ conn \in [Calls -> ConnStates] /\ closeFnRuns \in [Calls -> Nat]
  BY DEF IInv, TypeOK
<1> USE DEF SameCall, locals, request, outputs, registry, wire
<1>2. CASE KillRequestClose(k) /\ d # kill[k].target
  <2>1. SameCall(d)
    BY <1>1, <1>2 DEF KillRequestClose, SessionStep
  <2>2. \A j \in Kills \ {k} : kill'[j] = kill[j]
    BY <1>1, <1>2 DEF KillRequestClose
  <2>3. kill'[k].target = kill[k].target
    BY <1>1, <1>2 DEF KillRequestClose
  <2> QED
    BY <1>2, <2>1, <2>2, <2>3, ElsewhereMaps
<1>3. CASE KillCallsCloseFn(k) /\ d # kill[k].target
  <2>1. SameCall(d)
    BY <1>1, <1>3 DEF KillCallsCloseFn, RunCloseFn
  <2>2. \A j \in Kills \ {k} : kill'[j] = kill[j]
    BY <1>1, <1>3 DEF KillCallsCloseFn
  <2>3. kill'[k].target = kill[k].target
    BY <1>1, <1>3 DEF KillCallsCloseFn
  <2> QED
    BY <1>3, <2>1, <2>2, <2>3, ElsewhereMaps
<1>4. CASE \E i \in Ids : KillLookup(k, i)
  <2>1. SameCall(d)
    BY <1>4 DEF KillLookup
  <2>2. \A j \in Kills : \/ kill'[j] = kill[j]
                         \/ kill'[j].pc # "CallCloseFn" /\ kill[j].pc # "CallCloseFn"
    BY <1>1, <1>4 DEF KillLookup
  <2> QED
    BY <2>1, <2>2, ElsewhereMaps
<1> QED
  BY <1>2, <1>3, <1>4 DEF KillStep

LEMMA SessionStarts ==
    ASSUME Init, NEW c \in Calls
    PROVE  SessionOf(c)!Init
<1>1. sess[c] = None /\ pc[c] = "ReadFirst" /\ audio[c].pc = "off" /\ closeFnRuns[c] = 0
  BY DEF Init
<1>2. \A k \in Kills : kill[k].pc = "Lookup"
  BY DEF Init
<1> QED
  BY <1>1, <1>2 DEF SessionOf!Init, SessionOf!NewSession, SessionOf!NoCloseInfo, NoCloseInfo,
                    NewSession, Users, Owed

LEMMA StepMaps ==
    ASSUME IInv, [Next]_vars, NEW d \in Calls
    PROVE  [SessionOf(d)!Next]_(SessionOf(d)!vars)
<1>1. CASE UNCHANGED vars
  <2>1. SameCall(d) /\ UNCHANGED kill
    BY <1>1 DEF SameCall, vars, locals, request, outputs, registry, wire, others
  <2> QED
    BY <2>1, ElsewhereMaps
<1>2. ASSUME NEW c \in Calls, LocalStep(c) \/ ConnStep(c)
      PROVE  [SessionOf(d)!Next]_(SessionOf(d)!vars)
  <2>1. CASE d = c
    BY <1>2, <2>1, ServeMaps
  <2>2. CASE d # c
    <3>1. SameCall(d)
      <4>1. TypeOK /\ CallKept(c) /\ HoldersPlaced
        BY DEF IInv
      <4> QED
        BY <1>2, <2>2, <4>1, QuietStep, OwnCloseStep, GiveUpStep, RepliesStep, RecordStep,
           CreateStep, SetupStep, BindStep, RequestStep, FinalizeStep DEF LocalStep, ConnStep
    <3>2. UNCHANGED kill
      BY <1>2, WhereItLeads DEF IInv
    <3> QED
      BY <3>1, <3>2, ElsewhereMaps
  <2> QED
    BY <2>1, <2>2
<1>3. ASSUME NEW c \in Calls,
             TrackStarts(c) \/ AudioFails(c) \/ AudioFail(c) \/ AudioCallsCloseFn(c)
             \/ PeerLeaves(c)
      PROVE  [SessionOf(d)!Next]_(SessionOf(d)!vars)
  <2>1. CASE d = c
    BY <1>3, <2>1, AudioMaps
  <2>2. CASE d # c
    <3>1. SameCall(d)
      BY <1>3, <2>2, AudioStepKept DEF IInv
    <3>2. UNCHANGED kill
      BY <1>3 DEF TrackStarts, AudioFails, AudioFail, AudioCallsCloseFn, PeerLeaves, others
    <3> QED
      BY <3>1, <3>2, ElsewhereMaps
  <2> QED
    BY <2>1, <2>2
<1>4. ASSUME NEW k \in Kills, KillStep(k) \/ \E i \in Ids : KillLookup(k, i)
      PROVE  [SessionOf(d)!Next]_(SessionOf(d)!vars)
  BY <1>4, KillMaps, KillElsewhere
<1> QED
  BY <1>1, <1>2, <1>3, <1>4 DEF Next, AudioStep

\* Every goroutine uses the sessions the way SessionClose says: each session starts
\* as one of SessionClose's and takes only its steps.
THEOREM SessionsAreUsedWell == Spec => SessionsUsedWell
<1>1. Init => \A c \in Calls : SessionOf(c)!Init
  BY SessionStarts
<1>2. IInv /\ [Next]_vars => [\A c \in Calls : [SessionOf(c)!Next]_(SessionOf(c)!vars)]_vars
  BY StepMaps
<1> QED
  BY <1>1, <1>2, CallInvariant, PTL DEF Spec, SessionsUsedWell

-----------------------------------------------------------------------------
(* What SessionClose promises holds of every session of the gateway *)

\* The session of call c is orderly for serveWS, the audio goroutine and the
\* kills, who share it.
SessionKept(c) == Orderly(SessionSeen(c), Users, TodoSeen(c), closeFnRuns[c], DoneCloses(c))

\* The close information that SessionClose's goroutines may ask for.
LEMMA InfosSeen ==
    ASSUME NEW c, NEW info \in SessionOf(c)!Fallbacks
    PROVE  info \in CloseInfo /\ info.cause # ""
<1>1. CASE info = SessionOf(c)!DisconnectInfo
  BY <1>1 DEF SessionOf!DisconnectInfo, CloseInfo, Causes
<1>2. CASE info = SessionOf(c)!KillInfo
  BY <1>2, TextsAssumption DEF SessionOf!KillInfo, CloseInfo, Causes
<1>3. CASE info \in SessionOf(c)!HangupRequests \cup SessionOf(c)!FailRequests
  BY <1>3 DEF SessionOf!HangupRequests, SessionOf!FailRequests, CloseInfo, Causes
<1> QED
  BY <1>1, <1>2, <1>3 DEF SessionOf!Fallbacks, SessionOf!Requests

\* A step of SessionClose keeps the session orderly: it is one of the methods,
\* or a work that was owed.
LEMMA SessionNextKeeps ==
    ASSUME NEW c, SessionKept(c), [SessionOf(c)!Next]_(SessionOf(c)!vars)
    PROVE  SessionKept(c)' /\ Onward(SessionSeen(c), SessionSeen(c)')
<1> USE DEF SessionOf!Idle, SessionOf!Unlock
<1> DEFINE Still == /\ closeFnRuns'[c] = closeFnRuns[c]
                    /\ DoneCloses(c)' = DoneCloses(c)
<1>1. CASE UNCHANGED SessionOf(c)!vars
  <2>1. /\ SessionSeen(c)' = SessionSeen(c) /\ TodoSeen(c)' = TodoSeen(c) /\ Still
    BY <1>1 DEF SessionOf!vars, SessionSeen, TodoSeen, DoneCloses
  <2> QED
    BY <2>1, ExtendsItself DEF Onward, SessionKept
<1>2. ASSUME NEW g \in Users, \/ SessionOf(c)!CallBeginHandshake(g)
                              \/ SessionOf(c)!CallMarkActive(g)
                              \/ SessionOf(c)!CallRecordAnswer(g)
      PROVE  SessionKept(c)' /\ Onward(SessionSeen(c), SessionSeen(c)')
  <2>1. /\ \/ SessionSeen(c)' = BeginHandshake(SessionSeen(c))
           \/ SessionSeen(c)' = MarkActive(SessionSeen(c))
           \/ SessionSeen(c)' = RecordAnswer(SessionSeen(c))
        /\ TodoSeen(c)' = TodoSeen(c) /\ Still
    BY <1>2, SameMethods
       DEF SessionOf!CallBeginHandshake, SessionOf!CallMarkActive, SessionOf!CallRecordAnswer,
           SessionSeen, TodoSeen, DoneCloses
  <2> QED
    BY <2>1, OrderlySetup DEF SessionKept
<1>3. ASSUME NEW g \in Users, SessionOf(c)!CallBindCloseFunc(g)
      PROVE  SessionKept(c)' /\ Onward(SessionSeen(c), SessionSeen(c)')
  <2>1. /\ SessionSeen(c)' = BindCloseFunc(SessionSeen(c)) /\ ~SessionSeen(c).closeFn
        /\ TodoSeen(c)[g] = "nothing"
        /\ TodoSeen(c)' = [TodoSeen(c) EXCEPT ![g] = IF BindCallsNow(SessionSeen(c))
                                                    THEN "closeFn" ELSE "nothing"]
        /\ Still
    BY <1>3, SameMethods DEF SessionOf!CallBindCloseFunc, SessionSeen, TodoSeen, DoneCloses
  <2> QED
    BY <2>1, OrderlyBind DEF SessionKept
<1>4. ASSUME NEW g \in Users, NEW info \in SessionOf(c)!Requests,
             SessionOf(c)!CallRequestClose(g, info)
      PROVE  SessionKept(c)' /\ Onward(SessionSeen(c), SessionSeen(c)')
  <2>1. /\ SessionSeen(c)' = RequestClose(SessionSeen(c), info)
        /\ TodoSeen(c)[g] = "nothing"
        /\ TodoSeen(c)' = [TodoSeen(c) EXCEPT ![g] = IF TakesCloseFn(SessionSeen(c))
                                                    THEN "closeFn" ELSE "nothing"]
        /\ Still
    BY <1>4, SameMethods DEF SessionOf!CallRequestClose, SessionSeen, TodoSeen, DoneCloses
  <2>2. info \in InfoWithCause
    BY InfosSeen DEF SessionOf!Fallbacks, InfoWithCause
  <2> QED
    BY <2>1, <2>2, OrderlyRequest DEF SessionKept
<1>5. ASSUME NEW g \in Users, NEW fallback \in SessionOf(c)!Fallbacks,
             SessionOf(c)!CallFinalize(g, fallback)
      PROVE  SessionKept(c)' /\ Onward(SessionSeen(c), SessionSeen(c)')
  <2>1. /\ SessionSeen(c)' = Finalize(SessionSeen(c), fallback)
        /\ TodoSeen(c)[g] = "nothing"
        /\ TodoSeen(c)' = [TodoSeen(c) EXCEPT ![g] = IF SessionSeen(c).done
                                                    THEN "close(done)" ELSE "nothing"]
        /\ Still
    BY <1>5, SameMethods DEF SessionOf!CallFinalize, SessionSeen, TodoSeen, DoneCloses
  <2>2. fallback \in CloseInfo
    BY InfosSeen
  <2> QED
    BY ZenonT(30), <2>1, <2>2, OrderlyFinalize DEF SessionKept
<1>6. ASSUME NEW g \in Users, SessionOf(c)!RunCloseFn(g)
      PROVE  SessionKept(c)' /\ Onward(SessionSeen(c), SessionSeen(c)')
  <2>1. /\ SessionSeen(c)' = SessionSeen(c) /\ TodoSeen(c)[g] = "closeFn"
        /\ TodoSeen(c)' = [TodoSeen(c) EXCEPT ![g] = "nothing"]
        /\ closeFnRuns'[c] = closeFnRuns[c] + 1 /\ DoneCloses(c)' = DoneCloses(c)
    BY <1>6 DEF SessionOf!RunCloseFn, SessionSeen, TodoSeen, DoneCloses
  <2>2. Orderly(SessionSeen(c), Users, TodoSeen(c)', closeFnRuns[c] + 1, DoneCloses(c))
        /\ Onward(SessionSeen(c), SessionSeen(c))
    BY <2>1, OrderlyRun DEF SessionKept
  <2> QED
    BY <2>1, <2>2 DEF SessionKept
<1>7. ASSUME NEW g \in Users, SessionOf(c)!CloseDone(g)
      PROVE  SessionKept(c)' /\ Onward(SessionSeen(c), SessionSeen(c)')
  <2>1. /\ SessionSeen(c)' = SessionSeen(c) /\ TodoSeen(c)[g] = "close(done)"
        /\ TodoSeen(c)' = [TodoSeen(c) EXCEPT ![g] = "nothing"]
        /\ closeFnRuns'[c] = closeFnRuns[c] /\ DoneCloses(c)' = DoneCloses(c) + 1
    BY <1>7 DEF SessionOf!CloseDone, SessionSeen, TodoSeen, DoneCloses
  <2>2. Orderly(SessionSeen(c), Users, TodoSeen(c)', closeFnRuns[c], DoneCloses(c) + 1)
        /\ Onward(SessionSeen(c), SessionSeen(c))
    BY <2>1, OrderlyClose DEF SessionKept
  <2> QED
    BY <2>1, <2>2 DEF SessionKept
<1> QED
  BY <1>1, <1>2, <1>3, <1>4, <1>5, <1>6, <1>7 DEF SessionOf!Next

LEMMA SessionStartsKept ==
    ASSUME Init, NEW c \in Calls
    PROVE  SessionKept(c)
<1>1. /\ SessionSeen(c) = NewSession /\ TodoSeen(c) = [u \in Users |-> "nothing"]
      /\ closeFnRuns[c] = 0 /\ DoneCloses(c) = 0
  BY SessionStarts, SameMethods DEF SessionOf!Init, SessionSeen, TodoSeen, DoneCloses
<1> QED
  BY <1>1, OrderlyNew DEF SessionKept

\* What an orderly session promises, in SessionClose's words.
SessionSafe(c) ==
    /\ SessionOf(c)!CloseFnAtMostOnce
    /\ SessionOf(c)!NoZombie
    /\ SessionOf(c)!StateTellsCause
    /\ SessionOf(c)!DoneClosedOnce

LEMMA SessionKeptImplies ==
    ASSUME NEW c, SessionKept(c) PROVE SessionSafe(c)
<1> DEFINE t    == SessionSeen(c)
           todo == TodoSeen(c)
<1>1. /\ t \in Session /\ TellsCause(t)
      /\ CallOwed(t, Users, todo, closeFnRuns[c]) /\ DoneOwed(t, Users, todo, DoneCloses(c))
      /\ t.closeFnCalled \in BOOLEAN /\ t.done \in BOOLEAN
  BY DEF SessionKept, Orderly, Session
<1>2. /\ closeFnRuns[c] <= 1
      /\ \A g, h \in Users : todo[g] = "closeFn" /\ todo[h] = "closeFn" => g = h
      /\ closeFnRuns[c] = 1 => \A g \in Users : todo[g] # "closeFn"
  BY <1>1 DEF CallOwed, OnceBySomeone
<1>3. t.closeFn /\ t.state \in {"closing", "failed"} =>
          closeFnRuns[c] = 1 \/ \E g \in Users : todo[g] = "closeFn"
  BY <1>1 DEF CallOwed, OnceBySomeone
<1>4. /\ DoneCloses(c) <= 1
      /\ \A g, h \in Users : todo[g] = "close(done)" /\ todo[h] = "close(done)" => g = h
      /\ DoneCloses(c) = 1 => \A g \in Users : todo[g] # "close(done)"
      /\ t.state = "closed" =>
             DoneCloses(c) = 1 \/ \E g \in Users : todo[g] = "close(done)"
  BY <1>1 DEF DoneOwed, OnceBySomeone
<1>5. SessionOf(c)!CloseFnAtMostOnce
  BY <1>2 DEF SessionOf!CloseFnAtMostOnce, TodoSeen
<1>6. SessionOf(c)!NoZombie
  BY <1>3 DEF SessionOf!NoZombie, SessionSeen, TodoSeen
<1>7. SessionOf(c)!StateTellsCause
  BY <1>1 DEF TellsCause, VisibleInList, Live, NoCloseInfo, SessionOf!StateTellsCause,
     SessionOf!VisibleInList, SessionOf!Live, SessionOf!NoCloseInfo, SessionSeen
<1>8. SessionOf(c)!DoneClosedOnce
  BY <1>4 DEF SessionOf!DoneClosedOnce, SessionSeen, TodoSeen, DoneCloses
<1> QED
  BY <1>5, <1>6, <1>7, <1>8 DEF SessionSafe

SessionsKept == \A c \in Calls : SessionKept(c)

LEMMA NextKeepsSessions ==
    IInv /\ SessionsKept /\ [Next]_vars =>
        SessionsKept' /\ \A c \in Calls : Onward(SessionSeen(c), SessionSeen(c)')
<1> SUFFICES ASSUME IInv, SessionsKept, [Next]_vars, NEW c \in Calls
             PROVE  SessionKept(c)' /\ Onward(SessionSeen(c), SessionSeen(c)')
  BY DEF SessionsKept
<1> QED
  BY StepMaps, SessionNextKeeps DEF SessionsKept

LEMMA SpecSessionsKept == Spec => []SessionsKept
<1>1. Init => SessionsKept
  BY SessionStartsKept DEF SessionsKept
<1>2. IInv /\ SessionsKept /\ [Next]_vars => SessionsKept'
  BY NextKeepsSessions
<1> QED
  BY <1>1, <1>2, CallInvariant, PTL DEF Spec

\* Of every session of the gateway, however serveWS, the audio goroutine, the
\* peer and the kills interleave: its close function is called at most once,
\* closing or failed it is not left with its connection alive, its state agrees
\* with what was asked, and its done channel is closed once.
THEOREM SessionsAreSafe == Spec => [](\A c \in Calls : SessionSafe(c))
<1>1. SessionsKept => \A c \in Calls : SessionSafe(c)
  BY SessionKeptImplies DEF SessionsKept
<1> QED
  BY <1>1, SpecSessionsKept, PTL

\* No step of the gateway revives a session that was terminal, leaves closed, or
\* overwrites what the first source of its close has said.
THEOREM SessionsGoOn ==
    Spec => [][\A c \in Calls : Onward(SessionSeen(c), SessionSeen(c)')]_vars
<1>1. IInv /\ SessionsKept /\ [Next]_vars =>
        [\A c \in Calls : Onward(SessionSeen(c), SessionSeen(c)')]_vars
  BY NextKeepsSessions
<1> QED
  BY <1>1, SpecSessionsKept, CallInvariant, PTL DEF Spec
=============================================================================
