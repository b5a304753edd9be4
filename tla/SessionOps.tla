----------------------------- MODULE SessionOps -----------------------------
(***************************************************************************)
(* The methods of session.Session (internal/app/session/session.go) as     *)
(* operators from a session record to a session record.  Each one is the   *)
(* part of a method that runs under s.mu, so it is one atomic step of      *)
(* whoever calls it; what a method does after it unlocks (calling closeFn, *)
(* closing the done channel) is a step of the caller's own, in the modules *)
(* that use this one.                                                      *)
(*                                                                         *)
(* A Go string that only has to be told apart from the empty one is a      *)
(* member of Texts.  Timestamps, the offered options, the dump flag, the   *)
(* command log and the TTS track names are left out.                       *)
(***************************************************************************)

CONSTANT Texts      \* the non-blank reasons, initiators and error texts

ASSUME TextsAssumption == "" \notin Texts /\ {"killed", "autohangup", "system"} \subseteq Texts

-----------------------------------------------------------------------------
(* Close information *)

Causes == {"hangup", "kill", "disconnect", "error"}

CloseInfo == [cause: Causes \cup {""}, reason: Texts \cup {""},
              initiator: Texts \cup {""}, err: Texts \cup {""}]

NoCloseInfo == [cause |-> "", reason |-> "", initiator |-> "", err |-> ""]

\* What each source of a close passes to RequestClose or Finalize.
HangupInfo(reason, initiator) ==
    [cause |-> "hangup", reason |-> reason, initiator |-> initiator, err |-> ""]
AutoHangupInfo == HangupInfo("autohangup", "system")
KillInfo       == [cause |-> "kill", reason |-> "killed", initiator |-> "system", err |-> ""]
FailInfo(err)  == [cause |-> "error", reason |-> "", initiator |-> "", err |-> err]
DisconnectInfo == [cause |-> "disconnect", reason |-> "", initiator |-> "", err |-> ""]

OrElse(text, default) == IF text = "" THEN default ELSE text

normalizeCloseInfo(info) == [info EXCEPT !.cause = OrElse(info.cause, "disconnect")]

mergeCloseInfo(primary, fallback) ==
    [cause     |-> OrElse(primary.cause, fallback.cause),
     reason    |-> OrElse(primary.reason, fallback.reason),
     initiator |-> OrElse(primary.initiator, fallback.initiator),
     err       |-> OrElse(primary.err, fallback.err)]

\* b says everything a says: b may only have filled fields a left blank.
Extends(b, a) ==
    /\ a.cause # ""     => b.cause = a.cause
    /\ a.reason # ""    => b.reason = a.reason
    /\ a.initiator # "" => b.initiator = a.initiator
    /\ a.err # ""       => b.err = a.err

-----------------------------------------------------------------------------
(* The session record *)

Live     == {"connected", "handshaking", "active"}
Terminal == {"closing", "closed", "failed"}

\* closeFn: a close function is bound.  done: s.done is not nil.
Session == [state: Live \cup Terminal, answered: BOOLEAN, closeRequested: BOOLEAN,
            closeInfo: CloseInfo, closeFn: BOOLEAN, closeFnCalled: BOOLEAN, done: BOOLEAN]

\* A faulty variant: the state is left at Go's zero value.
NewSessionStateless ==
    [state |-> "", answered |-> FALSE, closeRequested |-> FALSE, closeInfo |-> NoCloseInfo,
     closeFn |-> FALSE, closeFnCalled |-> FALSE, done |-> TRUE]

NewSession == [state |-> "connected", answered |-> FALSE, closeRequested |-> FALSE,
               closeInfo |-> NoCloseInfo, closeFn |-> FALSE, closeFnCalled |-> FALSE,
               done |-> TRUE]

VisibleInList(s) == s.state \in Live

isTerminalLocked(s) == s.state \in Terminal

-----------------------------------------------------------------------------
(* Faulty variants of the methods below, against which the properties are   *)
(* tried: each is a slip that would be easy to make in this code.           *)

MarkActiveUnguarded(s) == [s EXCEPT !.state = "active"]
BeginHandshakeUnguarded(s) == [s EXCEPT !.state = "handshaking"]
RecordAnswerGuarded(s) == IF isTerminalLocked(s) THEN s ELSE [s EXCEPT !.answered = TRUE]
RequestInfoLastWins(s, info) == normalizeCloseInfo(info)
RequestStateReopens(s, info) == IF info.cause = "error" THEN "failed" ELSE "closing"
TakesCloseFnAgain(s) == s.closeFn
BindNeverCalls(s) == FALSE
FinalizeKeepsDone(s, fallback) ==
    [s EXCEPT !.closeRequested = TRUE, !.state = "closed",
              !.closeInfo = IF s.closeRequested
                            THEN mergeCloseInfo(s.closeInfo, normalizeCloseInfo(fallback))
                            ELSE normalizeCloseInfo(fallback)]

-----------------------------------------------------------------------------
(* The methods *)

BeginHandshake(s) == IF isTerminalLocked(s) THEN s ELSE [s EXCEPT !.state = "handshaking"]

MarkActive(s) == IF isTerminalLocked(s) THEN s ELSE [s EXCEPT !.state = "active"]

\* RecordAnswer looks at no state: it may run on a session that is closing.
RecordAnswer(s) == [s EXCEPT !.answered = TRUE]

\* The close information after RequestClose(info): the first request is taken
\* whole, a later one only fills the fields that are still blank.
RequestInfo(s, info) ==
    IF s.closeRequested THEN mergeCloseInfo(s.closeInfo, info) ELSE normalizeCloseInfo(info)

\* The state after a request that leaves the close information info.
RequestState(s, info) ==
    IF s.state = "closed" THEN "closed"
    ELSE IF info.cause = "error" THEN "failed" ELSE "closing"

\* This caller of RequestClose is the one that will call closeFn once unlocked.
TakesCloseFn(s) == s.closeFn /\ ~s.closeFnCalled

RequestClose(s, info) ==
    [s EXCEPT !.closeRequested = TRUE,
              !.closeInfo = RequestInfo(s, info),
              !.state = RequestState(s, RequestInfo(s, info)),
              !.closeFnCalled = @ \/ s.closeFn]

\* BindCloseFunc finds a close already requested, and calls the function itself.
BindCallsNow(s) == s.closeRequested /\ ~s.closeFnCalled

BindCloseFunc(s) == [s EXCEPT !.closeFn = TRUE, !.closeFnCalled = @ \/ s.closeRequested]

\* Finalize never calls closeFn.  It takes the done channel to close it unlocked.
Finalize(s, fallback) ==
    [s EXCEPT !.closeRequested = TRUE,
              !.closeInfo = IF s.closeRequested
                            THEN mergeCloseInfo(s.closeInfo, normalizeCloseInfo(fallback))
                            ELSE normalizeCloseInfo(fallback),
              !.state = "closed",
              !.done = FALSE]
=============================================================================
