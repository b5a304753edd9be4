---------------------------- MODULE SessionClose ----------------------------
(***************************************************************************)
(* One session.Session shared by goroutines that call its methods in any   *)
(* order.  The part of a method under s.mu is one step; what it does after *)
(* unlocking, calling closeFn or closing the done channel, is a later step *)
(* of the same goroutine, and the others run in between.                   *)
(***************************************************************************)
EXTENDS Naturals, SessionOps

CONSTANT Routines       \* the goroutines that hold a pointer to the session

VARIABLES
    s,              \* the session record, guarded by s.mu
    todo,           \* todo[g]: what goroutine g has still to do, unlocked
    closeFnRuns,    \* how many times closeFn has been called
    doneCloses      \* how many times the done channel has been closed

vars == <<s, todo, closeFnRuns, doneCloses>>

\* The requests the code makes: hangup commands (autohangup is one of them,
\* worded by the router), the kill interface, and Fail.
HangupRequests == [cause: {"hangup"}, reason: Texts \cup {""}, initiator: Texts \cup {""},
                   err: {""}]
FailRequests   == [cause: {"error"}, reason: {""}, initiator: {""}, err: Texts]
Requests       == {KillInfo} \cup HangupRequests \cup FailRequests

\* serveWS passes Finalize its own idea of the close: the peer just went away,
\* or the last thing it asked for itself.
Fallbacks == {DisconnectInfo} \cup Requests

TypeOK ==
    /\ s \in Session
    /\ todo \in [Routines -> {"nothing", "closeFn", "close(done)"}]
    /\ closeFnRuns \in Nat
    /\ doneCloses \in Nat

Init ==
    /\ s = NewSession
    /\ todo = [g \in Routines |-> "nothing"]
    /\ closeFnRuns = 0
    /\ doneCloses = 0

-----------------------------------------------------------------------------
(* The methods, up to the unlock *)

Idle(g) == todo[g] = "nothing"

\* The goroutine leaves the lock with work still to do when owes holds.
Unlock(g, owes, work) == todo' = [todo EXCEPT ![g] = IF owes THEN work ELSE "nothing"]

CallBeginHandshake(g) ==
    Idle(g) /\ s' = BeginHandshake(s) /\ UNCHANGED <<todo, closeFnRuns, doneCloses>>

CallMarkActive(g) ==
    Idle(g) /\ s' = MarkActive(s) /\ UNCHANGED <<todo, closeFnRuns, doneCloses>>

CallRecordAnswer(g) ==
    Idle(g) /\ s' = RecordAnswer(s) /\ UNCHANGED <<todo, closeFnRuns, doneCloses>>

\* serveWS binds the one close function a session ever has.
CallBindCloseFunc(g) ==
    /\ Idle(g)
    /\ ~s.closeFn
    /\ s' = BindCloseFunc(s)
    /\ Unlock(g, BindCallsNow(s), "closeFn")
    /\ UNCHANGED <<closeFnRuns, doneCloses>>

CallRequestClose(g, info) ==
    /\ Idle(g)
    /\ s' = RequestClose(s, info)
    /\ Unlock(g, TakesCloseFn(s), "closeFn")
    /\ UNCHANGED <<closeFnRuns, doneCloses>>

CallFinalize(g, fallback) ==
    /\ Idle(g)
    /\ s' = Finalize(s, fallback)
    /\ Unlock(g, s.done, "close(done)")
    /\ UNCHANGED <<closeFnRuns, doneCloses>>

-----------------------------------------------------------------------------
(* The methods, after the unlock *)

RunCloseFn(g) ==
    /\ todo[g] = "closeFn"
    /\ closeFnRuns' = closeFnRuns + 1
    /\ Unlock(g, FALSE, "nothing")
    /\ UNCHANGED <<s, doneCloses>>

CloseDone(g) ==
    /\ todo[g] = "close(done)"
    /\ doneCloses' = doneCloses + 1
    /\ Unlock(g, FALSE, "nothing")
    /\ UNCHANGED <<s, closeFnRuns>>

Next ==
    \E g \in Routines :
        \/ CallBeginHandshake(g)
        \/ CallMarkActive(g)
        \/ CallRecordAnswer(g)
        \/ CallBindCloseFunc(g)
        \/ \E info \in Requests : CallRequestClose(g, info)
        \/ \E fallback \in Fallbacks : CallFinalize(g, fallback)
        \/ RunCloseFn(g)
        \/ CloseDone(g)

\* A goroutine that has unlocked is running code that nothing blocks.
Fairness == \A g \in Routines : WF_vars(RunCloseFn(g)) /\ WF_vars(CloseDone(g))

Spec == Init /\ [][Next]_vars /\ Fairness

-----------------------------------------------------------------------------
(* Properties *)

\* closeFn runs at most once, and nobody is about to run it a second time,
\* however requests, the binding and Finalize interleave (closeFnCalled).
CloseFnAtMostOnce ==
    /\ closeFnRuns <= 1
    /\ \A g, h \in Routines : todo[g] = "closeFn" /\ todo[h] = "closeFn" => g = h
    /\ closeFnRuns = 1 => \A g \in Routines : todo[g] # "closeFn"

\* No session is left closing or failed with its connection alive: if a close
\* function is bound, it has run or some goroutine is about to run it
\* (the case BindCloseFunc's comment is about, session.go:192-193).
NoZombie ==
    s.closeFn /\ s.state \in {"closing", "failed"} =>
        closeFnRuns = 1 \/ \E g \in Routines : todo[g] = "closeFn"

\* The state always agrees with what was asked: live exactly until the first
\* close, failed exactly when the cause that won is an error, and a cause is
\* always named.
StateTellsCause ==
    /\ VisibleInList(s) <=> ~s.closeRequested
    /\ ~s.closeRequested => s.closeInfo = NoCloseInfo
    /\ s.closeRequested => s.closeInfo.cause # ""
    /\ s.state = "failed" => s.closeInfo.cause = "error"
    /\ s.state = "closing" => s.closeInfo.cause # "error"

\* The done channel is closed once: closing it twice would panic.  It is
\* closed, or about to be, exactly when the session is closed.
DoneClosedOnce ==
    /\ doneCloses <= 1
    /\ \A g, h \in Routines : todo[g] = "close(done)" /\ todo[h] = "close(done)" => g = h
    /\ doneCloses = 1 => \A g \in Routines : todo[g] # "close(done)"
    /\ s.state = "closed" =>
           doneCloses = 1 \/ \E g \in Routines : todo[g] = "close(done)"

\* No late call revives a session: a terminal state is left only for another
\* terminal state, and closed is never left (a kill racing MarkActive).
NeverRevived ==
    [][ /\ s.state \in Terminal => s'.state \in Terminal
        /\ s.state = "closed" => s'.state = "closed" ]_vars

\* The first source of a close keeps its say: no request, and no Finalize,
\* overwrites a field that an earlier one has filled.
CloseInfoOnlyGrows == [][Extends(s'.closeInfo, s.closeInfo)]_vars

-----------------------------------------------------------------------------
(* The session keeps the close contract *)

phase ==
    CASE s.state \in Live -> "live"
      [] s.state \in {"closing", "failed"} -> "closing"
      [] s.state = "closed" -> "closed"

Contract == INSTANCE CloseContract
    WITH info <- s.closeInfo, bound <- s.closeFn, runs <- closeFnRuns

\* The session's methods keep the contract: every step of any goroutine is a
\* step of the contract or changes nothing the contract speaks of.
KeepsContract == Contract!Spec
=============================================================================
