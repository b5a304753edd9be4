-------------------------- MODULE SessionOpsProofs --------------------------
(***************************************************************************)
(* What the methods of a session do to it, as lemmas about the operators   *)
(* of SessionOps, and what they keep true of a session and the goroutines  *)
(* that share it (Orderly): used for one session (SessionCloseProofs) and  *)
(* for those of all the calls of a gateway (CallHandlerProofs).            *)
(***************************************************************************)
EXTENDS Naturals, SessionOps, TLAPS

-----------------------------------------------------------------------------
(* The operators on close information and on the session record *)

\* normalizeCloseInfo names a cause and loses nothing.
LEMMA NormalizeCorrect ==
    ASSUME NEW info \in CloseInfo
    PROVE  /\ normalizeCloseInfo(info) \in CloseInfo
           /\ normalizeCloseInfo(info).cause # ""
           /\ Extends(normalizeCloseInfo(info), info)
BY DEF CloseInfo, Causes, normalizeCloseInfo, OrElse, Extends

\* mergeCloseInfo keeps every field of its first argument that is not blank,
\* and names a cause if either argument does.
LEMMA MergeCorrect ==
    ASSUME NEW a \in CloseInfo, NEW b \in CloseInfo
    PROVE  /\ mergeCloseInfo(a, b) \in CloseInfo
           /\ Extends(mergeCloseInfo(a, b), a)
           /\ a.cause # "" => mergeCloseInfo(a, b).cause = a.cause
           /\ b.cause # "" => mergeCloseInfo(a, b).cause # ""
BY DEF CloseInfo, Causes, mergeCloseInfo, OrElse, Extends

\* Anything extends blank information.
LEMMA ExtendsBlank ==
    ASSUME NEW info PROVE Extends(info, NoCloseInfo)
BY DEF Extends, NoCloseInfo

LEMMA NewSessionTyped == NewSession \in Session
BY DEF NewSession, Session, Live, Terminal, NoCloseInfo, CloseInfo

\* A session's close information names a cause once a close was requested,
\* and is blank before.
InOrder(t) == IF t.closeRequested THEN t.closeInfo.cause # "" ELSE t.closeInfo = NoCloseInfo

\* What RequestClose makes of a session t: u.
RequestPost(t, u) ==
    /\ u \in Session
    /\ u.closeRequested = TRUE
    /\ u.closeInfo.cause # ""
    /\ Extends(u.closeInfo, t.closeInfo)
    /\ u.state = IF t.state = "closed" THEN "closed"
                 ELSE IF u.closeInfo.cause = "error" THEN "failed" ELSE "closing"
    /\ u.closeFn = t.closeFn
    /\ u.closeFnCalled <=> (t.closeFnCalled \/ t.closeFn)
    /\ u.done = t.done

LEMMA RequestCloseCorrect ==
    ASSUME NEW t \in Session, NEW info \in CloseInfo, info.cause # "", InOrder(t)
    PROVE  RequestPost(t, RequestClose(t, info))
<1> DEFINE ri == RequestInfo(t, info)
<1>1. t.closeInfo \in CloseInfo
  BY DEF Session
<1>2. ri \in CloseInfo /\ ri.cause # "" /\ Extends(ri, t.closeInfo)
  <2>1. CASE t.closeRequested
    BY <1>1, <2>1, MergeCorrect DEF RequestInfo, InOrder
  <2>2. CASE ~t.closeRequested
    <3>1. ri = normalizeCloseInfo(info)
      BY <2>2 DEF RequestInfo
    <3>2. ri \in CloseInfo /\ ri.cause # ""
      BY <3>1, NormalizeCorrect
    <3>3. Extends(ri, t.closeInfo)
      BY <2>2, ExtendsBlank DEF InOrder
    <3> QED
      BY <3>2, <3>3
  <2> QED
    BY <2>1, <2>2
<1>3. RequestState(t, ri) \in Live \cup Terminal
  BY DEF RequestState, Live, Terminal
<1> HIDE DEF ri
<1>4. RequestClose(t, info) =
        [t EXCEPT !.closeRequested = TRUE, !.closeInfo = ri,
                  !.state = RequestState(t, ri),
                  !.closeFnCalled = t.closeFnCalled \/ t.closeFn]
  BY DEF RequestClose, ri
<1> QED
  BY <1>2, <1>3, <1>4 DEF Session, RequestState, RequestPost

\* What Finalize does to a session that is in order.
LEMMA FinalizeCorrect ==
    ASSUME NEW t \in Session, NEW info \in CloseInfo,
           InOrder(t),
           NEW u, u = Finalize(t, info)
    PROVE  /\ u \in Session
           /\ u.closeRequested = TRUE
           /\ u.closeInfo.cause # ""
           /\ Extends(u.closeInfo, t.closeInfo)
           /\ u.state = "closed"
           /\ u.closeFn = t.closeFn
           /\ u.closeFnCalled = t.closeFnCalled
           /\ u.done = FALSE
<1> DEFINE n  == normalizeCloseInfo(info)
           fi == IF t.closeRequested THEN mergeCloseInfo(t.closeInfo, n) ELSE n
<1>1. t.closeInfo \in CloseInfo
  BY DEF Session
<1>2. n \in CloseInfo /\ n.cause # ""
  BY NormalizeCorrect
<1> HIDE DEF n
<1>3. fi \in CloseInfo /\ fi.cause # "" /\ Extends(fi, t.closeInfo)
  <2>1. CASE t.closeRequested
    BY <1>1, <1>2, <2>1, MergeCorrect DEF InOrder
  <2>2. CASE ~t.closeRequested
    BY <1>2, <2>2, ExtendsBlank DEF InOrder
  <2> QED
    BY <2>1, <2>2
<1>4. Finalize(t, info) = [t EXCEPT !.closeRequested = TRUE, !.closeInfo = fi,
                                    !.state = "closed", !.done = FALSE]
  BY DEF Finalize, n
<1> HIDE DEF fi
<1> QED
  BY <1>3, <1>4 DEF Session, Terminal

\* The methods that move a live session on leave a terminal one alone, and
\* touch nothing of the close machinery.
LEMMA SetupCorrect ==
    ASSUME NEW t \in Session, NEW u,
           u = BeginHandshake(t) \/ u = MarkActive(t) \/ u = RecordAnswer(t)
    PROVE  /\ u \in Session
           /\ t.state \in Terminal => u.state = t.state
           /\ t.state \in Live => u.state \in Live
           /\ u.closeRequested = t.closeRequested
           /\ u.closeInfo = t.closeInfo
           /\ u.closeFn = t.closeFn
           /\ u.closeFnCalled = t.closeFnCalled
           /\ u.done = t.done
<1>1. CASE u = BeginHandshake(t)
  BY <1>1 DEF BeginHandshake, isTerminalLocked, Session, Live, Terminal
<1>2. CASE u = MarkActive(t)
  BY <1>2 DEF MarkActive, isTerminalLocked, Session, Live, Terminal
<1>3. CASE u = RecordAnswer(t)
  BY <1>3 DEF RecordAnswer, Session, Live, Terminal
<1> QED
  BY <1>1, <1>2, <1>3

LEMMA BindCorrect ==
    ASSUME NEW t \in Session,
           NEW u, u = BindCloseFunc(t)
    PROVE  /\ u \in Session
           /\ u.state = t.state
           /\ u.closeRequested = t.closeRequested
           /\ u.closeInfo = t.closeInfo
           /\ u.closeFn = TRUE
           /\ u.closeFnCalled <=> (t.closeFnCalled \/ t.closeRequested)
           /\ u.done = t.done
BY DEF BindCloseFunc, Session

\* Growing close information is a partial order.
LEMMA ExtendsItself ==
    ASSUME NEW info PROVE Extends(info, info)
BY DEF Extends

\* A request, and Finalize, fill the fields that are blank, of a session that
\* is already closing and of one that is not, and leave the answer alone.
LEMMA FillsBlanks ==
    ASSUME NEW t \in Session, NEW info \in CloseInfo, info.cause # "", InOrder(t),
           NEW u, u = RequestClose(t, info) \/ u = Finalize(t, info)
    PROVE  /\ u.closeInfo.cause = OrElse(t.closeInfo.cause, info.cause)
           /\ u.closeInfo.reason = OrElse(t.closeInfo.reason, info.reason)
           /\ u.closeInfo.initiator = OrElse(t.closeInfo.initiator, info.initiator)
           /\ u.closeInfo.err = OrElse(t.closeInfo.err, info.err)
           /\ u.answered = t.answered
<1>1. normalizeCloseInfo(info) = info
  BY DEF normalizeCloseInfo, OrElse, CloseInfo
<1>2. /\ u.closeInfo = IF t.closeRequested THEN mergeCloseInfo(t.closeInfo, info) ELSE info
      /\ u.answered = t.answered
  <2>1. CASE u = RequestClose(t, info)
    BY <1>1, <2>1 DEF RequestClose, RequestInfo, Session
  <2>2. CASE u = Finalize(t, info)
    BY <1>1, <2>2 DEF Finalize, Session
  <2> QED
    BY <2>1, <2>2
<1> DEFINE v == u.closeInfo
           w == t.closeInfo
<1>3. v = IF t.closeRequested THEN mergeCloseInfo(w, info) ELSE info
  BY <1>2
<1>4. t.closeRequested \/ w = NoCloseInfo
  BY DEF InOrder
<1> HIDE DEF v, w
<1>5. /\ v.cause = OrElse(w.cause, info.cause)
      /\ v.reason = OrElse(w.reason, info.reason)
      /\ v.initiator = OrElse(w.initiator, info.initiator)
      /\ v.err = OrElse(w.err, info.err)
  <2>1. CASE t.closeRequested
    <3>1. v = mergeCloseInfo(w, info)
      BY <1>3, <2>1
    <3> QED
      BY <3>1 DEF mergeCloseInfo
  <2>2. CASE ~t.closeRequested
    <3>1. v = info
      BY <1>3, <2>2
    <3>2. w = NoCloseInfo
      BY <1>4, <2>2
    <3>3. w.cause = "" /\ w.reason = "" /\ w.initiator = "" /\ w.err = ""
      BY <3>2 DEF NoCloseInfo
    <3> QED
      BY <3>1, <3>3 DEF OrElse
  <2> QED
    BY <2>1, <2>2
<1> QED
  BY <1>2, <1>5 DEF v, w

-----------------------------------------------------------------------------
(* A session and the goroutines U that hold a pointer to it.  What each has *)
(* still to do after an unlock is todo[g]; runs and closes are how often    *)
(* closeFn has been called and the done channel closed.                     *)
(*                                                                          *)
(* The session is orderly when the flags the code keeps (closeFnCalled, a   *)
(* nil done channel) agree with what they stand for: the call and the       *)
(* closing happen after the unlock, and so are either done or owed by       *)
(* exactly one goroutine.                                                   *)

Works == {"nothing", "closeFn", "close(done)"}

\* The state agrees with what was asked of the session.
TellsCause(t) ==
    /\ VisibleInList(t) <=> ~t.closeRequested
    /\ ~t.closeRequested => t.closeInfo = NoCloseInfo
    /\ t.closeRequested => t.closeInfo.cause # ""
    /\ t.state = "failed" => t.closeInfo.cause = "error"
    /\ t.state = "closing" => t.closeInfo.cause # "error"

\* A work is done once and owed by nobody, or owed by exactly one goroutine.
OnceBySomeone(U, todo, work, times) ==
    \/ times = 1 /\ \A g \in U : todo[g] # work
    \/ times = 0 /\ \E g \in U : \A h \in U : todo[h] = work <=> h = g

\* closeFnCalled stands for a call made or owed by exactly one goroutine.
CallOwed(t, U, todo, runs) ==
    /\ t.closeFnCalled => t.closeFn /\ t.closeRequested
    /\ t.closeFn /\ t.state \in {"closing", "failed"} => t.closeFnCalled
    /\ ~t.closeFnCalled => runs = 0 /\ \A g \in U : todo[g] # "closeFn"
    /\ t.closeFnCalled => OnceBySomeone(U, todo, "closeFn", runs)

\* A nil done channel stands for a channel closed, or owed by one goroutine.
DoneOwed(t, U, todo, closes) ==
    /\ t.done <=> t.state # "closed"
    /\ t.done => closes = 0 /\ \A g \in U : todo[g] # "close(done)"
    /\ ~t.done => OnceBySomeone(U, todo, "close(done)", closes)

Orderly(t, U, todo, runs, closes) ==
    /\ t \in Session /\ todo \in [U -> Works] /\ runs \in Nat /\ closes \in Nat
    /\ TellsCause(t) /\ CallOwed(t, U, todo, runs) /\ DoneOwed(t, U, todo, closes)

\* What no step undoes: a terminal state, and the close information.
Onward(t, u) ==
    /\ t.state \in Terminal => u.state \in Terminal
    /\ t.state = "closed" => u.state = "closed"
    /\ Extends(u.closeInfo, t.closeInfo)

\* A session that nobody has used yet.
LEMMA OrderlyNew ==
    ASSUME NEW U
    PROVE  Orderly(NewSession, U, [g \in U |-> "nothing"], 0, 0)
<1>1. TellsCause(NewSession)
  BY DEF TellsCause, NewSession, VisibleInList, Live
<1> QED
  BY <1>1, NewSessionTyped DEF Orderly, CallOwed, DoneOwed, Works, NewSession

\* The debts that a step leaves alone stay in order.
LEMMA OnceStays ==
    ASSUME NEW U, NEW todo, NEW todo2, NEW work, NEW times,
           OnceBySomeone(U, todo, work, times),
           \A h \in U : todo2[h] = work <=> todo[h] = work
    PROVE  OnceBySomeone(U, todo2, work, times)
BY DEF OnceBySomeone

\* BeginHandshake, MarkActive and RecordAnswer.
LEMMA OrderlySetup ==
    ASSUME NEW t, NEW U, NEW todo, NEW runs, NEW closes, Orderly(t, U, todo, runs, closes),
           NEW u, u = BeginHandshake(t) \/ u = MarkActive(t) \/ u = RecordAnswer(t)
    PROVE  Orderly(u, U, todo, runs, closes) /\ Onward(t, u)
<1>1. t \in Session
  BY DEF Orderly
<1>2. /\ u \in Session
      /\ t.state \in Terminal => u.state = t.state
      /\ t.state \in Live => u.state \in Live
      /\ u.closeRequested = t.closeRequested
      /\ u.closeInfo = t.closeInfo
      /\ u.closeFn = t.closeFn
      /\ u.closeFnCalled = t.closeFnCalled
      /\ u.done = t.done
  BY <1>1, SetupCorrect
<1>3. t.state \in Live \cup Terminal
  BY <1>1 DEF Session
<1>4. TellsCause(u)
  BY <1>2, <1>3 DEF Orderly, TellsCause, VisibleInList, Live, Terminal
<1>5. CallOwed(u, U, todo, runs)
  BY <1>2, <1>3 DEF Orderly, CallOwed, Live, Terminal
<1>6. DoneOwed(u, U, todo, closes)
  BY <1>2, <1>3 DEF Orderly, DoneOwed, Live, Terminal
<1>7. Onward(t, u)
  BY <1>2, ExtendsItself DEF Onward, Terminal
<1> QED
  BY <1>2, <1>4, <1>5, <1>6, <1>7 DEF Orderly

\* BindCloseFunc, of a session that has no close function yet.
LEMMA OrderlyBind ==
    ASSUME NEW t, NEW U, NEW todo, NEW runs, NEW closes, Orderly(t, U, todo, runs, closes),
           ~t.closeFn, NEW g \in U, todo[g] = "nothing",
           NEW todo2, todo2 = [todo EXCEPT ![g] = IF BindCallsNow(t) THEN "closeFn"
                                                  ELSE "nothing"],
           NEW u, u = BindCloseFunc(t)
    PROVE  Orderly(u, U, todo2, runs, closes) /\ Onward(t, u)
<1>1. /\ t \in Session /\ todo \in [U -> Works] /\ t.closeRequested \in BOOLEAN
      /\ ~t.closeFnCalled /\ runs = 0 /\ \A h \in U : todo[h] # "closeFn"
  BY DEF Orderly, CallOwed, Session
<1>2. /\ u \in Session
      /\ u.state = t.state
      /\ u.closeRequested = t.closeRequested
      /\ u.closeInfo = t.closeInfo
      /\ u.closeFn = TRUE
      /\ u.closeFnCalled <=> (t.closeFnCalled \/ t.closeRequested)
      /\ u.done = t.done
  BY <1>1, BindCorrect
<1>3. todo2 = [todo EXCEPT ![g] = IF t.closeRequested THEN "closeFn" ELSE "nothing"]
  BY <1>1 DEF BindCallsNow
<1>4. /\ todo2 \in [U -> Works]
      /\ \A h \in U : todo2[h] = "close(done)" <=> todo[h] = "close(done)"
      /\ ~t.closeRequested => \A h \in U : todo2[h] = todo[h]
      /\ t.closeRequested => OnceBySomeone(U, todo2, "closeFn", 0)
  <2>1. \A h \in U : todo2[h] = IF h = g /\ t.closeRequested THEN "closeFn" ELSE todo[h]
    BY <1>1, <1>3
  <2>2. todo2 \in [U -> Works]
    BY <1>1, <1>3 DEF Works
  <2>3. t.closeRequested => \A h \in U : todo2[h] = "closeFn" <=> h = g
    BY <1>1, <2>1
  <2>4. t.closeRequested => OnceBySomeone(U, todo2, "closeFn", 0)
    BY <2>3 DEF OnceBySomeone
  <2> QED
    BY <2>1, <2>2, <2>4
<1>5. TellsCause(u)
  BY <1>1, <1>2 DEF Orderly, TellsCause, VisibleInList, Session, Live, NoCloseInfo
<1>6. ~t.closeRequested => t.state \in Live
  BY DEF Orderly, TellsCause, VisibleInList
<1>7. CallOwed(u, U, todo2, runs)
  BY <1>1, <1>2, <1>4, <1>6 DEF CallOwed, Live
<1>8. DoneOwed(u, U, todo2, closes)
  BY <1>2, <1>4, OnceStays DEF Orderly, DoneOwed
<1>9. Onward(t, u)
  BY <1>2, ExtendsItself DEF Onward
<1> QED
  BY <1>2, <1>4, <1>5, <1>7, <1>8, <1>9 DEF Orderly

\* Close information that names a cause.
InfoWithCause == {info \in CloseInfo : info.cause # ""}

\* RequestClose, with close information that names a cause.
LEMMA OrderlyRequest ==
    ASSUME NEW t, NEW U, NEW todo, NEW runs, NEW closes, Orderly(t, U, todo, runs, closes),
           NEW info \in InfoWithCause, NEW g \in U, todo[g] = "nothing",
           NEW todo2, todo2 = [todo EXCEPT ![g] = IF TakesCloseFn(t) THEN "closeFn"
                                                  ELSE "nothing"],
           NEW u, u = RequestClose(t, info)
    PROVE  Orderly(u, U, todo2, runs, closes) /\ Onward(t, u)
<1>1. /\ t \in Session /\ todo \in [U -> Works]
      /\ TakesCloseFn(t) \in BOOLEAN
      /\ info \in CloseInfo /\ info.cause # ""
  BY DEF Orderly, TakesCloseFn, InfoWithCause
<1>2. InOrder(t)
  BY DEF Orderly, TellsCause, InOrder
<1>3. RequestPost(t, u)
  BY <1>1, <1>2, RequestCloseCorrect
<1>4. /\ todo2 \in [U -> Works]
      /\ \A h \in U : todo2[h] = "close(done)" <=> todo[h] = "close(done)"
      /\ ~TakesCloseFn(t) => \A h \in U : todo2[h] = todo[h]
      /\ TakesCloseFn(t) /\ (\A h \in U : todo[h] # "closeFn") =>
             OnceBySomeone(U, todo2, "closeFn", 0)
  <2>1. \A h \in U : todo2[h] = IF h = g /\ TakesCloseFn(t) THEN "closeFn" ELSE todo[h]
    BY <1>1
  <2>2. todo2 \in [U -> Works]
    BY <1>1 DEF Works
  <2>3. TakesCloseFn(t) /\ (\A h \in U : todo[h] # "closeFn") =>
            \A h \in U : todo2[h] = "closeFn" <=> h = g
    BY <2>1
  <2>4. (\A h \in U : todo2[h] = "closeFn" <=> h = g) => OnceBySomeone(U, todo2, "closeFn", 0)
    BY DEF OnceBySomeone
  <2> QED
    BY <2>1, <2>2, <2>3, <2>4
<1>5. TellsCause(u)
  BY <1>3 DEF TellsCause, VisibleInList, Live, RequestPost
<1>6. CallOwed(u, U, todo2, runs)
  <2>1. CASE TakesCloseFn(t)
    <3>1. runs = 0 /\ \A h \in U : todo[h] # "closeFn"
      BY <2>1 DEF Orderly, CallOwed, TakesCloseFn
    <3> QED
      BY <1>3, <1>4, <2>1, <3>1 DEF CallOwed, RequestPost, TakesCloseFn
  <2>2. CASE ~TakesCloseFn(t)
    <3>1. u.closeFnCalled <=> t.closeFnCalled
      BY <1>3, <2>2 DEF RequestPost, TakesCloseFn
    <3>2. u.closeFnCalled => OnceBySomeone(U, todo2, "closeFn", runs)
      BY <1>4, <2>2, <3>1, OnceStays DEF Orderly, CallOwed
    <3> QED
      BY <1>3, <1>4, <2>2, <3>1, <3>2 DEF Orderly, CallOwed, RequestPost, TakesCloseFn
  <2> QED
    BY <2>1, <2>2
<1>7. DoneOwed(u, U, todo2, closes)
  BY <1>3, <1>4, OnceStays DEF Orderly, DoneOwed, RequestPost
<1>8. Onward(t, u)
  BY <1>3 DEF Onward, Terminal, RequestPost
<1> QED
  BY <1>3, <1>4, <1>5, <1>6, <1>7, <1>8 DEF Orderly, RequestPost

\* Finalize, which takes the done channel to close it if it is there.
LEMMA OrderlyFinalize ==
    ASSUME NEW t, NEW U, NEW todo, NEW runs, NEW closes, Orderly(t, U, todo, runs, closes),
           NEW info \in CloseInfo, NEW g \in U, todo[g] = "nothing",
           NEW todo2, todo2 = [todo EXCEPT ![g] = IF t.done THEN "close(done)" ELSE "nothing"],
           NEW u, u = Finalize(t, info)
    PROVE  Orderly(u, U, todo2, runs, closes) /\ Onward(t, u)
<1>1. t \in Session /\ todo \in [U -> Works] /\ t.done \in BOOLEAN
  BY DEF Orderly, Session
<1>2. InOrder(t)
  BY DEF Orderly, TellsCause, InOrder
<1>3. /\ u \in Session
      /\ u.closeRequested = TRUE
      /\ u.closeInfo.cause # ""
      /\ Extends(u.closeInfo, t.closeInfo)
      /\ u.state = "closed"
      /\ u.closeFn = t.closeFn
      /\ u.closeFnCalled = t.closeFnCalled
      /\ u.done = FALSE
  BY ZenonT(30), <1>1, <1>2, FinalizeCorrect
<1>4. /\ todo2 \in [U -> Works]
      /\ \A h \in U : todo2[h] = "closeFn" <=> todo[h] = "closeFn"
      /\ ~t.done => \A h \in U : todo2[h] = todo[h]
      /\ t.done /\ (\A h \in U : todo[h] # "close(done)") =>
             OnceBySomeone(U, todo2, "close(done)", 0)
  <2>1. \A h \in U : todo2[h] = IF h = g /\ t.done THEN "close(done)" ELSE todo[h]
    BY <1>1
  <2>2. todo2 \in [U -> Works]
    BY <1>1 DEF Works
  <2>3. t.done /\ (\A h \in U : todo[h] # "close(done)") =>
            \A h \in U : todo2[h] = "close(done)" <=> h = g
    BY <2>1
  <2>4. (\A h \in U : todo2[h] = "close(done)" <=> h = g) =>
            OnceBySomeone(U, todo2, "close(done)", 0)
    BY DEF OnceBySomeone
  <2> QED
    BY <2>1, <2>2, <2>3, <2>4
<1>5. TellsCause(u)
  BY <1>3 DEF TellsCause, VisibleInList, Live
<1>6. CallOwed(u, U, todo2, runs)
  BY <1>3, <1>4, OnceStays DEF Orderly, CallOwed
<1>7. DoneOwed(u, U, todo2, closes)
  BY <1>3, <1>4, OnceStays DEF Orderly, DoneOwed
<1>8. Onward(t, u)
  BY <1>3 DEF Onward, Terminal
<1> QED
  BY <1>3, <1>4, <1>5, <1>6, <1>7, <1>8 DEF Orderly

\* The call of closeFn, after the unlock.
LEMMA OrderlyRun ==
    ASSUME NEW t, NEW U, NEW todo, NEW runs, NEW closes, Orderly(t, U, todo, runs, closes),
           NEW g \in U, todo[g] = "closeFn",
           NEW todo2, todo2 = [todo EXCEPT ![g] = "nothing"]
    PROVE  Orderly(t, U, todo2, runs + 1, closes) /\ Onward(t, t)
<1>1. /\ todo \in [U -> Works] /\ t.closeFnCalled /\ runs \in Nat
      /\ OnceBySomeone(U, todo, "closeFn", runs)
  BY DEF Orderly, CallOwed
<1>2. /\ todo2 \in [U -> Works]
      /\ \A h \in U : todo2[h] = "close(done)" <=> todo[h] = "close(done)"
      /\ OnceBySomeone(U, todo2, "closeFn", runs + 1)
  <2>1. \A h \in U : todo2[h] = IF h = g THEN "nothing" ELSE todo[h]
    BY <1>1
  <2>2. todo2 \in [U -> Works]
    BY <1>1 DEF Works
  <2>3. runs = 0 /\ \A h \in U : todo[h] = "closeFn" => h = g
    BY <1>1 DEF OnceBySomeone
  <2>4. \A h \in U : todo2[h] # "closeFn"
    BY <2>1, <2>3
  <2>5. OnceBySomeone(U, todo2, "closeFn", runs + 1)
    BY <2>3, <2>4 DEF OnceBySomeone
  <2> QED
    BY <2>1, <2>2, <2>5
<1>3. CallOwed(t, U, todo2, runs + 1)
  BY <1>1, <1>2 DEF Orderly, CallOwed
<1>4. DoneOwed(t, U, todo2, closes)
  BY <1>2, OnceStays DEF Orderly, DoneOwed
<1>5. Onward(t, t)
  BY ExtendsItself DEF Onward
<1> QED
  BY <1>1, <1>2, <1>3, <1>4, <1>5 DEF Orderly

\* The closing of the done channel, after the unlock.
LEMMA OrderlyClose ==
    ASSUME NEW t, NEW U, NEW todo, NEW runs, NEW closes, Orderly(t, U, todo, runs, closes),
           NEW g \in U, todo[g] = "close(done)",
           NEW todo2, todo2 = [todo EXCEPT ![g] = "nothing"]
    PROVE  Orderly(t, U, todo2, runs, closes + 1) /\ Onward(t, t)
<1>1. /\ todo \in [U -> Works] /\ ~t.done /\ closes \in Nat
      /\ OnceBySomeone(U, todo, "close(done)", closes)
  BY DEF Orderly, DoneOwed
<1>2. /\ todo2 \in [U -> Works]
      /\ \A h \in U : todo2[h] = "closeFn" <=> todo[h] = "closeFn"
      /\ OnceBySomeone(U, todo2, "close(done)", closes + 1)
  <2>1. \A h \in U : todo2[h] = IF h = g THEN "nothing" ELSE todo[h]
    BY <1>1
  <2>2. todo2 \in [U -> Works]
    BY <1>1 DEF Works
  <2>3. closes = 0 /\ \A h \in U : todo[h] = "close(done)" => h = g
    BY <1>1 DEF OnceBySomeone
  <2>4. \A h \in U : todo2[h] # "close(done)"
    BY <2>1, <2>3
  <2>5. OnceBySomeone(U, todo2, "close(done)", closes + 1)
    BY <2>3, <2>4 DEF OnceBySomeone
  <2> QED
    BY <2>1, <2>2, <2>5
<1>3. CallOwed(t, U, todo2, runs)
  BY <1>2, OnceStays DEF Orderly, CallOwed
<1>4. DoneOwed(t, U, todo2, closes + 1)
  BY <1>1, <1>2 DEF Orderly, DoneOwed
<1>5. Onward(t, t)
  BY ExtendsItself DEF Onward
<1> QED
  BY <1>1, <1>2, <1>3, <1>4, <1>5 DEF Orderly
=============================================================================
