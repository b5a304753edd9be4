------------------------- MODULE SessionCloseProofs -------------------------
(***************************************************************************)
(* Proofs about SessionClose, for any set of goroutines and any texts.     *)
(*                                                                         *)
(* The inductive invariant is that the session is orderly: the flags the   *)
(* code keeps (closeFnCalled, a nil done channel) agree with what they stand *)
(* for, the call of closeFn and the closing of the channel, which happen   *)
(* after the unlock and so are either done or owed by exactly one goroutine. *)
(* That each method keeps it is proved in SessionOpsProofs.                *)
(***************************************************************************)
EXTENDS SessionClose, SessionOpsProofs

-----------------------------------------------------------------------------
\* Every request and every fallback is close information that names a cause.
LEMMA RequestsTyped ==
    ASSUME NEW info \in Fallbacks
    PROVE  info \in CloseInfo /\ info.cause # ""
<1>1. DisconnectInfo \in CloseInfo /\ DisconnectInfo.cause # ""
  BY DEF DisconnectInfo, CloseInfo, Causes
<1>2. KillInfo \in CloseInfo /\ KillInfo.cause # ""
  BY TextsAssumption DEF KillInfo, CloseInfo, Causes
<1>3. ASSUME info \in HangupRequests \cup FailRequests
      PROVE  info \in CloseInfo /\ info.cause # ""
  BY <1>3 DEF HangupRequests, FailRequests, CloseInfo, Causes
<1> QED
  BY <1>1, <1>2, <1>3 DEF Fallbacks, Requests

-----------------------------------------------------------------------------
(* The inductive invariant *)

\* The session is orderly for the goroutines that share it (SessionOpsProofs).
IInv == Orderly(s, Routines, todo, closeFnRuns, doneCloses)

\* The invariant is strong enough for what the runs check.
LEMMA IInvImplies ==
    IInv => TypeOK /\ StateTellsCause /\ CloseFnAtMostOnce /\ NoZombie /\ DoneClosedOnce
<1> SUFFICES ASSUME IInv
             PROVE  TypeOK /\ StateTellsCause /\ CloseFnAtMostOnce /\ NoZombie /\ DoneClosedOnce
  OBVIOUS
<1>1. s \in Session /\ s.closeFnCalled \in BOOLEAN /\ s.done \in BOOLEAN
  BY DEF IInv, Orderly, Session
<1>2. TypeOK /\ StateTellsCause
  BY DEF IInv, Orderly, Works, TellsCause, TypeOK, StateTellsCause
<1>3. CloseFnAtMostOnce
  BY <1>1 DEF IInv, Orderly, CallOwed, OnceBySomeone, CloseFnAtMostOnce
<1>4. NoZombie
  BY <1>1 DEF IInv, Orderly, CallOwed, OnceBySomeone, NoZombie
<1>5. DoneClosedOnce
  BY <1>1 DEF IInv, Orderly, DoneOwed, OnceBySomeone, DoneClosedOnce
<1> QED
  BY <1>2, <1>3, <1>4, <1>5

LEMMA InitIInv == Init => IInv
BY OrderlyNew DEF Init, IInv

\* Every step of a goroutine keeps the invariant, leaves no terminal state and
\* takes nothing from the close information: the method it calls, or the work it
\* owes, does.
LEMMA NextIInv == IInv /\ [Next]_vars => IInv' /\ Onward(s, s')
<1> SUFFICES ASSUME IInv, [Next]_vars PROVE IInv' /\ Onward(s, s')
  OBVIOUS
<1>1. CASE UNCHANGED vars
  BY <1>1, ExtendsItself DEF vars, Onward, IInv
<1>2. ASSUME NEW g \in Routines,
             CallBeginHandshake(g) \/ CallMarkActive(g) \/ CallRecordAnswer(g)
      PROVE  IInv' /\ Onward(s, s')
  BY <1>2, OrderlySetup DEF CallBeginHandshake, CallMarkActive, CallRecordAnswer, IInv
<1>3. ASSUME NEW g \in Routines, CallBindCloseFunc(g)
      PROVE  IInv' /\ Onward(s, s')
  BY <1>3, OrderlyBind DEF CallBindCloseFunc, Unlock, Idle, IInv
<1>4. ASSUME NEW g \in Routines, NEW info \in Requests, CallRequestClose(g, info)
      PROVE  IInv' /\ Onward(s, s')
  <2>1. info \in InfoWithCause
    BY RequestsTyped DEF Fallbacks, InfoWithCause
  <2> QED
    BY <1>4, <2>1, OrderlyRequest DEF CallRequestClose, Unlock, Idle, IInv
<1>5. ASSUME NEW g \in Routines, NEW fallback \in Fallbacks, CallFinalize(g, fallback)
      PROVE  IInv' /\ Onward(s, s')
  <2>1. fallback \in CloseInfo
    BY RequestsTyped
  <2>2. /\ s' = Finalize(s, fallback) /\ todo[g] = "nothing"
        /\ todo' = [todo EXCEPT ![g] = IF s.done THEN "close(done)" ELSE "nothing"]
        /\ UNCHANGED <<closeFnRuns, doneCloses>>
    BY <1>5 DEF CallFinalize, Unlock, Idle
  <2> QED
    BY ZenonT(30), <2>1, <2>2, OrderlyFinalize DEF IInv
<1>6. ASSUME NEW g \in Routines, RunCloseFn(g)
      PROVE  IInv' /\ Onward(s, s')
  BY <1>6, OrderlyRun DEF RunCloseFn, Unlock, IInv
<1>7. ASSUME NEW g \in Routines, CloseDone(g)
      PROVE  IInv' /\ Onward(s, s')
  BY <1>7, OrderlyClose DEF CloseDone, Unlock, IInv
<1> QED
  BY <1>1, <1>2, <1>3, <1>4, <1>5, <1>6, <1>7 DEF Next

-----------------------------------------------------------------------------
(* The theorems *)

LEMMA SpecIInv == Spec => []IInv
<1>1. IInv /\ [Next]_vars => IInv'
  BY NextIInv
<1> QED
  BY InitIInv, <1>1, PTL DEF Spec

\* Every reachable state is well formed.
THEOREM TypeCorrect == Spec => []TypeOK
<1>1. IInv => TypeOK
  BY IInvImplies
<1> QED
  BY SpecIInv, <1>1, PTL

\* However many goroutines close the session, and in whatever order, its
\* close function is called at most once (RequestClose, BindCloseFunc).
THEOREM CloseFnOnce == Spec => []CloseFnAtMostOnce
<1>1. IInv => CloseFnAtMostOnce
  BY IInvImplies
<1> QED
  BY SpecIInv, <1>1, PTL

\* A session that is closing or failed and has a close function bound has had
\* it called, or some goroutine is about to call it: no live connection is
\* left behind a dead session.
THEOREM NoZombies == Spec => []NoZombie
<1>1. IInv => NoZombie
  BY IInvImplies
<1> QED
  BY SpecIInv, <1>1, PTL

\* The state and the close information never disagree.
THEOREM StateMatchesCause == Spec => []StateTellsCause
<1>1. IInv => StateTellsCause
  BY IInvImplies
<1> QED
  BY SpecIInv, <1>1, PTL

\* Finalize may be called any number of times: the done channel is closed by
\* one of them only.
THEOREM DoneOnce == Spec => []DoneClosedOnce
<1>1. IInv => DoneClosedOnce
  BY IInvImplies
<1> QED
  BY SpecIInv, <1>1, PTL

\* Once a session is closing, failed or closed, no call makes it live again.
THEOREM TerminalForGood == Spec => NeverRevived
<1>1. IInv /\ [Next]_vars =>
        [ /\ s.state \in Terminal => s'.state \in Terminal
          /\ s.state = "closed" => s'.state = "closed" ]_vars
  BY NextIInv DEF Onward
<1> QED
  BY SpecIInv, <1>1, PTL DEF Spec, NeverRevived

\* The first source of a close is never overwritten by a later one.
THEOREM FirstCauseWins == Spec => CloseInfoOnlyGrows
<1>1. IInv /\ [Next]_vars => [Extends(s'.closeInfo, s.closeInfo)]_vars
  BY NextIInv DEF Onward
<1> QED
  BY SpecIInv, <1>1, PTL DEF Spec, CloseInfoOnlyGrows

-----------------------------------------------------------------------------
(* The session implements the close contract (its safety part: the contract's *)
(* fairness is left to the model checker).                                    *)

ContractVars == <<phase, s.closeInfo, s.closeFn, closeFnRuns>>

LEMMA PhaseCases ==
    ASSUME s \in Session
    PROVE  /\ s.state \in Live => phase = "live"
           /\ s.state \in {"closing", "failed"} => phase = "closing"
           /\ s.state = "closed" => phase = "closed"
           /\ s.state \in Live \cup {"closing", "failed"} \cup {"closed"}
BY DEF Session, phase, Live, Terminal

LEMMA ContractStep ==
    IInv /\ IInv' /\ [Next]_vars => Contract!Next \/ UNCHANGED ContractVars
<1> SUFFICES ASSUME IInv, IInv', [Next]_vars
             PROVE  Contract!Next \/ UNCHANGED ContractVars
  OBVIOUS
<1>1. s \in Session /\ s' \in Session
  BY DEF IInv, Orderly
<1>2. /\ s.state \in Live => phase = "live"
      /\ s.state \in {"closing", "failed"} => phase = "closing"
      /\ s.state = "closed" => phase = "closed"
      /\ s.state \in Live \cup {"closing", "failed"} \cup {"closed"}
  BY <1>1, PhaseCases
<1>3. /\ s'.state \in Live => phase' = "live"
      /\ s'.state \in {"closing", "failed"} => phase' = "closing"
      /\ s'.state = "closed" => phase' = "closed"
  BY <1>1, PhaseCases DEF phase, Session, Live, Terminal
<1>4. InOrder(s)
  BY DEF IInv, Orderly, TellsCause, InOrder
<1>5. ASSUME s'.state = s.state, s'.closeInfo = s.closeInfo,
             s'.closeFn = s.closeFn, closeFnRuns' = closeFnRuns
      PROVE  UNCHANGED ContractVars
  BY <1>5 DEF ContractVars, phase
<1>6. CASE UNCHANGED vars
  BY <1>5, <1>6 DEF vars
<1>7. ASSUME NEW g \in Routines,
             CallBeginHandshake(g) \/ CallMarkActive(g) \/ CallRecordAnswer(g)
      PROVE  UNCHANGED ContractVars
  <2>1. s' = BeginHandshake(s) \/ s' = MarkActive(s) \/ s' = RecordAnswer(s)
    BY <1>7 DEF CallBeginHandshake, CallMarkActive, CallRecordAnswer
  <2>2. /\ s.state \in Terminal => s'.state = s.state
        /\ s.state \in Live => s'.state \in Live
        /\ s'.closeInfo = s.closeInfo
        /\ s'.closeFn = s.closeFn
    BY <1>1, <2>1, SetupCorrect
  <2>3. phase' = phase
    BY <1>2, <1>3, <2>2 DEF Terminal
  <2>4. closeFnRuns' = closeFnRuns
    BY <1>7 DEF CallBeginHandshake, CallMarkActive, CallRecordAnswer
  <2> QED
    BY <2>2, <2>3, <2>4 DEF ContractVars
<1>8. ASSUME NEW g \in Routines, CallBindCloseFunc(g)
      PROVE  Contract!Next
  <2>1. s'.state = s.state /\ s'.closeInfo = s.closeInfo /\ s'.closeFn = TRUE
    BY <1>1, <1>8, BindCorrect DEF CallBindCloseFunc
  <2>2. phase' = phase
    BY <2>1 DEF phase
  <2>3. ~s.closeFn /\ closeFnRuns' = closeFnRuns
    BY <1>8 DEF CallBindCloseFunc
  <2> QED
    BY <2>1, <2>2, <2>3 DEF Contract!Next, Contract!Bind
<1>9. ASSUME NEW g \in Routines, NEW info \in Requests, CallRequestClose(g, info)
      PROVE  Contract!Next
  <2>1. info \in CloseInfo /\ info.cause # ""
    BY RequestsTyped DEF Fallbacks
  <2>2. RequestPost(s, s')
    BY <1>1, <1>4, <1>9, <2>1, RequestCloseCorrect DEF CallRequestClose
  <2>3. s'.closeInfo \in CloseInfo /\ closeFnRuns' = closeFnRuns
    BY <1>1, <1>9 DEF Session, CallRequestClose
  <2>4. Contract!Amended
    BY <2>2, <2>3 DEF RequestPost, Contract!Amended, Contract!Extends, Extends,
       Contract!CloseInfo, CloseInfo, Contract!Causes, Causes
  <2>5. CASE s.state = "closed"
    BY <1>2, <1>3, <2>2, <2>3, <2>4, <2>5 DEF RequestPost, Contract!Next, Contract!AskLate
  <2>6. CASE s.state # "closed"
    <3>1. phase # "closed" /\ phase' = "closing"
      BY <1>2, <1>3, <2>2, <2>6 DEF RequestPost
    <3> QED
      BY <2>2, <2>3, <2>4, <3>1 DEF RequestPost, Contract!Next, Contract!Ask
  <2> QED
    BY <2>5, <2>6
<1>10. ASSUME NEW g \in Routines, NEW info \in Fallbacks, CallFinalize(g, info)
       PROVE  Contract!Next
  <2>1. info \in CloseInfo
    BY RequestsTyped
  <2>2. /\ s'.closeInfo.cause # ""
        /\ Extends(s'.closeInfo, s.closeInfo)
        /\ s'.state = "closed"
        /\ s'.closeFn = s.closeFn
    BY ZenonT(30), <1>1, <1>4, <1>10, <2>1, FinalizeCorrect DEF CallFinalize
  <2>3. s'.closeInfo \in CloseInfo /\ closeFnRuns' = closeFnRuns
    BY <1>1, <1>10 DEF Session, CallFinalize
  <2>4. Contract!Amended
    BY <2>2, <2>3 DEF Contract!Amended, Contract!Extends, Extends,
       Contract!CloseInfo, CloseInfo, Contract!Causes, Causes
  <2>5. phase' = "closed"
    BY <1>3, <2>2
  <2> QED
    BY <2>2, <2>3, <2>4, <2>5, <1>2
       DEF Contract!Next, Contract!AskLate, Contract!Finish
<1>11. ASSUME NEW g \in Routines, RunCloseFn(g)
       PROVE  Contract!Next
  <2>1. s.closeFn /\ s.closeRequested /\ closeFnRuns = 0
    BY <1>11 DEF IInv, Orderly, CallOwed, OnceBySomeone, RunCloseFn
  <2>2. UNCHANGED s /\ closeFnRuns' = 1
    BY <1>11, <2>1 DEF RunCloseFn
  <2>3. phase # "live" /\ phase' = phase
    <3>1. s.state \notin Live
      BY <2>1 DEF IInv, Orderly, TellsCause, VisibleInList
    <3> QED
      BY <1>2, <2>2, <3>1 DEF phase
  <2> QED
    BY <2>1, <2>2, <2>3 DEF Contract!Next, Contract!Run
<1>12. ASSUME NEW g \in Routines, CloseDone(g)
       PROVE  UNCHANGED ContractVars
  BY <1>5, <1>12 DEF CloseDone
<1> QED
  BY <1>6, <1>7, <1>8, <1>9, <1>10, <1>11, <1>12 DEF Next

\* The session keeps the close contract: its initial state is the contract's,
\* and every step is one of the contract's or changes nothing it speaks of.
THEOREM ImplementsContract ==
    Spec => Contract!Init /\ [][Contract!Next]_ContractVars
<1>1. Init => Contract!Init
  <2>1. Init => s = NewSession /\ closeFnRuns = 0
    BY DEF Init
  <2>2. s = NewSession => phase = "live"
    BY NewSessionTyped, PhaseCases DEF NewSession, Live
  <2>3. s = NewSession => s.closeInfo = NoCloseInfo /\ s.closeFn = FALSE
    BY DEF NewSession
  <2> QED
    BY <2>1, <2>2, <2>3 DEF Contract!Init, Contract!NoCloseInfo, NoCloseInfo
<1>2. IInv /\ IInv' /\ [Next]_vars => [Contract!Next]_ContractVars
  BY ContractStep
<1> QED
  BY <1>1, <1>2, SpecIInv, PTL DEF Spec
=============================================================================
