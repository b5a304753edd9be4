-------------------------- MODULE TtsPlaybackProofs --------------------------
(***************************************************************************)
(* Proofs about TtsPlayback, for any number of commands, texts of any        *)
(* length and buffers of any size.                                           *)
(*                                                                           *)
(* The inductive invariant follows the chunks: those the loop took and those *)
(* still buffered are the ones delivered, in order, for as long as nothing   *)
(* went wrong and the loop has not closed the stream; and a stream that was  *)
(* closed by its waiter without an error was completed by the service.        *)
(***************************************************************************)
EXTENDS TtsPlayback, SequenceTheorems, TLAPS

-----------------------------------------------------------------------------
(* The inductive invariant *)

\* Where the loop is: commands are served one at a time.
LoopPlaced ==
    /\ loop.pc = "negotiate" => track.stage < Stages
    /\ loop.pc \in {"start", "recv", "write", "verdict", "close", "reply"} => loop.n \in Commands
    /\ loop.pc \in {"negotiate", "ready", "hangup", "ended"} => current = 0

\* Nothing of a command exists before it is served.
Fresh(n) ==
    /\ stream[n].kind = "none" /\ stream[n].buf = <<>>
    /\ ~stream[n].err /\ ~stream[n].done /\ stream[n].closer = "none"
    /\ sdk[n].pc = "none" /\ sdk[n].made = 0 /\ sdk[n].ready = "none"
    /\ waiter[n] = "none" /\ played[n] = <<>> /\ verdict[n] = "none"

InOrder(n) ==
    /\ n > loop.n \/ (n = loop.n /\ loop.pc = "start") => Fresh(n)
    /\ n = loop.n /\ loop.pc \in {"recv", "write", "verdict"} =>
           verdict[n] = "none" /\ stream[n].kind # "none" /\ stream[n].closer # "loop"
    /\ n = loop.n /\ loop.pc = "verdict" =>
           stream[n].done /\ (~stream[n].err => stream[n].buf = <<>>)

\* Only a synthesis of the cloud has goroutines and a Close; the one who closes is either the
\* waiter, who has a verdict of his own, or the loop; a stream is done when Close ends.
StreamKept(n) ==
    /\ stream[n].kind # "cloud" =>
           waiter[n] = "none" /\ sdk[n].pc = "none" /\ stream[n].closer = "none" /\ ~stream[n].err
    /\ stream[n].kind = "mock" => stream[n].done
    /\ stream[n].kind = "cloud" /\ stream[n].done => stream[n].closer # "none"
    /\ stream[n].closer = "waiter" => waiter[n] \in {"close", "gone"}
    /\ stream[n].kind = "cloud" /\ ~stream[n].err /\ waiter[n] \in {"close", "gone"} =>
           sdk[n].ready = "true"
    /\ sdk[n].ready = "true" => sdk[n].pc = "over"
    /\ sdk[n].pc = "pushing" => sdk[n].made > 0

\* The chunks that were put into the buffer.
Delivered(n) ==
    IF stream[n].kind = "mock" THEN 1
    ELSE IF sdk[n].pc = "pushing" THEN sdk[n].made - 1 ELSE sdk[n].made

\* Of d chunks, taken and buffered, none is lost and none overtakes another.
Continues(taken, buf, d) ==
    /\ Len(taken) + Len(buf) = d
    /\ \A i \in 1..Len(taken) : taken[i] = i
    /\ \A i \in 1..Len(buf) : buf[i] = Len(taken) + i

Numbered(n) == Continues(played[n], stream[n].buf, Delivered(n))

TextKept(n) ==
    /\ stream[n].kind # "none" /\ ~stream[n].err /\ stream[n].closer # "loop" => Numbered(n)
    /\ verdict[n] = "completed" =>
           /\ stream[n].kind # "none" /\ ~stream[n].err /\ stream[n].done
           /\ stream[n].closer # "loop" /\ stream[n].buf = <<>>

CommandKept(n) == InOrder(n) /\ StreamKept(n) /\ TextKept(n)

IInv == TypeOK /\ LoopPlaced /\ \A n \in Commands : CommandKept(n)

\* A chunk that is buffered, and one that is taken.
LEMMA ChunkBuffered ==
    ASSUME NEW taken \in Seq(Nat), NEW buf \in Seq(Nat), NEW d \in Nat,
           Continues(taken, buf, d - 1)
    PROVE  Continues(taken, Append(buf, d), d)
<1> DEFINE b == Append(buf, d)
<1>1. /\ Len(b) = Len(buf) + 1 /\ b[Len(buf) + 1] = d
      /\ \A i \in 1..Len(buf) : b[i] = buf[i]
      /\ Len(buf) \in Nat /\ Len(taken) \in Nat
  BY AppendProperties
<1> HIDE DEF b
<1>2. Len(taken) + Len(b) = d
  <2>1. ASSUME NEW x \in Nat, NEW y \in Nat, x + y = d - 1 PROVE x + (y + 1) = d
    BY <2>1
  <2>2. Len(taken) + Len(buf) = d - 1
    BY DEF Continues
  <2>3. Len(taken) + (Len(buf) + 1) = d
    BY <1>1, <2>1, <2>2
  <2> QED
    BY <1>1, <2>3
<1>3. ASSUME NEW i \in 1..Len(b) PROVE b[i] = Len(taken) + i
  <2>1. CASE i \in 1..Len(buf)
    BY <1>1, <2>1 DEF Continues
  <2>2. CASE i = Len(buf) + 1
    BY <1>1, <1>2, <2>2
  <2> QED
    BY <1>1, <2>1, <2>2
<1> QED
  BY <1>2, <1>3 DEF Continues, b

LEMMA ChunkTaken ==
    ASSUME NEW taken \in Seq(Nat), NEW buf \in Seq(Nat), NEW d \in Nat, buf # <<>>,
           Continues(taken, buf, d)
    PROVE  Continues(Append(taken, Head(buf)), Tail(buf), d)
<1> DEFINE t == Append(taken, Head(buf))
           b == Tail(buf)
<1>1. /\ Len(buf) \in Nat /\ Len(taken) \in Nat /\ Len(buf) > 0 /\ Head(buf) = buf[1]
      /\ Len(b) = Len(buf) - 1 /\ \A i \in 1..Len(b) : b[i] = buf[i + 1]
  BY HeadTailProperties, EmptySeq
<1>2. Head(buf) = Len(taken) + 1 /\ Head(buf) \in Nat
  BY <1>1 DEF Continues
<1>3. /\ Len(t) = Len(taken) + 1 /\ t[Len(taken) + 1] = Head(buf)
      /\ \A i \in 1..Len(taken) : t[i] = taken[i]
  BY <1>2, AppendProperties
<1> HIDE DEF t, b
<1>4. Len(t) + Len(b) = d
  <2>1. ASSUME NEW x \in Nat, NEW y \in Nat, x + y = d PROVE (x + 1) + (y - 1) = d
    BY <2>1
  <2>2. Len(taken) + Len(buf) = d
    BY DEF Continues
  <2>3. (Len(taken) + 1) + (Len(buf) - 1) = d
    BY <1>1, <2>1, <2>2
  <2> QED
    BY <1>1, <1>3, <2>3
<1>5. ASSUME NEW i \in 1..Len(t) PROVE t[i] = i
  <2>1. CASE i \in 1..Len(taken)
    BY <1>1, <1>3, <2>1 DEF Continues
  <2>2. CASE i = Len(taken) + 1
    BY <1>2, <1>3, <2>2
  <2> QED
    BY <1>1, <1>3, <2>1, <2>2
<1>6. ASSUME NEW i \in 1..Len(b) PROVE b[i] = Len(t) + i
  BY <1>1, <1>3 DEF Continues
<1> QED
  BY <1>4, <1>5, <1>6 DEF Continues, t, b

\* The invariant is strong enough for what the run checks.
LEMMA IInvImplies == IInv => TypeOK /\ SuccessIsComplete
<1> SUFFICES ASSUME IInv PROVE SuccessIsComplete
  BY DEF IInv
<1>1. ASSUME NEW n \in Commands, verdict[n] = "completed"
      PROVE  IF stream[n].kind = "mock" THEN played[n] = <<1>>
             ELSE /\ sdk[n].ready = "true"
                  /\ played[n] = [i \in 1..sdk[n].made |-> i]
  <2>1. /\ stream[n].kind \in {"mock", "cloud"} /\ stream[n].buf = <<>>
        /\ played[n] \in Seq(Nat) /\ stream[n].buf \in Seq(Nat)
        /\ stream[n].closer \in {"none", "waiter"}
        /\ ~stream[n].err /\ stream[n].done
    BY <1>1 DEF IInv, TypeOK, CommandKept, TextKept
  <2>2. Numbered(n) /\ Len(stream[n].buf) = 0
    BY <2>1 DEF IInv, CommandKept, TextKept
  <2>3. CASE stream[n].kind = "mock"
    <3>1. Len(played[n]) = 1 /\ played[n][1] = 1
      BY <2>1, <2>2, <2>3 DEF Numbered, Continues, Delivered
    <3> QED
      BY <2>1, <2>3, <3>1
  <2>4. CASE stream[n].kind = "cloud"
    <3>1. sdk[n].ready = "true" /\ sdk[n].pc = "over"
      BY <2>1, <2>4 DEF IInv, CommandKept, StreamKept
    <3>2. Len(played[n]) = sdk[n].made /\ \A i \in 1..Len(played[n]) : played[n][i] = i
      BY <2>1, <2>2, <2>4, <3>1 DEF Numbered, Continues, Delivered
    <3> QED
      BY SMTT(30), <2>1, <2>4, <3>1, <3>2
  <2> QED
    BY <2>1, <2>3, <2>4
<1> QED
  BY <1>1 DEF SuccessIsComplete

LEMMA InitIInv == Init => IInv
<1> SUFFICES ASSUME Init PROVE IInv
  OBVIOUS
<1>1. TypeOK
  BY PlaybackAssumption DEF Init, TypeOK, Stages
<1>2. LoopPlaced
  BY DEF Init, LoopPlaced, Stages
<1>3. \A n \in Commands : CommandKept(n)
  BY DEF Init, CommandKept, InOrder, Fresh, StreamKept, TextKept
<1> QED
  BY <1>1, <1>2, <1>3 DEF IInv

-----------------------------------------------------------------------------
(* One command at a time *)

StreamType == [kind : {"none", "mock", "cloud"}, buf : Seq(Nat), err : BOOLEAN, done : BOOLEAN,
               closer : {"none", "loop", "waiter"}, client : {"none", "running", "shutdown"}]
SdkType == [pc : {"none", "running", "pushing", "failed", "over"}, made : Nat,
            ready : {"none", "true", "false"}]

\* What a step does not touch.
Untouched(d) ==
    /\ stream'[d] = stream[d] /\ sdk'[d] = sdk[d] /\ waiter'[d] = waiter[d]
    /\ played'[d] = played[d] /\ verdict'[d] = verdict[d]

\* A step that works on one command, and leaves the loop alone or serves that command, keeps
\* the invariant if it keeps it for that command.
LEMMA OneCommand ==
    ASSUME IInv, NEW n \in Commands, TypeOK', LoopPlaced',
           \A d \in Commands \ {n} : Untouched(d),
           loop' = loop \/ (loop'.n = n /\ loop.n \in {n - 1, n}),
           CommandKept(n)'
    PROVE  IInv'
<1>1. ASSUME NEW d \in Commands \ {n} PROVE CommandKept(d)'
  <2>1. Untouched(d) /\ CommandKept(d) /\ d \in Commands /\ d # n
    BY DEF IInv
  <2>2. InOrder(d)'
    <3>1. CASE loop' = loop
      BY <2>1, <3>1 DEF Untouched, CommandKept, InOrder, Fresh
    <3>2. CASE loop'.n = n /\ loop.n \in {n - 1, n}
      <4>1. d # loop'.n /\ (d > loop'.n => d > loop.n)
        BY <2>1, <3>2 DEF Commands
      <4> QED
        BY <2>1, <4>1 DEF Untouched, CommandKept, InOrder, Fresh
    <3> QED
      BY <3>1, <3>2
  <2>3. StreamKept(d)'
    BY <2>1 DEF Untouched, CommandKept, StreamKept
  <2>4. TextKept(d)'
    <3>1. Delivered(d)' = Delivered(d)
      BY <2>1 DEF Untouched, Delivered
    <3>2. Numbered(d)' <=> Numbered(d)
      BY <2>1, <3>1 DEF Untouched, Numbered
    <3> QED
      BY <2>1, <3>2 DEF Untouched, CommandKept, TextKept
  <2> QED
    BY <2>2, <2>3, <2>4 DEF CommandKept
<1> QED
  BY <1>1 DEF IInv

\* A step of the loop alone.
LEMMA LoopAlone ==
    ASSUME IInv, TypeOK', LoopPlaced', UNCHANGED <<stream, sdk, waiter, played, verdict>>,
           loop'.n = loop.n,
           loop'.pc \notin {"start", "recv", "write", "verdict"}
    PROVE  IInv'
<1>1. ASSUME NEW d \in Commands PROVE CommandKept(d)'
  <2>1. CommandKept(d)
    BY DEF IInv
  <2>2. InOrder(d)'
    BY <2>1 DEF CommandKept, InOrder, Fresh
  <2>3. StreamKept(d)'
    BY <2>1 DEF CommandKept, StreamKept
  <2>4. TextKept(d)'
    BY <2>1 DEF CommandKept, TextKept, Numbered, Delivered
  <2> QED
    BY <2>2, <2>3, <2>4 DEF CommandKept
<1> QED
  BY <1>1 DEF IInv

LEMMA Typed ==
    ASSUME IInv, NEW n \in Commands
    PROVE  /\ stream[n] \in StreamType /\ sdk[n] \in SdkType
           /\ played[n] \in Seq(Nat) /\ Len(stream[n].buf) \in 0..Capacity
           /\ n \in DOMAIN stream /\ n \in DOMAIN sdk /\ n \in DOMAIN waiter
           /\ n \in DOMAIN played /\ n \in DOMAIN verdict
<1>1. stream[n] \in StreamType /\ sdk[n] \in SdkType /\ played[n] \in Seq(Nat)
  BY DEF IInv, TypeOK, StreamType, SdkType
<1>2. Len(stream[n].buf) \in 0..Capacity
  BY <1>1, PlaybackAssumption DEF IInv, TypeOK, StreamType
<1>3. /\ n \in DOMAIN stream /\ n \in DOMAIN sdk /\ n \in DOMAIN waiter
      /\ n \in DOMAIN played /\ n \in DOMAIN verdict
  BY DEF IInv, TypeOK
<1> QED
  BY <1>1, <1>2, <1>3

\* A stream that is replaced by one of its type.
LEMMA StreamWritten ==
    ASSUME IInv, NEW n \in Commands, NEW u \in StreamType, Len(u.buf) <= Capacity,
           stream' = [stream EXCEPT ![n] = u]
    PROVE  /\ stream' \in [Commands -> StreamType]
           /\ \A d \in Commands : Len(stream'[d].buf) <= Capacity
           /\ stream'[n] = u
           /\ \A d \in Commands \ {n} : stream'[d] = stream[d]
<1>1. stream \in [Commands -> StreamType] /\ \A d \in Commands : Len(stream[d].buf) <= Capacity
  BY DEF IInv, TypeOK, StreamType
<1>2. stream' \in [Commands -> StreamType] /\ stream'[n] = u
  BY <1>1
<1>3. \A d \in Commands \ {n} : stream'[d] = stream[d]
  BY <1>1
<1> QED
  BY <1>1, <1>2, <1>3

\* The same for the service's side.
LEMMA SdkWritten ==
    ASSUME IInv, NEW n \in Commands, NEW v \in SdkType, sdk' = [sdk EXCEPT ![n] = v]
    PROVE  /\ sdk' \in [Commands -> SdkType] /\ sdk'[n] = v
           /\ \A d \in Commands \ {n} : sdk'[d] = sdk[d]
BY DEF IInv, TypeOK, SdkType

\* A step that leaves the loop, the track and the session's current track alone.
LEMMA GoroutineStep ==
    ASSUME IInv, NEW n \in Commands, UNCHANGED <<track, loop, current, played, verdict>>,
           \/ stream' = stream
           \/ \E u \in StreamType : Len(u.buf) <= Capacity /\ stream' = [stream EXCEPT ![n] = u],
           \/ sdk' = sdk
           \/ \E v \in SdkType : sdk' = [sdk EXCEPT ![n] = v],
           \/ waiter' = waiter
           \/ \E w \in {"close", "gone"} : waiter' = [waiter EXCEPT ![n] = w],
           CommandKept(n)'
    PROVE  IInv'
<1>1. /\ stream' \in [Commands -> StreamType]
      /\ \A d \in Commands : Len(stream'[d].buf) <= Capacity
      /\ \A d \in Commands \ {n} : stream'[d] = stream[d]
  <2>1. CASE stream' = stream
    BY <2>1 DEF IInv, TypeOK, StreamType
  <2>2. CASE \E u \in StreamType : Len(u.buf) <= Capacity /\ stream' = [stream EXCEPT ![n] = u]
    BY <2>2, StreamWritten
  <2> QED
    BY <2>1, <2>2
<1>2. sdk' \in [Commands -> SdkType] /\ \A d \in Commands \ {n} : sdk'[d] = sdk[d]
  <2>1. CASE sdk' = sdk
    BY <2>1 DEF IInv, TypeOK, SdkType
  <2>2. CASE \E v \in SdkType : sdk' = [sdk EXCEPT ![n] = v]
    BY <2>2, SdkWritten
  <2> QED
    BY <2>1, <2>2
<1>3. /\ waiter' \in [Commands -> {"none", "waiting", "close", "gone"}]
      /\ \A d \in Commands \ {n} : waiter'[d] = waiter[d]
  <2>1. CASE waiter' = waiter
    BY <2>1 DEF IInv, TypeOK
  <2>2. CASE \E w \in {"close", "gone"} : waiter' = [waiter EXCEPT ![n] = w]
    BY <2>2 DEF IInv, TypeOK
  <2> QED
    BY <2>1, <2>2
<1>4. TypeOK'
  BY <1>1, <1>2, <1>3 DEF IInv, TypeOK, StreamType, SdkType
<1>5. LoopPlaced'
  BY DEF IInv, LoopPlaced
<1>6. \A d \in Commands \ {n} : Untouched(d)
  BY <1>1, <1>2, <1>3 DEF Untouched
<1> QED
  BY <1>4, <1>5, <1>6, OneCommand

-----------------------------------------------------------------------------
(* Negotiation, the end of the call, play and interrupt *)

LEMMA NegotiatedStep == ASSUME IInv, Negotiated PROVE IInv'
<1> DEFINE t == [stage |-> track.stage + 1,
                 peer  |-> IF track.stage + 1 >= PeerStage THEN "open" ELSE "none"]
<1>1. track.stage \in 0..(Stages - 1)
  BY DEF IInv, TypeOK, LoopPlaced, Negotiated, Stages
<1>2. track' = t /\ t \in [stage : 0..Stages, peer : {"none", "open", "closed"}]
      /\ t.stage = track.stage + 1
  BY <1>1 DEF Negotiated, Stages
<1> HIDE DEF t
<1>3. TypeOK'
  BY <1>2 DEF Negotiated, IInv, TypeOK
<1>4. LoopPlaced'
  BY <1>1, <1>2 DEF Negotiated, IInv, TypeOK, LoopPlaced, Stages
<1> QED
  BY <1>3, <1>4, LoopAlone DEF Negotiated, IInv, TypeOK

LEMMA EndStep == ASSUME IInv, NegotiationFails \/ EndCall PROVE IInv'
<1>1. TypeOK'
  BY ZenonT(30) DEF NegotiationFails, EndCall, IInv, TypeOK
<1>2. LoopPlaced'
  BY DEF NegotiationFails, EndCall, IInv, TypeOK, LoopPlaced
<1> QED
  BY SMTT(30), <1>1, <1>2, LoopAlone DEF NegotiationFails, EndCall, IInv, TypeOK

LEMMA PlayStep == ASSUME IInv, Play \/ Interrupt PROVE IInv'
<1>1. TypeOK'
  BY DEF Play, Interrupt, Goto, IInv, TypeOK
<1>2. LoopPlaced'
  BY DEF Play, Interrupt, Goto, IInv, TypeOK, LoopPlaced
<1> QED
  BY <1>1, <1>2, LoopAlone DEF Play, Interrupt, Goto, IInv, TypeOK

LEMMA ReplyStep == ASSUME IInv, Reply PROVE IInv'
<1>1. TypeOK'
  BY DEF Reply, Goto, IInv, TypeOK
<1>2. LoopPlaced'
  BY DEF Reply, Goto, IInv, TypeOK, LoopPlaced
<1> QED
  BY <1>1, <1>2, LoopAlone DEF Reply, Goto, IInv, TypeOK

-----------------------------------------------------------------------------
(* The start of a command *)

LEMMA ServeStep == ASSUME IInv, Serve PROVE IInv'
<1> SUFFICES ASSUME NEW n \in Commands, n = loop.n + 1 PROVE IInv'
  BY DEF Serve
<1>1. loop.n \in Nat /\ loop.n = n - 1 /\ n > loop.n
  <2>1. loop.n \in Commands \cup {0}
    BY DEF IInv, TypeOK
  <2>2. loop.n \in Nat
    BY <2>1 DEF Commands
  <2> QED
    BY <2>2
<1>2. loop' = [pc |-> "start", n |-> n] /\ current' = n
      /\ UNCHANGED <<track, stream, sdk, waiter, played, verdict>>
  BY DEF Serve
<1>3. TypeOK'
  BY <1>1, <1>2 DEF IInv, TypeOK
<1>4. LoopPlaced'
  BY <1>1, <1>2 DEF LoopPlaced
<1>5. CommandKept(n) /\ Fresh(n)
  BY <1>1 DEF IInv, CommandKept, InOrder
<1>6. loop'.n = n /\ loop'.pc = "start"
  BY <1>2
<1>7. CommandKept(n)'
  <2>1. Fresh(n)'
    BY <1>2, <1>5 DEF Fresh
  <2> QED
    BY <2>1, <1>6 DEF CommandKept, InOrder, Fresh, StreamKept, TextKept
<1> QED
  BY <1>1, <1>2, <1>3, <1>4, <1>6, <1>7, OneCommand DEF Untouched

\* The one chunk of the mock.
LEMMA OneChunk == <<1>> \in Seq(Nat) /\ Len(<<1>>) = 1 /\ <<1>>[1] = 1 /\ <<1>> # <<>>
OBVIOUS

LEMMA StartMockStep == ASSUME IInv, StartMock PROVE IInv'
<1> SUFFICES ASSUME NEW n \in Commands, n = loop.n PROVE IInv'
  BY DEF StartMock, Goto, IInv, LoopPlaced
<1> DEFINE r == [stream[n] EXCEPT !.kind = "mock"]
           t == [r EXCEPT !.buf = <<1>>]
           u == [t EXCEPT !.done = TRUE]
<1>1. loop.pc = "start" /\ loop' = [loop EXCEPT !.pc = "recv"]
  BY DEF StartMock, Goto
<1>2. CommandKept(n) /\ Fresh(n)
  BY <1>1 DEF IInv, CommandKept, InOrder
<1>3. stream' = [stream EXCEPT ![n] = u] /\ UNCHANGED <<track, current, sdk, waiter, played, verdict>>
  BY DEF StartMock
<1>4. r \in StreamType /\ r.kind = "mock" /\ ~r.err /\ r.closer = "none"
  BY <1>1, <1>2, Typed DEF StreamType, Fresh
<1> HIDE DEF r
<1>5. t \in StreamType /\ t.kind = "mock" /\ ~t.err /\ t.closer = "none"
      /\ Len(t.buf) = 1 /\ t.buf[1] = 1
  BY <1>4, OneChunk DEF StreamType
<1> HIDE DEF t
<1>6. /\ u \in StreamType /\ u.kind = "mock" /\ ~u.err /\ u.closer = "none"
      /\ Len(u.buf) = 1 /\ u.buf[1] = 1 /\ u.done
  BY <1>5 DEF StreamType
<1> HIDE DEF u
<1>7. /\ stream'[n] = u /\ \A d \in Commands \ {n} : stream'[d] = stream[d]
      /\ DOMAIN stream' = Commands
      /\ loop'.n = n /\ loop'.pc = "recv"
  BY <1>1, <1>3, Typed DEF IInv, TypeOK
<1>8. TypeOK'
  <2>1. stream' \in [Commands -> StreamType]
    BY <1>1, <1>3, <1>6 DEF IInv, TypeOK, StreamType
  <2>2. \A d \in Commands : Len(stream'[d].buf) <= Capacity
    <3>1. Len(u.buf) <= Capacity
      BY <1>6, PlaybackAssumption
    <3> QED
      BY <3>1, <1>7 DEF IInv, TypeOK
  <2>3. loop' \in [pc : {"negotiate", "ready", "start", "recv", "write", "verdict", "close",
                        "reply", "hangup", "ended"}, n : Commands \cup {0}]
    BY <1>1 DEF IInv, TypeOK
  <2> QED
    BY <1>3, <2>1, <2>2, <2>3 DEF IInv, TypeOK, StreamType
<1>9. LoopPlaced'
  BY <1>1, <1>7 DEF LoopPlaced
<1>10. CommandKept(n)'
  <2>1. InOrder(n)'
    BY <1>2, <1>3, <1>6, <1>7 DEF InOrder, Fresh, Commands
  <2>2. StreamKept(n)'
    BY <1>2, <1>3, <1>6, <1>7 DEF StreamKept, Fresh
  <2>3. Numbered(n)'
    <3>1. played'[n] = <<>> /\ Len(played'[n]) = 0
      BY <1>2, <1>3 DEF Fresh
    <3> QED
      BY <3>1, <1>6, <1>7 DEF Numbered, Continues, Delivered
  <2> QED
    BY <1>2, <1>3, <2>1, <2>2, <2>3 DEF CommandKept, TextKept, Fresh
<1> QED
  BY <1>1, <1>3, <1>7, <1>8, <1>9, <1>10, OneCommand DEF Untouched

-----------------------------------------------------------------------------
(* waitCompletion *)

LEMMA WaitFailsStep == ASSUME IInv, NEW n \in Commands, WaitFails(n) PROVE IInv'
<1> DEFINE u == [stream[n] EXCEPT !.err = TRUE]
<1>1. CommandKept(n) /\ waiter[n] = "waiting"
  BY DEF IInv, WaitFails
<1>2. /\ u \in StreamType /\ Len(u.buf) <= Capacity /\ u.err
      /\ u.kind = stream[n].kind /\ u.buf = stream[n].buf /\ u.done = stream[n].done
      /\ u.closer = stream[n].closer
  <2>1. stream[n] \in StreamType /\ Len(stream[n].buf) <= Capacity
    BY Typed, PlaybackAssumption
  <2> QED
    BY <2>1 DEF StreamType
<1>3. stream' = [stream EXCEPT ![n] = u] /\ waiter' = [waiter EXCEPT ![n] = "close"]
      /\ UNCHANGED <<track, loop, current, sdk, played, verdict>>
  BY DEF WaitFails
<1> HIDE DEF u
<1>4. stream'[n] = u /\ waiter'[n] = "close"
  BY <1>3, Typed
<1>5. verdict[n] # "completed" /\ stream[n].kind = "cloud" /\ ~Fresh(n)
  BY <1>1, Typed DEF CommandKept, StreamKept, TextKept, Fresh, StreamType
<1>6. CommandKept(n)'
  <2>1. InOrder(n)'
    BY <1>1, <1>2, <1>3, <1>4, <1>5 DEF CommandKept, InOrder, Fresh
  <2>2. StreamKept(n)'
    BY <1>1, <1>2, <1>3, <1>4, <1>5 DEF CommandKept, StreamKept
  <2>3. TextKept(n)'
    BY <1>2, <1>3, <1>4, <1>5 DEF TextKept
  <2> QED
    BY <2>1, <2>2, <2>3 DEF CommandKept
<1> QED
  BY <1>2, <1>3, <1>6, GoroutineStep

LEMMA WaitSucceedsStep == ASSUME IInv, NEW n \in Commands, WaitSucceeds(n) PROVE IInv'
<1>1. CommandKept(n) /\ waiter[n] = "waiting" /\ sdk[n].ready = "true"
  BY DEF IInv, WaitSucceeds
<1>2. waiter' = [waiter EXCEPT ![n] = "close"] /\ waiter'[n] = "close"
      /\ UNCHANGED <<track, loop, current, stream, sdk, played, verdict>>
  BY Typed DEF WaitSucceeds
<1>3. stream[n].kind = "cloud" /\ ~Fresh(n)
  BY <1>1, Typed DEF CommandKept, StreamKept, Fresh, StreamType
<1>4. CommandKept(n)'
  <2>1. InOrder(n)'
    BY <1>1, <1>2, <1>3 DEF CommandKept, InOrder, Fresh
  <2>2. StreamKept(n)'
    BY <1>1, <1>2, <1>3 DEF CommandKept, StreamKept
  <2>3. TextKept(n)'
    BY <1>1, <1>2 DEF CommandKept, TextKept, Numbered, Delivered
  <2> QED
    BY <2>1, <2>2, <2>3 DEF CommandKept
<1> QED
  BY <1>2, <1>4, GoroutineStep

-----------------------------------------------------------------------------
(* Close *)

\* The two steps of Close that change the stream, of the loop or of the waiter. The loop closes
\* no stream that its waiter closed before: its own Close waits for the other's end.
LEMMA CloseStep ==
    ASSUME IInv, NEW n \in Commands, NEW who \in {"loop", "waiter"},
           CloseBegins(n, who) \/ CloseEnds(n, who),
           stream[n].kind = "cloud",
           who = "loop" => n = loop.n /\ loop.pc = "close",
           who = "waiter" => waiter[n] = "close",
           UNCHANGED <<track, loop, current, sdk, waiter, played, verdict>>
    PROVE  IInv'
<1>1. CommandKept(n)
  BY DEF IInv
<1>2. CASE CloseBegins(n, who)
  <2> DEFINE r == [stream[n] EXCEPT !.closer = who]
             u == [r EXCEPT !.client = IF @ = "running" THEN "shutdown" ELSE @]
  <2>1. stream[n].closer = "none" /\ stream' = [stream EXCEPT ![n] = u]
    BY <1>2 DEF CloseBegins
  <2>2. /\ r \in StreamType /\ r.err = stream[n].err /\ r.closer = who
        /\ r.kind = stream[n].kind /\ r.buf = stream[n].buf /\ r.done = stream[n].done
    BY Typed DEF StreamType
  <2> HIDE DEF r
  <2>3. /\ u \in StreamType /\ u.err = stream[n].err /\ u.closer = who
        /\ u.kind = stream[n].kind /\ u.buf = stream[n].buf /\ u.done = stream[n].done
    BY <2>2 DEF StreamType
  <2> HIDE DEF u
  <2>4. stream'[n] = u /\ Len(u.buf) <= Capacity
    BY <2>1, <2>3, Typed, PlaybackAssumption
  <2>5. verdict[n] # "completed" /\ ~Fresh(n)
    BY <1>1, <2>1, Typed DEF CommandKept, StreamKept, TextKept, Fresh, StreamType
  <2>6. InOrder(n)'
    BY <1>1, <2>3, <2>4, <2>5 DEF CommandKept, InOrder, Fresh
  <2>7. StreamKept(n)'
    BY <1>1, <2>1, <2>3, <2>4 DEF CommandKept, StreamKept
  <2>8. TextKept(n)'
    BY <1>1, <2>1, <2>3, <2>4, <2>5 DEF CommandKept, TextKept, Numbered, Delivered
  <2> QED
    BY <2>1, <2>3, <2>4, <2>6, <2>7, <2>8, GoroutineStep DEF CommandKept
<1>3. CASE CloseEnds(n, who)
  <2> DEFINE u == [stream[n] EXCEPT !.done = TRUE]
  <2>1. stream[n].closer = who /\ ~stream[n].done /\ stream' = [stream EXCEPT ![n] = u]
    BY <1>3 DEF CloseEnds
  <2>2. /\ u \in StreamType /\ u.err = stream[n].err /\ u.closer = who /\ u.done
        /\ u.kind = stream[n].kind /\ u.buf = stream[n].buf
    BY <2>1, Typed DEF StreamType
  <2> HIDE DEF u
  <2>3. stream'[n] = u /\ Len(u.buf) <= Capacity
    BY <2>1, <2>2, Typed, PlaybackAssumption
  <2>4. verdict[n] # "completed" /\ ~Fresh(n)
    BY <1>1, <2>1 DEF CommandKept, TextKept, Fresh
  <2>5. InOrder(n)'
    BY <1>1, <2>1, <2>2, <2>3, <2>4 DEF CommandKept, InOrder, Fresh
  <2>6. StreamKept(n)'
    BY <1>1, <2>1, <2>2, <2>3 DEF CommandKept, StreamKept
  <2>7. TextKept(n)'
    <3>1. Delivered(n)' = Delivered(n)
      BY <2>2, <2>3 DEF Delivered
    <3>2. Numbered(n)' <=> Numbered(n)
      BY <2>2, <2>3, <3>1 DEF Numbered
    <3> QED
      BY <1>1, <2>1, <2>2, <2>3, <2>4, <3>2 DEF CommandKept, TextKept
  <2> QED
    BY <2>1, <2>2, <2>3, <2>5, <2>6, <2>7, GoroutineStep DEF CommandKept
<1> QED
  BY <1>2, <1>3

LEMMA WaiterClosesStep == ASSUME IInv, NEW n \in Commands, WaiterCloses(n) PROVE IInv'
<1>1. CommandKept(n) /\ waiter[n] = "close"
  BY DEF IInv, WaiterCloses
<1>2. stream[n].kind = "cloud" /\ ~Fresh(n)
  BY <1>1, Typed DEF CommandKept, StreamKept, Fresh, StreamType
<1>3. CASE (CloseBegins(n, "waiter") \/ CloseEnds(n, "waiter")) /\ UNCHANGED waiter
  BY <1>1, <1>2, <1>3, CloseStep DEF WaiterCloses
<1>4. CASE stream[n].done /\ UNCHANGED stream /\ waiter' = [waiter EXCEPT ![n] = "gone"]
  <2>1. waiter'[n] = "gone" /\ UNCHANGED <<track, loop, current, stream, sdk, played, verdict>>
    BY <1>4, Typed DEF WaiterCloses
  <2>2. InOrder(n)'
    BY <1>1, <1>2, <2>1 DEF CommandKept, InOrder, Fresh
  <2>3. StreamKept(n)'
    BY <1>1, <1>2, <2>1 DEF CommandKept, StreamKept
  <2>4. TextKept(n)'
    BY <1>1, <2>1 DEF CommandKept, TextKept, Numbered, Delivered
  <2> QED
    BY <1>4, <2>1, <2>2, <2>3, <2>4, GoroutineStep DEF CommandKept
<1> QED
  BY <1>3, <1>4 DEF WaiterCloses

LEMMA LoopClosesStep == ASSUME IInv, LoopCloses PROVE IInv'
<1> SUFFICES ASSUME NEW n \in Commands, n = loop.n PROVE IInv'
  BY DEF LoopCloses, Goto, IInv, LoopPlaced
<1>1. CASE /\ loop.pc = "close" /\ stream[n].kind = "cloud" /\ UNCHANGED loop
           /\ CloseBegins(n, "loop") \/ CloseEnds(n, "loop")
  BY <1>1, CloseStep DEF LoopCloses
<1>2. CASE Goto("close", "reply") /\ UNCHANGED stream
  <2>1. TypeOK'
    BY <1>2 DEF LoopCloses, Goto, IInv, TypeOK
  <2>2. LoopPlaced'
    BY <1>2 DEF LoopCloses, Goto, IInv, TypeOK, LoopPlaced
  <2> QED
    BY <1>2, <2>1, <2>2, LoopAlone DEF LoopCloses, Goto, IInv, TypeOK
<1> QED
  BY <1>1, <1>2 DEF LoopCloses

-----------------------------------------------------------------------------
(* The SDK's goroutine *)

\* A synthesis whose service is at work was started by the cloud's provider.
LEMMA SdkRuns ==
    ASSUME IInv, NEW n \in Commands, sdk[n].pc \in {"running", "pushing", "failed"}
    PROVE  /\ CommandKept(n) /\ stream[n].kind = "cloud" /\ ~Fresh(n)
           /\ sdk[n].ready # "true" /\ verdict[n] # "completed"
           /\ stream[n].closer = "waiter" => stream[n].err
           /\ stream[n].closer # "loop" /\ ~stream[n].err => ~stream[n].done
<1>1. CommandKept(n)
  BY DEF IInv
<1>2. stream[n].kind = "cloud" /\ ~Fresh(n) /\ sdk[n].ready # "true"
  BY <1>1, Typed DEF CommandKept, StreamKept, Fresh, StreamType
<1>3. stream[n].closer = "waiter" => stream[n].err
  BY <1>1, <1>2 DEF CommandKept, StreamKept
<1>4. stream[n].closer # "loop" /\ ~stream[n].err => ~stream[n].done
  BY <1>1, <1>2, <1>3, Typed DEF CommandKept, StreamKept, StreamType
<1>5. verdict[n] # "completed"
  BY <1>1, <1>4 DEF CommandKept, TextKept
<1> QED
  BY <1>1, <1>2, <1>3, <1>4, <1>5

LEMMA ResultStep == ASSUME IInv, NEW n \in Commands, Result(n) PROVE IInv'
<1> DEFINE r == [sdk[n] EXCEPT !.made = @ + 1]
           v == [r EXCEPT !.pc = IF stream[n].done THEN "running" ELSE "pushing"]
<1>1. sdk[n].pc = "running"
  BY DEF Result
<1>2. /\ r \in SdkType /\ r.ready = sdk[n].ready /\ r.made = sdk[n].made + 1
      /\ sdk[n].made \in Nat
  BY SMTT(30), Typed DEF SdkType
<1>3. sdk' = [sdk EXCEPT ![n] = v] /\ UNCHANGED <<track, loop, current, stream, waiter, played, verdict>>
  BY Typed DEF Result
<1> HIDE DEF r
<1>4. /\ v \in SdkType /\ v.ready = sdk[n].ready /\ v.made = sdk[n].made + 1
      /\ v.pc = IF stream[n].done THEN "running" ELSE "pushing"
  BY <1>2 DEF SdkType
<1> HIDE DEF v
<1>5. sdk'[n] = v
  BY <1>3, Typed
<1>6. InOrder(n)'
  BY <1>1, <1>3, SdkRuns DEF CommandKept, InOrder, Fresh
<1>7. StreamKept(n)'
  BY <1>1, <1>2, <1>3, <1>4, <1>5, SdkRuns DEF CommandKept, StreamKept
<1>8. TextKept(n)'
  <2>1. ASSUME ~stream[n].err, stream[n].closer # "loop" PROVE Numbered(n)'
    <3>1. Delivered(n)' = Delivered(n)
      BY <1>1, <1>2, <1>3, <1>4, <1>5, <2>1, SdkRuns DEF Delivered
    <3>2. Numbered(n)
      BY <1>1, <2>1, SdkRuns DEF CommandKept, TextKept
    <3> QED
      BY <1>3, <3>1, <3>2 DEF Numbered
  <2> QED
    BY <1>1, <1>3, <2>1, SdkRuns DEF TextKept
<1> QED
  BY <1>3, <1>4, <1>6, <1>7, <1>8, GoroutineStep DEF CommandKept

LEMMA PushChunkStep == ASSUME IInv, NEW n \in Commands, PushChunk(n) PROVE IInv'
<1> DEFINE v == [sdk[n] EXCEPT !.pc = "running"]
           b == Append(stream[n].buf, sdk[n].made)
           u == [stream[n] EXCEPT !.buf = b]
<1>1. /\ sdk[n].pc = "pushing" /\ CommandKept(n) /\ stream[n].kind = "cloud" /\ ~Fresh(n)
      /\ sdk[n].ready # "true" /\ verdict[n] # "completed"
  BY SdkRuns DEF PushChunk
<1>2. /\ v \in SdkType /\ v.ready = sdk[n].ready /\ v.made = sdk[n].made /\ v.pc = "running"
      /\ sdk[n].made \in Nat
  BY Typed DEF SdkType
<1>3. sdk' = [sdk EXCEPT ![n] = v] /\ UNCHANGED <<track, loop, current, waiter, played, verdict>>
  BY Typed DEF PushChunk
<1> HIDE DEF v
<1>4. sdk'[n] = v
  BY <1>3, Typed
<1>5. CASE stream[n].done /\ UNCHANGED stream
  <2>1. stream[n].err \/ stream[n].closer = "loop"
    BY <1>1, <1>5, SdkRuns
  <2>2. InOrder(n)'
    BY <1>1, <1>3, <1>5 DEF CommandKept, InOrder, Fresh
  <2>3. StreamKept(n)'
    BY <1>1, <1>2, <1>3, <1>4, <1>5 DEF CommandKept, StreamKept
  <2>4. TextKept(n)'
    BY <1>1, <1>3, <1>5, <2>1 DEF TextKept
  <2> QED
    BY <1>2, <1>3, <1>5, <2>2, <2>3, <2>4, GoroutineStep DEF CommandKept
<1>6. CASE Len(stream[n].buf) < Capacity /\ stream' = [stream EXCEPT ![n] = u]
  <2>1. stream[n] \in StreamType /\ stream[n].buf \in Seq(Nat) /\ Len(stream[n].buf) \in Nat
    BY Typed DEF StreamType
  <2>2. /\ b \in Seq(Nat) /\ Len(b) = Len(stream[n].buf) + 1
        /\ \A i \in 1..Len(stream[n].buf) : b[i] = stream[n].buf[i]
        /\ b[Len(stream[n].buf) + 1] = sdk[n].made
    BY <1>2, <2>1, AppendProperties
  <2> HIDE DEF b
  <2>3. /\ u \in StreamType /\ u.kind = stream[n].kind /\ u.done = stream[n].done
        /\ u.closer = stream[n].closer /\ u.err = stream[n].err /\ u.buf = b
    BY <2>1, <2>2 DEF StreamType
  <2> HIDE DEF u
  <2>4. stream'[n] = u /\ Len(u.buf) <= Capacity
    BY <1>6, <2>1, <2>2, <2>3, Typed, PlaybackAssumption
  <2>5. InOrder(n)'
    <3>1. ASSUME n = loop.n, loop.pc = "verdict" PROVE stream[n].err
      BY <1>1, <3>1, SdkRuns DEF CommandKept, InOrder
    <3> QED
      BY <1>1, <1>3, <2>3, <2>4, <3>1 DEF CommandKept, InOrder, Fresh
  <2>6. StreamKept(n)'
    BY <1>1, <1>2, <1>3, <1>4, <2>3, <2>4 DEF CommandKept, StreamKept
  <2>7. TextKept(n)'
    <3>1. ASSUME ~stream[n].err, stream[n].closer # "loop" PROVE Numbered(n)'
      <4>1. Numbered(n)
        BY <1>1, <3>1 DEF CommandKept, TextKept
      <4>2. Delivered(n) = sdk[n].made - 1
        BY <1>1 DEF Delivered
      <4>3. Delivered(n)' = sdk[n].made
        BY <1>1, <1>2, <1>4, <2>3, <2>4 DEF Delivered
      <4>4. Continues(played[n], b, sdk[n].made)
        BY <1>2, <2>1, <4>1, <4>2, Typed, ChunkBuffered DEF Numbered, b
      <4> QED
        BY <1>3, <2>3, <2>4, <4>3, <4>4 DEF Numbered
    <3> QED
      BY <1>1, <1>3, <2>3, <2>4, <3>1 DEF TextKept
  <2> QED
    BY <1>2, <1>3, <1>6, <2>3, <2>4, <2>5, <2>6, <2>7, GoroutineStep DEF CommandKept
<1> QED
  BY <1>5, <1>6 DEF PushChunk

LEMMA TaskFailedStep == ASSUME IInv, NEW n \in Commands, TaskFailed(n) PROVE IInv'
<1> DEFINE v == [sdk[n] EXCEPT !.pc = "failed"]
           u == [stream[n] EXCEPT !.err = TRUE]
<1>1. /\ CommandKept(n) /\ stream[n].kind = "cloud" /\ ~Fresh(n)
      /\ sdk[n].ready # "true" /\ verdict[n] # "completed"
  BY SdkRuns DEF TaskFailed
<1>2. v \in SdkType /\ v.ready = sdk[n].ready /\ v.made = sdk[n].made /\ v.pc = "failed"
  BY Typed DEF SdkType
<1>3. stream[n] \in StreamType /\ Len(stream[n].buf) <= Capacity
  BY Typed, PlaybackAssumption
<1>4. /\ u \in StreamType /\ Len(u.buf) <= Capacity /\ u.err
      /\ u.kind = stream[n].kind /\ u.buf = stream[n].buf /\ u.done = stream[n].done
      /\ u.closer = stream[n].closer
  BY <1>3 DEF StreamType
<1>5. /\ stream' = [stream EXCEPT ![n] = u] /\ sdk' = [sdk EXCEPT ![n] = v]
      /\ UNCHANGED <<track, loop, current, waiter, played, verdict>>
  BY DEF TaskFailed
<1> HIDE DEF u, v
<1>6. stream'[n] = u /\ sdk'[n] = v
  BY <1>5, Typed
<1>7. InOrder(n)'
  BY <1>1, <1>4, <1>5, <1>6 DEF CommandKept, InOrder, Fresh
<1>8. StreamKept(n)'
  BY <1>1, <1>2, <1>4, <1>5, <1>6 DEF CommandKept, StreamKept
<1>9. TextKept(n)'
  BY <1>1, <1>4, <1>5, <1>6 DEF TextKept
<1> QED
  BY <1>2, <1>4, <1>5, <1>7, <1>8, <1>9, GoroutineStep DEF CommandKept

LEMMA SignalStep == ASSUME IInv, NEW n \in Commands, Signal(n) PROVE IInv'
<1> SUFFICES ASSUME NEW ready \in {"true", "false"},
                    sdk' = [sdk EXCEPT ![n].pc = "over", ![n].ready = ready],
                    sdk[n].pc \in {"running", "failed"}
             PROVE  IInv'
  BY DEF Signal
<1> DEFINE r == [sdk[n] EXCEPT !.pc = "over"]
           v == [r EXCEPT !.ready = ready]
<1>1. /\ CommandKept(n) /\ stream[n].kind = "cloud" /\ ~Fresh(n)
      /\ sdk[n].ready # "true" /\ verdict[n] # "completed"
  BY SdkRuns
<1>2. sdk' = [sdk EXCEPT ![n] = v] /\ UNCHANGED <<track, loop, current, stream, waiter, played, verdict>>
  BY Typed DEF Signal
<1>3. r \in SdkType /\ r.made = sdk[n].made /\ r.pc = "over"
  BY Typed DEF SdkType
<1> HIDE DEF r
<1>4. v \in SdkType /\ v.made = sdk[n].made /\ v.pc = "over" /\ v.ready = ready
  BY <1>3 DEF SdkType
<1> HIDE DEF v
<1>5. sdk'[n] = v
  BY <1>2, Typed
<1>6. InOrder(n)'
  BY <1>1, <1>2 DEF CommandKept, InOrder, Fresh
<1>7. StreamKept(n)'
  BY <1>1, <1>2, <1>4, <1>5 DEF CommandKept, StreamKept
<1>8. TextKept(n)'
  <2>1. Delivered(n)' = Delivered(n)
    BY <1>1, <1>2, <1>4, <1>5 DEF Delivered
  <2>2. Numbered(n)' <=> Numbered(n)
    BY <1>2, <2>1 DEF Numbered
  <2> QED
    BY <1>1, <1>2, <2>2 DEF CommandKept, TextKept
<1> QED
  BY <1>2, <1>4, <1>6, <1>7, <1>8, GoroutineStep DEF CommandKept

-----------------------------------------------------------------------------
(* StartSynthesis, and the chunks of a command *)

LoopPCs == {"negotiate", "ready", "start", "recv", "write", "verdict", "close", "reply",
            "hangup", "ended"}

\* A step of the loop on the command it serves.
LEMMA ServingStep ==
    ASSUME IInv, NEW n \in Commands, n = loop.n,
           NEW pc \in {"recv", "write", "verdict", "close", "reply"},
           loop' = [loop EXCEPT !.pc = pc],
           UNCHANGED <<track, current>>,
           \/ stream' = stream
           \/ \E u \in StreamType : Len(u.buf) <= Capacity /\ stream' = [stream EXCEPT ![n] = u],
           \/ sdk' = sdk
           \/ \E v \in SdkType : sdk' = [sdk EXCEPT ![n] = v],
           \/ waiter' = waiter
           \/ waiter' = [waiter EXCEPT ![n] = "waiting"],
           \/ played' = played
           \/ \E p \in Seq(Nat) : played' = [played EXCEPT ![n] = p],
           \/ verdict' = verdict
           \/ \E t \in {"completed", "error"} : verdict' = [verdict EXCEPT ![n] = t],
           loop'.n = n /\ loop'.pc = pc => CommandKept(n)'
    PROVE  IInv'
<1>1. /\ stream' \in [Commands -> StreamType]
      /\ \A d \in Commands : Len(stream'[d].buf) <= Capacity
      /\ \A d \in Commands \ {n} : stream'[d] = stream[d]
  <2>1. CASE stream' = stream
    BY <2>1 DEF IInv, TypeOK, StreamType
  <2>2. CASE \E u \in StreamType : Len(u.buf) <= Capacity /\ stream' = [stream EXCEPT ![n] = u]
    BY <2>2, StreamWritten
  <2> QED
    BY <2>1, <2>2
<1>2. sdk' \in [Commands -> SdkType] /\ \A d \in Commands \ {n} : sdk'[d] = sdk[d]
  <2>1. CASE sdk' = sdk
    BY <2>1 DEF IInv, TypeOK, SdkType
  <2>2. CASE \E v \in SdkType : sdk' = [sdk EXCEPT ![n] = v]
    BY <2>2, SdkWritten
  <2> QED
    BY <2>1, <2>2
<1>3. /\ waiter' \in [Commands -> {"none", "waiting", "close", "gone"}]
      /\ \A d \in Commands \ {n} : waiter'[d] = waiter[d]
  <2>1. CASE waiter' = waiter
    BY <2>1 DEF IInv, TypeOK
  <2>2. CASE waiter' = [waiter EXCEPT ![n] = "waiting"]
    BY <2>2 DEF IInv, TypeOK
  <2> QED
    BY <2>1, <2>2
<1>4. /\ played' \in [Commands -> Seq(Nat)]
      /\ \A d \in Commands \ {n} : played'[d] = played[d]
  <2>1. CASE played' = played
    BY <2>1 DEF IInv, TypeOK
  <2>2. CASE \E p \in Seq(Nat) : played' = [played EXCEPT ![n] = p]
    BY <2>2 DEF IInv, TypeOK
  <2> QED
    BY <2>1, <2>2
<1>5. /\ verdict' \in [Commands -> {"none", "completed", "error"}]
      /\ \A d \in Commands \ {n} : verdict'[d] = verdict[d]
  <2>1. CASE verdict' = verdict
    BY <2>1 DEF IInv, TypeOK
  <2>2. CASE \E t \in {"completed", "error"} : verdict' = [verdict EXCEPT ![n] = t]
    BY <2>2 DEF IInv, TypeOK
  <2> QED
    BY <2>1, <2>2
<1>6. loop' \in [pc : LoopPCs, n : Commands \cup {0}] /\ loop'.n = n /\ loop'.pc = pc
  BY DEF IInv, TypeOK, LoopPCs
<1>7. TypeOK'
  BY <1>1, <1>2, <1>3, <1>4, <1>5, <1>6 DEF IInv, TypeOK, StreamType, SdkType, LoopPCs
<1>8. LoopPlaced'
  BY <1>6 DEF IInv, LoopPlaced
<1>9. \A d \in Commands \ {n} : Untouched(d)
  BY <1>1, <1>2, <1>3, <1>4, <1>5 DEF Untouched
<1> QED
  BY <1>6, <1>7, <1>8, <1>9, OneCommand

LEMMA StartSynthesisStep == ASSUME IInv, StartSynthesis PROVE IInv'
<1> SUFFICES ASSUME NEW n \in Commands, n = loop.n PROVE IInv'
  BY DEF StartSynthesis, Goto, IInv, LoopPlaced
<1> DEFINE r == [stream[n] EXCEPT !.kind = "cloud"]
           u == [r EXCEPT !.client = "running"]
           v == [sdk[n] EXCEPT !.pc = "running"]
<1>1. Fresh(n)
  BY DEF StartSynthesis, Goto, IInv, CommandKept, InOrder
<1>2. r \in StreamType /\ r.kind = "cloud" /\ r.buf = <<>> /\ ~r.err /\ ~r.done /\ r.closer = "none"
  BY <1>1, Typed DEF StreamType, Fresh
<1>3. /\ stream' = [stream EXCEPT ![n] = u] /\ sdk' = [sdk EXCEPT ![n] = v]
      /\ waiter' = [waiter EXCEPT ![n] = "waiting"]
      /\ loop' = [loop EXCEPT !.pc = "recv"] /\ UNCHANGED <<track, current, played, verdict>>
  BY Typed DEF StartSynthesis, Goto
<1> HIDE DEF r
<1>4. u \in StreamType /\ u.kind = "cloud" /\ u.buf = <<>> /\ ~u.err /\ ~u.done /\ u.closer = "none"
  BY <1>2 DEF StreamType
<1>5. v \in SdkType /\ v.pc = "running" /\ v.made = 0 /\ v.ready = "none"
  BY <1>1, Typed DEF SdkType, Fresh
<1> HIDE DEF u, v
<1>6. stream'[n] = u /\ sdk'[n] = v /\ waiter'[n] = "waiting" /\ Len(u.buf) <= Capacity
  BY <1>3, <1>4, Typed, PlaybackAssumption
<1>7. ASSUME loop'.n = n, loop'.pc = "recv" PROVE CommandKept(n)'
  <2>1. InOrder(n)'
    BY <1>1, <1>3, <1>4, <1>6, <1>7 DEF InOrder, Fresh, Commands
  <2>2. StreamKept(n)'
    BY <1>4, <1>5, <1>6 DEF StreamKept
  <2>3. Numbered(n)'
    <3>1. played'[n] = <<>> /\ stream'[n].buf = <<>> /\ Delivered(n)' = 0
      BY <1>1, <1>3, <1>4, <1>5, <1>6 DEF Delivered, Fresh
    <3>2. Continues(<<>>, <<>>, 0)
      BY DEF Continues
    <3> QED
      BY <3>1, <3>2 DEF Numbered
  <2>4. TextKept(n)'
    BY <1>1, <1>3, <2>3 DEF TextKept, Fresh
  <2> QED
    BY <2>1, <2>2, <2>4 DEF CommandKept
<1> QED
  BY <1>3, <1>4, <1>5, <1>6, <1>7, ServingStep

LEMMA StartFailsStep == ASSUME IInv, StartFails PROVE IInv'
<1> SUFFICES ASSUME NEW n \in Commands, n = loop.n,
                    NEW client \in {"none", "shutdown"},
                    stream' = [stream EXCEPT ![n].client = client]
             PROVE  IInv'
  BY DEF StartFails, Goto, IInv, LoopPlaced
<1> DEFINE u == [stream[n] EXCEPT !.client = client]
<1>1. Fresh(n) /\ StreamKept(n)
  BY DEF StartFails, Goto, IInv, CommandKept, InOrder
<1>2. /\ loop' = [loop EXCEPT !.pc = "reply"] /\ verdict' = [verdict EXCEPT ![n] = "error"]
      /\ stream' = [stream EXCEPT ![n] = u]
      /\ UNCHANGED <<track, current, sdk, waiter, played>>
  BY DEF StartFails, Goto
<1>3. u \in StreamType /\ u.kind = "none" /\ u.buf = <<>> /\ ~u.err /\ ~u.done /\ u.closer = "none"
  BY <1>1, Typed DEF StreamType, Fresh
<1> HIDE DEF u
<1>4. stream'[n] = u /\ verdict'[n] = "error" /\ Len(u.buf) <= Capacity
  <2>1. stream'[n] = u /\ verdict'[n] = "error"
    BY <1>2, Typed
  <2>2. Len(u.buf) <= Capacity
    BY <1>3, PlaybackAssumption
  <2> QED
    BY <2>1, <2>2
<1>5. ASSUME loop'.n = n, loop'.pc = "reply" PROVE CommandKept(n)'
  BY <1>1, <1>2, <1>3, <1>4, <1>5 DEF CommandKept, InOrder, StreamKept, TextKept, Fresh, Commands
<1> QED
  BY <1>2, <1>3, <1>4, <1>5, ServingStep

LEMMA TakeChunkStep == ASSUME IInv, TakeChunk PROVE IInv'
<1> SUFFICES ASSUME NEW n \in Commands, n = loop.n,
                    NEW pc \in {"recv", "write"}, loop' = [loop EXCEPT !.pc = pc]
             PROVE  IInv'
  BY DEF TakeChunk, Goto, IInv, LoopPlaced
<1> DEFINE b == Tail(stream[n].buf)
           p == Append(played[n], Head(stream[n].buf))
           u == [stream[n] EXCEPT !.buf = b]
<1>1. /\ CommandKept(n) /\ loop.pc = "recv" /\ verdict[n] = "none" /\ stream[n].kind # "none"
      /\ stream[n].closer # "loop" /\ stream[n].buf # <<>>
  BY DEF TakeChunk, Goto, IInv, CommandKept, InOrder
<1>2. stream[n] \in StreamType /\ played[n] \in Seq(Nat) /\ stream[n].buf \in Seq(Nat)
      /\ Len(stream[n].buf) \in 0..Capacity
  BY Typed DEF StreamType
<1>3. b \in Seq(Nat) /\ p \in Seq(Nat) /\ Len(b) <= Capacity
  BY <1>1, <1>2, HeadTailProperties, AppendProperties, PlaybackAssumption
<1>4. /\ stream' = [stream EXCEPT ![n] = u] /\ played' = [played EXCEPT ![n] = p]
      /\ UNCHANGED <<track, current, sdk, waiter, verdict>>
  BY DEF TakeChunk
<1> HIDE DEF b, p
<1>5. /\ u \in StreamType /\ u.buf = b /\ u.kind = stream[n].kind /\ u.done = stream[n].done
      /\ u.closer = stream[n].closer /\ u.err = stream[n].err
  BY <1>2, <1>3 DEF StreamType
<1> HIDE DEF u
<1>6. stream'[n] = u /\ played'[n] = p
  BY <1>4, Typed
<1>7. ASSUME loop'.n = n, loop'.pc = pc PROVE CommandKept(n)'
  <2>1. InOrder(n)'
    BY <1>1, <1>4, <1>5, <1>6, <1>7 DEF InOrder, Commands
  <2>2. StreamKept(n)'
    BY <1>1, <1>4, <1>5, <1>6 DEF CommandKept, StreamKept
  <2>3. ASSUME ~stream[n].err PROVE Numbered(n)'
    <3>1. Delivered(n)' = Delivered(n)
      BY <1>4, <1>5, <1>6 DEF Delivered
    <3>2. Delivered(n) \in Nat
      BY <1>1, Typed DEF Delivered, CommandKept, StreamKept, SdkType
    <3>3. Continues(p, b, Delivered(n))
      BY <1>1, <1>2, <2>3, <3>2, ChunkTaken DEF CommandKept, TextKept, Numbered, p, b
    <3> QED
      BY <1>5, <1>6, <3>1, <3>3 DEF Numbered
  <2>4. TextKept(n)'
    BY <1>1, <1>4, <1>5, <1>6, <2>3 DEF TextKept
  <2> QED
    BY <2>1, <2>2, <2>4 DEF CommandKept
<1> QED
  BY <1>3, <1>4, <1>5, <1>7, ServingStep

LEMMA RecvDoneStep == ASSUME IInv, RecvDone PROVE IInv'
<1> SUFFICES ASSUME NEW n \in Commands, n = loop.n PROVE IInv'
  BY DEF RecvDone, Goto, IInv, LoopPlaced
<1>1. /\ CommandKept(n) /\ loop.pc = "recv" /\ stream[n].buf = <<>> /\ stream[n].done
      /\ loop' = [loop EXCEPT !.pc = "verdict"]
      /\ UNCHANGED <<track, current, stream, sdk, waiter, played, verdict>>
  BY DEF RecvDone, Goto, IInv
<1>2. ASSUME loop'.n = n, loop'.pc = "verdict" PROVE CommandKept(n)'
  <2>1. InOrder(n)'
    BY <1>1, <1>2 DEF CommandKept, InOrder, Commands
  <2>2. StreamKept(n)'
    BY <1>1 DEF CommandKept, StreamKept
  <2>3. TextKept(n)'
    BY <1>1 DEF CommandKept, TextKept, Numbered, Delivered
  <2> QED
    BY <2>1, <2>2, <2>3 DEF CommandKept
<1> QED
  BY <1>1, <1>2, ServingStep

LEMMA RecvVerdictStep == ASSUME IInv, RecvVerdict PROVE IInv'
<1> SUFFICES ASSUME NEW n \in Commands, n = loop.n PROVE IInv'
  BY DEF RecvVerdict, Goto, IInv, LoopPlaced
<1> DEFINE t == IF stream[n].err THEN "error" ELSE "completed"
<1>1. /\ CommandKept(n) /\ loop.pc = "verdict" /\ loop' = [loop EXCEPT !.pc = "close"]
      /\ verdict' = [verdict EXCEPT ![n] = t] /\ verdict'[n] = t
      /\ UNCHANGED <<track, current, stream, sdk, waiter, played>>
  BY Typed DEF RecvVerdict, Goto, IInv
<1>2. ASSUME loop'.n = n, loop'.pc = "close" PROVE CommandKept(n)'
  <2>1. InOrder(n)'
    BY <1>1, <1>2 DEF InOrder, Commands
  <2>2. StreamKept(n)'
    BY <1>1 DEF CommandKept, StreamKept
  <2>3. TextKept(n)'
    BY <1>1 DEF CommandKept, TextKept, InOrder, Numbered, Delivered
  <2> QED
    BY <2>1, <2>2, <2>3 DEF CommandKept
<1> QED
  BY <1>1, <1>2, ServingStep

LEMMA WriteSampleStep == ASSUME IInv, WriteSample PROVE IInv'
<1> SUFFICES ASSUME NEW n \in Commands, n = loop.n PROVE IInv'
  BY DEF WriteSample, IInv, LoopPlaced
<1>1. /\ CommandKept(n) /\ loop.pc = "write"
      /\ UNCHANGED <<track, current, stream, sdk, waiter, played>>
  BY DEF WriteSample, IInv
<1>2. StreamKept(n)'
  BY <1>1 DEF CommandKept, StreamKept
<1>3. CASE loop' = [loop EXCEPT !.pc = "recv"] /\ UNCHANGED verdict
  <2>1. ASSUME loop'.n = n, loop'.pc = "recv" PROVE CommandKept(n)'
    BY <1>1, <1>2, <1>3, <2>1 DEF CommandKept, InOrder, TextKept, Numbered, Delivered, Commands
  <2> QED
    BY <1>1, <1>3, <2>1, ServingStep
<1>4. CASE loop' = [loop EXCEPT !.pc = "close"] /\ verdict' = [verdict EXCEPT ![n] = "error"]
  <2>1. verdict'[n] = "error"
    BY <1>4, Typed
  <2>2. ASSUME loop'.n = n, loop'.pc = "close" PROVE CommandKept(n)'
    BY <1>1, <1>2, <2>1, <2>2 DEF CommandKept, InOrder, TextKept, Numbered, Delivered, Commands
  <2> QED
    BY <1>1, <1>4, <2>2, ServingStep
<1> QED
  BY <1>3, <1>4 DEF WriteSample

-----------------------------------------------------------------------------
(* The theorems *)

LEMMA NextIInv == IInv /\ [Next]_vars => IInv'
<1> SUFFICES ASSUME IInv, [Next]_vars PROVE IInv'
  OBVIOUS
<1>1. CASE LoopStep
  BY <1>1, NegotiatedStep, EndStep, StartMockStep, StartSynthesisStep, StartFailsStep,
     TakeChunkStep, RecvDoneStep, RecvVerdictStep, WriteSampleStep, LoopClosesStep, ReplyStep
  DEF LoopStep
<1>2. CASE Serve \/ Play \/ Interrupt \/ EndCall
  BY <1>2, ServeStep, PlayStep, EndStep
<1>3. CASE \E n \in Commands : WaiterStep(n)
  BY <1>3, WaitFailsStep, WaitSucceedsStep, WaiterClosesStep DEF WaiterStep
<1>4. CASE \E n \in Commands : Result(n) \/ PushChunk(n) \/ TaskFailed(n) \/ Signal(n)
  BY <1>4, ResultStep, PushChunkStep, TaskFailedStep, SignalStep
<1>5. CASE UNCHANGED vars
  <2>1. TypeOK' /\ LoopPlaced'
    BY <1>5 DEF vars, IInv, TypeOK, LoopPlaced
  <2>2. ASSUME NEW n \in Commands PROVE CommandKept(n)'
    BY <1>5 DEF vars, IInv, CommandKept, InOrder, Fresh, StreamKept, TextKept, Numbered, Delivered
  <2> QED
    BY <2>1, <2>2 DEF IInv
<1> QED
  BY <1>1, <1>2, <1>3, <1>4, <1>5 DEF Next

\* Chunks are followed from the service to the loop as the inductive invariant says.
THEOREM PlaybackInvariant == Spec => []IInv
BY InitIInv, NextIInv, PTL DEF Spec

\* Every variable keeps its type, and no stream buffers more than its capacity.
THEOREM PlaybackTyped == Spec => []TypeOK
BY PlaybackInvariant, IInvImplies, PTL

\* The client is told that a command completed only when the service finished its text and
\* every chunk was taken in order (command_router.go, PlayTTS; aliyun.go, Recv and Close).
THEOREM PlaybackComplete == Spec => []SuccessIsComplete
BY PlaybackInvariant, IInvImplies, PTL

\* The comment of ClearTrack (session.go:274) is wrong of every call, not only of the one that
\* the run of PlaybackClient shows: no step that serves an interrupt finds a track to cut off.
THEOREM PlaybackUninterrupted == Spec => [][Interrupt => current = 0]_vars
<1>1. IInv => [Interrupt => current = 0]_vars
  BY DEF IInv, LoopPlaced, Interrupt
<1> QED
  BY <1>1, PlaybackInvariant, PTL
=============================================================================
