------------------------- MODULE AsrPipelineProofs -------------------------
(***************************************************************************)
(* Proofs about AsrPipeline, for any number of readers and sessions, any   *)
(* channel sizes and either provider.                                      *)
(*                                                                         *)
(* The inductive invariant has two parts.  The first follows a session     *)
(* from its reader's hands to its last close: it has one closer at most,   *)
(* and how far that one has got tells which of its channels are closed.    *)
(* The second follows a result from the recogniser to the client: what is  *)
(* pending, buffered, held by the forwarder and told is numbered in that   *)
(* order.                                                                  *)
(***************************************************************************)
EXTENDS AsrPipeline, TLAPS

-----------------------------------------------------------------------------
(* The inductive invariant: sessions *)

Using   == {"write", "send", "start", "markStarted", "sendAudio"}
Aside   == {"ready", "ensure", "reply", "stop", "closeAsr", "gone"}
CloudPC == {"start", "markStarted", "sendAudio", "stopClient", "shutdown", "markClosed",
            "takeChannels"}
Stopped == {"takeChannels", "closeResults", "closeErrs"}    \* the session is marked closed

Closes(r, n) == reader[r].target = n /\ reader[r].pc \in ClosingPC

\* A reader works on a session exactly where the code has one in hand, and one
\* that leaves does nothing but close.
ReaderPlaced(r) ==
    /\ reader[r].pc \in Aside <=> reader[r].target = 0
    /\ reader[r].target # 0 => reader[r].target \in 1..asr.created
    /\ reader[r].pc = "send" => Provider = "mock"
    /\ reader[r].pc \in CloudPC => Provider = "aliyun"
    /\ reader[r].pc = "gone" => reader[r].leaving
    /\ reader[r].leaving => reader[r].pc \in {"closeAsr", "gone"} \cup ClosingPC

\* What the reader has in hand is as far closed as the reader says.
ReaderKept(r) ==
    LET n == reader[r].target
    IN  /\ reader[r].pc = "send" => recognizer[n].holder = r /\ ~recognizer[n].closed
        /\ reader[r].pc \in ClosingPC =>
            /\ n # asr.current
            /\ recognizer[n].closed <=> reader[r].pc \in Stopped
            /\ reader[r].pc = "close" => ~recognizer[n].closing
            /\ results[n].closed <=> reader[r].pc = "closeErrs"
            /\ ~errs[n].closed
            /\ Provider = "mock" /\ reader[r].pc \in Stopped => recognizer[n].holder = r

OneCloser ==
    \A r, s \in Readers :
        reader[r].pc \in ClosingPC /\ reader[s].pc \in ClosingPC
        /\ reader[r].target = reader[s].target => r = s

\* A session is the processor's, or being closed, or closed for good.
SessionKept(n) ==
    /\ n = asr.current \/ n \notin 1..asr.created =>
        /\ ~recognizer[n].closed /\ ~recognizer[n].closing
        /\ ~results[n].closed /\ ~errs[n].closed
    /\ recognizer[n].closed =>
        \/ results[n].closed /\ errs[n].closed /\ recognizer[n].holder = None
        \/ \E r \in Readers : Closes(r, n)
    /\ results[n].closed \/ errs[n].closed => recognizer[n].closed
    /\ recognizer[n].holder # None =>
        /\ Provider = "mock"
        /\ reader[recognizer[n].holder].target = n
        /\ reader[recognizer[n].holder].pc \in {"send", "closeResults", "closeErrs"}
    /\ Provider = "mock" => recognizer[n].client = "new" /\ callback[n] = "idle"
    /\ n \in 1..asr.created =>
        n = asr.current \/ recognizer[n].closed \/ \E r \in Readers : Closes(r, n)

ProcessorKept ==
    /\ asr.current \in 0..asr.created
    /\ \A n \in 1..asr.created : n \in Sessions
    /\ asr.failed => asr.current = 0
    /\ Provider = "mock" => ~panicked

\* The only reader of a websocket call.
OnlyReaderKept ==
    ClosesStream =>
        /\ \A r \in Readers :
            /\ reader[r].pc \in Using => reader[r].target = asr.current
            /\ reader[r].leaving /\ reader[r].pc # "closeAsr" => asr.current = 0
            /\ reader[r].pc = "markClosed" => recognizer[reader[r].target].client # "running"
        /\ \A n \in Sessions : recognizer[n].closed => recognizer[n].client # "running"

SessionsKept ==
    /\ \A r \in Readers : ReaderPlaced(r) /\ ReaderKept(r)
    /\ \A n \in Sessions : SessionKept(n)
    /\ OneCloser /\ ProcessorKept /\ OnlyReaderKept

-----------------------------------------------------------------------------
(* The inductive invariant: results *)

\* The latest result of session n is on its way to the channel.
Pending(n) == callback[n] = "sendResult" \/ \E r \in Readers :
                                                reader[r].pc = "send" /\ reader[r].target = n

Newest(n) == IF Pending(n) THEN produced[n] ELSE produced[n] + 1

Busy     == {"number", "ttfb", "write"}
Numbered == {"ttfb", "write"}

\* What is told comes before what the forwarder has, that before what is buffered, and
\* that before what is pending.
OrderKept(n) ==
    LET buf  == results[n].buf
        item == forwarder[n].item
    IN  /\ \A i \in DOMAIN buf : buf[i] < Newest(n)
        /\ \A i, j \in DOMAIN buf : i < j => buf[i] < buf[j]
        /\ forwarder[n].pc \in Busy => item < Newest(n) /\ \A i \in DOMAIN buf : item < buf[i]
        /\ \A t \in told : t.session = n =>
            /\ t.number < Newest(n) /\ \A i \in DOMAIN buf : t.number < buf[i]
            /\ forwarder[n].pc \in Busy => t.number < item
            /\ forwarder[n].pc \in Numbered => t.index < forwarder[n].index

\* No two results have one index, told or about to be.
IndexKept ==
    /\ \A t \in told : t.index <= asr.index
    /\ \A n \in Sessions : forwarder[n].pc \in Numbered =>
        /\ forwarder[n].index <= asr.index
        /\ \A t \in told : t.index # forwarder[n].index
        /\ \A m \in Sessions \ {n} :
               forwarder[m].pc \in Numbered => forwarder[m].index # forwarder[n].index

ResultsKept == (\A n \in Sessions : OrderKept(n)) /\ IndexKept

IInv == TypeOK /\ SessionsKept /\ ResultsKept

-----------------------------------------------------------------------------
(* Where a reader goes *)

Reader == [pc: ReaderPC, target: Sessions \cup {0}, leaving: BOOLEAN, frames: Nat]

ReadersTyped == reader \in [Readers -> Reader] /\ \A r \in Readers : reader[r].frames <= MaxFrames[r]

\* Reader r goes from one place to another, with n in hand.
Moves(r, from, to, n) ==
    /\ reader[r].pc = from /\ reader'[r].pc = to /\ reader'[r].target = n
    /\ reader'[r].leaving = reader[r].leaving
    /\ \A s \in Readers \ {r} : reader'[s] = reader[s]

LEMMA GotoMoves ==
    ASSUME ReadersTyped, NEW r \in Readers, NEW from, NEW to \in ReaderPC, Goto(r, from, to)
    PROVE  /\ ReadersTyped'
           /\ Moves(r, from, to, IF to \in {"ready", "reply", "gone"} THEN 0 ELSE reader[r].target)
<1> DEFINE n == IF to \in {"ready", "reply", "gone"} THEN 0 ELSE reader[r].target
           rec == [reader[r] EXCEPT !.pc = to, !.target = n]
<1>1. /\ reader \in [Readers -> Reader] /\ reader[r] \in Reader
      /\ \A s \in Readers : reader[s].frames <= MaxFrames[s]
  BY DEF ReadersTyped
<1>2. /\ rec \in Reader /\ rec.pc = to /\ rec.target = n /\ rec.leaving = reader[r].leaving
      /\ rec.frames = reader[r].frames
  BY <1>1 DEF Reader
<1>3. reader[r].pc = from /\ reader' = [reader EXCEPT ![r] = rec]
  BY <1>1 DEF Goto
<1> HIDE DEF rec
<1>4. ReadersTyped'
  BY <1>1, <1>2, <1>3 DEF ReadersTyped
<1>5. Moves(r, from, to, n)
  BY <1>1, <1>2, <1>3 DEF Moves
<1> QED
  BY <1>4, <1>5

LEMMA FrameMoves ==
    ASSUME ReadersTyped, NEW r \in Readers, NEW to \in ReaderPC, Frame(r, to)
    PROVE  ReadersTyped' /\ Moves(r, "ready", to, reader[r].target)
<1> DEFINE rec == [reader[r] EXCEPT !.pc = to, !.frames = @ - 1]
<1>1. /\ reader \in [Readers -> Reader] /\ reader[r] \in Reader
      /\ \A s \in Readers : reader[s].frames <= MaxFrames[s]
      /\ reader[r].frames > 0 /\ MaxFrames[r] \in Nat
  BY PipelineAssumption DEF ReadersTyped, Frame
<1>2. reader[r].frames \in Nat /\ reader[r].frames - 1 \in Nat
      /\ reader[r].frames - 1 <= MaxFrames[r]
  <2>1. reader[r].frames \in Nat
    BY <1>1 DEF Reader
  <2> QED
    BY <1>1, <2>1
<1>3. /\ rec \in Reader /\ rec.pc = to /\ rec.target = reader[r].target
      /\ rec.leaving = reader[r].leaving /\ rec.frames = reader[r].frames - 1
  BY <1>1, <1>2 DEF Reader
<1>4. reader[r].pc = "ready" /\ reader' = [reader EXCEPT ![r] = rec]
  BY <1>1 DEF Frame
<1> HIDE DEF rec
<1>5. ReadersTyped'
  BY <1>1, <1>2, <1>3, <1>4 DEF ReadersTyped
<1>6. Moves(r, "ready", to, reader[r].target)
  BY <1>1, <1>3, <1>4 DEF Moves
<1> QED
  BY <1>5, <1>6

\* A reader that takes session n in its hands, or lets go of what it has.
LEMMA TakesMoves ==
    ASSUME ReadersTyped, NEW r \in Readers, NEW from, NEW to \in ReaderPC,
           NEW n \in Sessions \cup {0}, reader[r].pc = from,
           reader' = [reader EXCEPT ![r].target = n, ![r].pc = to]
    PROVE  ReadersTyped' /\ Moves(r, from, to, n)
<1> DEFINE rec == [reader[r] EXCEPT !.target = n, !.pc = to]
<1>1. /\ reader \in [Readers -> Reader] /\ reader[r] \in Reader
      /\ \A s \in Readers : reader[s].frames <= MaxFrames[s]
  BY DEF ReadersTyped
<1>2. /\ rec \in Reader /\ rec.pc = to /\ rec.target = n /\ rec.leaving = reader[r].leaving
      /\ rec.frames = reader[r].frames
  BY <1>1 DEF Reader
<1>3. reader' = [reader EXCEPT ![r] = rec]
  BY <1>1
<1> HIDE DEF rec
<1>4. ReadersTyped'
  BY <1>1, <1>2, <1>3 DEF ReadersTyped
<1>5. Moves(r, from, to, n)
  BY <1>1, <1>2, <1>3 DEF Moves
<1> QED
  BY <1>4, <1>5

LEMMA LeaveMoves ==
    ASSUME ReadersTyped, NEW r \in Readers, NEW to \in ReaderPC,
           reader' = [reader EXCEPT ![r].leaving = TRUE, ![r].pc = to]
    PROVE  /\ ReadersTyped'
           /\ reader'[r].pc = to /\ reader'[r].target = reader[r].target /\ reader'[r].leaving
           /\ \A s \in Readers \ {r} : reader'[s] = reader[s]
<1> DEFINE rec == [reader[r] EXCEPT !.leaving = TRUE, !.pc = to]
<1>1. /\ reader \in [Readers -> Reader] /\ reader[r] \in Reader
      /\ \A s \in Readers : reader[s].frames <= MaxFrames[s]
  BY DEF ReadersTyped
<1>2. /\ rec \in Reader /\ rec.pc = to /\ rec.target = reader[r].target /\ rec.leaving
      /\ rec.frames = reader[r].frames
  BY <1>1 DEF Reader
<1>3. reader' = [reader EXCEPT ![r] = rec]
  BY <1>1
<1> HIDE DEF rec
<1> QED
  BY <1>1, <1>2, <1>3 DEF ReadersTyped

LEMMA HomeTyped ==
    ASSUME NEW r \in Readers
    PROVE  Home(r) \in ReaderPC /\ Home(r) \in {"ready", "gone"}
BY DEF Home, ReaderPC

-----------------------------------------------------------------------------
(* Sessions, over the steps that close nothing *)

\* What the first part of the invariant sees of session m stays as it is.
SameFlags(m) ==
    /\ recognizer'[m].closed = recognizer[m].closed
    /\ recognizer'[m].closing = recognizer[m].closing
    /\ recognizer'[m].holder = recognizer[m].holder
    /\ results'[m].closed = results[m].closed /\ errs'[m].closed = errs[m].closed
    /\ Provider = "mock" => recognizer'[m].client = recognizer[m].client
                            /\ callback'[m] = callback[m]

LEMMA StaysKept ==
    ASSUME NEW s \in Readers, ReaderKept(s), reader'[s] = reader[s],
           asr'.current = asr.current,
           reader[s].pc \in ClosingPC \cup {"send"} => SameFlags(reader[s].target)
    PROVE  ReaderKept(s)'
<1> DEFINE n == reader[s].target
           pc == reader[s].pc
<1>1. CASE pc = "send" \/ pc \in ClosingPC
  <2>1. /\ recognizer'[n].closed = recognizer[n].closed
        /\ recognizer'[n].closing = recognizer[n].closing
        /\ recognizer'[n].holder = recognizer[n].holder
        /\ results'[n].closed = results[n].closed /\ errs'[n].closed = errs[n].closed
    BY <1>1 DEF SameFlags
  <2> QED
    BY <2>1 DEF ReaderKept
<1>2. CASE pc # "send" /\ pc \notin ClosingPC
  BY <1>2 DEF ReaderKept
<1> QED
  BY <1>1, <1>2

\* Reader r goes on without closing or sending anything.
LEMMA WalksOn ==
    ASSUME SessionsKept, TypeOK, NEW r \in Readers,
           \A s \in Readers \ {r} : reader'[s] = reader[s],
           reader[r].pc \notin ClosingPC \cup {"send"},
           reader'[r].pc \notin ClosingPC \cup {"send"}, ReaderPlaced(r)',
           reader'[r].pc \in Using =>
               reader'[r].target = asr.current \/
               (reader[r].pc \in Using /\ reader'[r].target = reader[r].target),
           ClosesStream /\ reader'[r].leaving /\ reader'[r].pc # "closeAsr" => reader[r].leaving
               /\ reader[r].pc # "closeAsr",
           asr'.current = asr.current, asr'.created = asr.created,
           asr'.failed => asr.current = 0,
           \A m \in Sessions : SameFlags(m),
           \A m \in Sessions : recognizer'[m].client = "running" =>
               recognizer[m].client = "running" \/ (m = reader[r].target /\ reader[r].pc \in Using),
           panicked' = panicked
    PROVE  SessionsKept'
<1> USE DEF SessionsKept
<1>0. \A s \in Readers : reader[s].target \in Sessions \cup {0}
  BY DEF TypeOK
<1>1. ASSUME NEW s \in Readers PROVE ReaderPlaced(s)' /\ ReaderKept(s)'
  <2>1. ReaderPlaced(s)'
    BY DEF ReaderPlaced
  <2>2. CASE s # r
    <3>1. reader[s].pc \in ClosingPC \cup {"send"} => reader[s].target \in Sessions
      BY <1>0 DEF ReaderPlaced, Aside, ClosingPC
    <3> QED
      BY <2>1, <2>2, <3>1, StaysKept
  <2>3. CASE s = r
    BY <2>1, <2>3 DEF ReaderKept
  <2> QED
    BY <2>2, <2>3
<1>2. ASSUME NEW n \in Sessions PROVE SessionKept(n)'
  <2>1. \A s \in Readers : Closes(s, n)' <=> Closes(s, n)
    BY DEF Closes
  <2>2. recognizer[n].holder \in Readers \cup {None}
    BY DEF TypeOK
  <2>3. recognizer[n].holder # None =>
            reader'[recognizer[n].holder] = reader[recognizer[n].holder]
    BY <2>2 DEF SessionKept, ClosingPC
  <2> QED
    BY <2>1, <2>3 DEF SessionKept, SameFlags
<1>3. OneCloser'
  BY DEF OneCloser
<1>4. ProcessorKept'
  BY DEF ProcessorKept
<1>5. OnlyReaderKept'
  <2> SUFFICES ASSUME ClosesStream PROVE OnlyReaderKept'
    BY DEF OnlyReaderKept
  <2>1. \A s \in Readers : s = r
    BY PipelineAssumption
  <2>2. reader[r].pc \in Using => ~recognizer[reader[r].target].closed
    <3>1. reader[r].pc \in Using => reader[r].target = asr.current /\ reader[r].target \in Sessions
      BY <1>0 DEF OnlyReaderKept, ReaderPlaced, Using, Aside
    <3> QED
      BY <3>1 DEF SessionKept
  <2>3. \A n \in Sessions : recognizer'[n].closed => recognizer'[n].client # "running"
    BY <2>2 DEF OnlyReaderKept, SameFlags
  <2> QED
    BY <2>1, <2>3 DEF OnlyReaderKept, ClosingPC
<1> QED
  BY <1>1, <1>2, <1>3, <1>4, <1>5

\* A step of a forwarder, a callback or the connection.
LEMMA Elsewhere ==
    ASSUME SessionsKept, TypeOK, reader' = reader,
           asr'.current = asr.current, asr'.created = asr.created, asr'.failed = asr.failed,
           \A m \in Sessions : SameFlags(m),
           \A m \in Sessions : recognizer'[m].client = "running" =>
               recognizer[m].client = "running",
           Provider = "mock" => ~panicked'
    PROVE  SessionsKept'
<1> USE DEF SessionsKept
<1>0. \A s \in Readers : reader[s].target \in Sessions \cup {0}
  BY DEF TypeOK
<1>1. ASSUME NEW s \in Readers PROVE ReaderPlaced(s)' /\ ReaderKept(s)'
  <2>1. reader[s].pc \in ClosingPC \cup {"send"} => reader[s].target \in Sessions
    BY <1>0 DEF ReaderPlaced, Aside, ClosingPC
  <2> QED
    BY <2>1 DEF ReaderPlaced, ReaderKept, SameFlags
<1>2. ASSUME NEW n \in Sessions PROVE SessionKept(n)'
  BY DEF SessionKept, SameFlags, Closes
<1>3. OneCloser' /\ ProcessorKept'
  BY DEF OneCloser, ProcessorKept
<1>4. OnlyReaderKept'
  <2>1. \A s \in Readers : reader[s].pc = "markClosed" => reader[s].target \in Sessions
    BY <1>0 DEF ReaderPlaced, Aside
  <2> QED
    BY <2>1 DEF OnlyReaderKept, SameFlags
<1> QED
  BY <1>1, <1>2, <1>3, <1>4

-----------------------------------------------------------------------------
(* Types *)

Processor  == [current: Sessions \cup {0}, created: Sessions \cup {0}, failed: BOOLEAN,
               silence: Nat, ttfbSent: BOOLEAN, index: Nat]
Recognizer == [open: BOOLEAN, started: BOOLEAN, closing: BOOLEAN, closed: BOOLEAN,
               client: {"new", "running", "failed", "shutdown"}, holder: Readers \cup {None}]
Chan       == [buf: Seq(Nat), closed: BOOLEAN]
Forwarder  == [pc: ForwarderPC, results: BOOLEAN, errs: BOOLEAN, item: Nat, index: Nat]

RecognizersTyped == asr \in Processor /\ recognizer \in [Sessions -> Recognizer]

ChannelsTyped ==
    /\ results \in [Sessions -> Chan] /\ errs \in [Sessions -> Chan]
    /\ \A n \in Sessions : Len(results[n].buf) <= Capacity /\ Len(errs[n].buf) <= ErrCapacity

ForwardersTyped == forwarder \in [Sessions -> Forwarder] /\ wire \in Seq(Events)

CallbacksTyped ==
    /\ callback \in [Sessions -> {"idle", "sendResult", "sendError"}]
    /\ produced \in [Sessions -> Nat]
    /\ broken \in BOOLEAN /\ panicked \in BOOLEAN

LEMMA TypeParts ==
    TypeOK <=> /\ ReadersTyped /\ RecognizersTyped /\ ChannelsTyped
               /\ ForwardersTyped /\ CallbacksTyped
BY DEF TypeOK, ReadersTyped, RecognizersTyped, ChannelsTyped, ForwardersTyped, CallbacksTyped,
       Reader, Processor, Recognizer, Chan, Forwarder

LEMMA TypePartsNext ==
    TypeOK' <=> /\ ReadersTyped' /\ RecognizersTyped' /\ ChannelsTyped'
                /\ ForwardersTyped' /\ CallbacksTyped'
BY DEF TypeOK, ReadersTyped, RecognizersTyped, ChannelsTyped, ForwardersTyped, CallbacksTyped,
       Reader, Processor, Recognizer, Chan, Forwarder

\* A reader that has a session in hand has one that was created.
LEMMA InHand ==
    ASSUME TypeOK, SessionsKept, NEW r \in Readers, reader[r].pc \notin Aside
    PROVE  reader[r].target \in Sessions
BY DEF TypeOK, SessionsKept, ReaderPlaced

LEMMA ReadersStep ==
    ASSUME TypeOK, SessionsKept, NEW r \in Readers,
           Silent(r) \/ SegmentEnd(r) \/ Speech(r) \/ Leave(r) \/ ReaderStep(r)
    PROVE  ReadersTyped'
<1> USE TypeParts, HomeTyped DEF ReaderPC, ClosingPC
<1>1. CASE Silent(r) \/ SegmentEnd(r) \/ Speech(r)
  BY <1>1, FrameMoves DEF Silent, SegmentEnd, Speech
<1>2. CASE Leave(r) \/ Reply(r)
  BY <1>2, LeaveMoves, GotoMoves DEF Leave, Reply
<1>3. asr.current \in Sessions \cup {0}
  BY DEF RecognizersTyped, Processor
<1>4. CASE EnsureOld(r)
  BY <1>3, <1>4, TakesMoves DEF EnsureOld
<1>10. CASE EnsureNew(r)
  <2>1. asr.created + 1 \in Sessions \cup {0} /\ reader[r].pc = "ensure"
        /\ reader' = [reader EXCEPT ![r].target = asr.created + 1, ![r].pc = "write"]
    BY <1>10 DEF EnsureNew
  <2> QED
    BY <2>1, TakesMoves
<1>5. CASE StopActive(r) \/ CloseAsr(r)
  BY SMTT(30), <1>3, <1>5, TakesMoves DEF StopActive, CloseAsr, Detach
<1>6. CASE EnsureFails(r) \/ MockWrite(r) \/ MockSend(r) \/ MockClose(r)
  BY <1>6, GotoMoves DEF EnsureFails, MockWrite, MockSend, MockClose
<1>7. CASE Write(r) \/ Start(r) \/ MarkStarted(r) \/ SendAudio(r)
  BY <1>7, GotoMoves DEF Write, Start, MarkStarted, SendAudio
<1>8. CASE CloudClose(r) \/ StopClient(r) \/ Shutdown(r) \/ MarkClosed(r)
  BY <1>8, GotoMoves DEF CloudClose, StopClient, Shutdown, MarkClosed
<1>9. CASE TakeChannels(r) \/ CloseResults(r) \/ CloseErrs(r)
  BY <1>9, GotoMoves DEF TakeChannels, CloseResults, CloseErrs
<1> QED
  BY <1>1, <1>2, <1>4, <1>5, <1>6, <1>7, <1>8, <1>9, <1>10 DEF ReaderStep

LEMMA RecognizersStep ==
    ASSUME TypeOK, SessionsKept, Next
    PROVE  RecognizersTyped'
<1>1. /\ asr \in Processor /\ recognizer \in [Sessions -> Recognizer]
      /\ \A n \in Sessions : recognizer[n] \in Recognizer
  BY TypeParts DEF RecognizersTyped
<1>2. CASE UNCHANGED <<asr, recognizer>>
  BY <1>1, <1>2 DEF RecognizersTyped
<1>3. ASSUME NEW r \in Readers, Silent(r) \/ Speech(r)
      PROVE  RecognizersTyped'
  BY <1>1, <1>3 DEF Silent, Speech, Processor, RecognizersTyped
<1>4. ASSUME NEW r \in Readers, EnsureNew(r) \/ EnsureFails(r) \/ StopActive(r) \/ CloseAsr(r)
      PROVE  RecognizersTyped'
  BY <1>1, <1>4 DEF EnsureNew, EnsureFails, StopActive, CloseAsr, Detach, Processor,
                    RecognizersTyped
<1>5. ASSUME NEW r \in Readers, MockWrite(r)
      PROVE  RecognizersTyped'
  <2>1. PICK h \in Readers \cup {None} :
            recognizer' = [recognizer EXCEPT ![reader[r].target].holder = h]
    BY <1>5 DEF MockWrite
  <2>2. asr' = asr
    BY <1>5 DEF MockWrite
  <2> QED
    BY ZenonT(30), <1>1, <2>1, <2>2 DEF Recognizer, RecognizersTyped
<1>6. ASSUME NEW r \in Readers, MockClose(r)
      PROVE  RecognizersTyped'
  <2>1. PICK h \in Readers \cup {None} :
            recognizer' = [recognizer EXCEPT ![reader[r].target].closed = TRUE,
                                             ![reader[r].target].holder = h]
    BY <1>6 DEF MockClose
  <2>2. asr' = asr
    BY <1>6 DEF MockClose
  <2>3. \A n \in Sessions : [recognizer[n] EXCEPT !.closed = TRUE, !.holder = h] \in Recognizer
    BY <1>1 DEF Recognizer
  <2> QED
    BY <1>1, <2>1, <2>2, <2>3 DEF RecognizersTyped
<1>7. ASSUME NEW r \in Readers, CloudClose(r)
      PROVE  RecognizersTyped'
  <2>1. PICK b \in BOOLEAN : recognizer' = [recognizer EXCEPT ![reader[r].target].closing = b]
    <3>1. reader[r].target \in Sessions
      BY <1>7, InHand DEF CloudClose, Goto, Aside
    <3> QED
      BY <1>1, <1>7, <3>1 DEF CloudClose, Recognizer
  <2>2. asr' = asr
    BY <1>7 DEF CloudClose
  <2> QED
    BY ZenonT(30), <1>1, <2>1, <2>2 DEF Recognizer, RecognizersTyped
<1>8. ASSUME NEW n \in Sessions, Number(n)
      PROVE  RecognizersTyped'
  <2>1. asr.index + 1 \in Nat
    BY <1>1 DEF Processor
  <2>2. asr' = [asr EXCEPT !.ttfbSent = TRUE, !.index = asr.index + 1] /\ recognizer' = recognizer
    BY <1>8 DEF Number
  <2> QED
    BY <1>1, <2>1, <2>2 DEF Processor, RecognizersTyped
<1>9. ASSUME NEW r \in Readers, MockSend(r)
      PROVE  RecognizersTyped'
  BY ZenonT(30), <1>1, <1>9 DEF MockSend, Recognizer, RecognizersTyped
<1>10. ASSUME NEW r \in Readers, Start(r)
      PROVE  RecognizersTyped'
  BY <1>1, <1>10 DEF Start, Recognizer, RecognizersTyped
<1>11. ASSUME NEW r \in Readers, MarkStarted(r)
      PROVE  RecognizersTyped'
  BY ZenonT(30), <1>1, <1>11 DEF MarkStarted, Recognizer, RecognizersTyped
<1>12. ASSUME NEW r \in Readers, Shutdown(r)
      PROVE  RecognizersTyped'
  BY ZenonT(30), <1>1, <1>12 DEF Shutdown, Recognizer, RecognizersTyped
<1>13. ASSUME NEW r \in Readers, MarkClosed(r)
      PROVE  RecognizersTyped'
  BY ZenonT(30), <1>1, <1>13 DEF MarkClosed, Recognizer, RecognizersTyped
<1>14. ASSUME NEW r \in Readers, TakeChannels(r)
      PROVE  RecognizersTyped'
  BY ZenonT(30), <1>1, <1>14 DEF TakeChannels, Recognizer, RecognizersTyped
<1>15. ASSUME NEW r \in Readers, CloseErrs(r)
      PROVE  RecognizersTyped'
  BY ZenonT(30), <1>1, <1>15 DEF CloseErrs, Recognizer, RecognizersTyped
<1>16. ASSUME NEW n \in Sessions, OnTaskFailed(n)
      PROVE  RecognizersTyped'
  BY <1>1, <1>16 DEF OnTaskFailed, CallBack, Recognizer, RecognizersTyped
<1>17. ASSUME NEW r \in Readers, SegmentEnd(r) \/ Leave(r) \/ EnsureOld(r) \/ Reply(r) \/ Write(r)
                          \/ SendAudio(r) \/ StopClient(r) \/ CloseResults(r)
      PROVE  UNCHANGED <<asr, recognizer>>
  BY <1>17 DEF SegmentEnd, Leave, EnsureOld, Reply, Write, SendAudio, StopClient, CloseResults
<1>18. ASSUME NEW n \in Sessions,
             ForwarderStep(n) \/ OnResult(n) \/ AppendResult(n) \/ AppendError(n), ~Number(n)
      PROVE  UNCHANGED <<asr, recognizer>>
  BY <1>18 DEF ForwarderStep, EvalResults, EvalErrs, TakeResult, TakeError, ChannelClosed,
              WriteTtfb, WriteResult, OnResult, CallBack, AppendResult, AppendError
<1>19. CASE Break
  BY <1>2, <1>19 DEF Break
<1> QED
  BY <1>2, <1>3, <1>4, <1>5, <1>6, <1>7, <1>8, <1>9, <1>10, <1>11, <1>12, <1>13, <1>14,
     <1>15, <1>16, <1>17, <1>18, <1>19 DEF Next, ReaderStep

\* What joins a channel at its end, and what leaves it at its head.
LEMMA Joins ==
    ASSUME NEW S, NEW buf \in Seq(S), NEW x \in S
    PROVE  /\ Append(buf, x) \in Seq(S) /\ Len(Append(buf, x)) = Len(buf) + 1
           /\ Append(buf, x)[Len(buf) + 1] = x
           /\ \A i \in DOMAIN buf : Append(buf, x)[i] = buf[i]
           /\ DOMAIN Append(buf, x) = DOMAIN buf \cup {Len(buf) + 1} /\ DOMAIN buf = 1..Len(buf)
OBVIOUS

LEMMA Leaves ==
    ASSUME NEW S, NEW buf \in Seq(S), buf # <<>>
    PROVE  /\ Head(buf) \in S /\ Head(buf) = buf[1] /\ 1 \in DOMAIN buf
           /\ Tail(buf) \in Seq(S) /\ Len(Tail(buf)) = Len(buf) - 1
           /\ \A i \in DOMAIN Tail(buf) : i + 1 \in DOMAIN buf /\ Tail(buf)[i] = buf[i + 1]
OBVIOUS

\* One channel's content is replaced, or it is closed.
Rebuffers(channel, new, n, b) == new = [channel EXCEPT ![n].buf = b]

LEMMA ChannelChanges ==
    ASSUME NEW channel \in [Sessions -> Chan], NEW n \in Sessions, NEW capacity \in Nat,
           \A m \in Sessions : Len(channel[m].buf) <= capacity,
           NEW b \in Seq(Nat), Len(b) <= capacity, NEW new, Rebuffers(channel, new, n, b)
    PROVE  /\ new \in [Sessions -> Chan] /\ new[n].buf = b
           /\ \A m \in Sessions : /\ Len(new[m].buf) <= capacity
                                  /\ m # n => new[m] = channel[m]
                                  /\ new[m].closed = channel[m].closed
<1> DEFINE rec == [channel[n] EXCEPT !.buf = b]
<1>1. /\ rec \in Chan /\ rec.buf = b /\ rec.closed = channel[n].closed
      /\ new = [channel EXCEPT ![n] = rec]
  BY DEF Chan, Rebuffers
<1> HIDE DEF rec
<1> QED
  BY <1>1

LEMMA ChannelCloses ==
    ASSUME NEW channel \in [Sessions -> Chan], NEW n \in Sessions, NEW new,
           new = [channel EXCEPT ![n].closed = TRUE]
    PROVE  /\ new \in [Sessions -> Chan] /\ new[n].closed
           /\ \A m \in Sessions : /\ new[m].buf = channel[m].buf
                                  /\ m # n => new[m] = channel[m]
BY DEF Chan

LEMMA ChannelsStep ==
    ASSUME TypeOK, SessionsKept, Next
    PROVE  ChannelsTyped'
<1>1. /\ results \in [Sessions -> Chan] /\ errs \in [Sessions -> Chan]
      /\ \A n \in Sessions : Len(results[n].buf) <= Capacity
      /\ \A n \in Sessions : Len(errs[n].buf) <= ErrCapacity
      /\ \A n \in Sessions : results[n].buf \in Seq(Nat) /\ errs[n].buf \in Seq(Nat)
      /\ \A n \in Sessions : produced[n] \in Nat
      /\ Capacity \in Nat /\ ErrCapacity \in Nat
  BY TypeParts, PipelineAssumption DEF ChannelsTyped, CallbacksTyped, Chan
<1>2. CASE UNCHANGED <<results, errs>>
  BY <1>1, <1>2 DEF ChannelsTyped
<1>3. ASSUME NEW r \in Readers, MockSend(r)
      PROVE  ChannelsTyped'
  <2>1. reader[r].target \in Sessions
    BY <1>3, InHand DEF MockSend, Goto, Aside
  <2>2. PICK b \in Seq(Nat) : /\ results' = [results EXCEPT ![reader[r].target].buf = b]
                              /\ Len(b) <= Capacity
    <3> DEFINE n == reader[r].target
    <3>1. CASE results[n].closed
      BY <1>1, <1>3, <2>1, <3>1 DEF MockSend
    <3>2. CASE ~results[n].closed
      <4>1. /\ Len(results[n].buf) < Capacity
            /\ results' = [results EXCEPT ![n].buf = Append(results[n].buf, produced[n])]
        BY <1>1, <1>3, <2>1, <3>2 DEF MockSend
      <4>2. /\ Append(results[n].buf, produced[n]) \in Seq(Nat)
            /\ Len(Append(results[n].buf, produced[n])) <= Capacity
        BY <1>1, <2>1, <4>1, Joins
      <4> QED
        BY <4>1, <4>2
    <3> QED
      BY <3>1, <3>2
  <2>3. errs' = errs
    BY <1>3 DEF MockSend
  <2>4. Rebuffers(results, results', reader[r].target, b)
    BY <2>2 DEF Rebuffers
  <2>5. results' \in [Sessions -> Chan] /\ \A m \in Sessions : Len(results'[m].buf) <= Capacity
    BY ZenonT(30), <1>1, <2>1, <2>2, <2>3, <2>4, ChannelChanges
  <2> QED
    BY <1>1, <2>3, <2>5 DEF ChannelsTyped
<1>4. ASSUME NEW r \in Readers, CloseResults(r)
      PROVE  ChannelsTyped'
  <2>1. reader[r].target \in Sessions
    BY <1>4, InHand DEF CloseResults, Goto, Aside
  <2> QED
    BY <1>1, <1>4, <2>1, ChannelCloses DEF CloseResults, ChannelsTyped
<1>5. ASSUME NEW r \in Readers, CloseErrs(r)
      PROVE  ChannelsTyped'
  <2>1. reader[r].target \in Sessions
    BY <1>5, InHand DEF CloseErrs, Goto, Aside
  <2> QED
    BY <1>1, <1>5, <2>1, ChannelCloses DEF CloseErrs, ChannelsTyped
<1>6. ASSUME NEW n \in Sessions, TakeResult(n)
      PROVE  ChannelsTyped'
  <2>1. PICK b \in Seq(Nat) : results' = [results EXCEPT ![n].buf = b] /\ Len(b) <= Capacity
    <3>1. Tail(results[n].buf) \in Seq(Nat) /\ Len(Tail(results[n].buf)) <= Capacity
      BY <1>1, <1>6, Leaves DEF TakeResult
    <3>2. results' = [results EXCEPT ![n].buf = Tail(results[n].buf)]
      BY <1>1, <1>6 DEF TakeResult
    <3> QED
      BY <3>1, <3>2
  <2>2. Rebuffers(results, results', n, b)
    BY <2>1 DEF Rebuffers
  <2>3. results' \in [Sessions -> Chan] /\ \A m \in Sessions : Len(results'[m].buf) <= Capacity
    BY <1>1, <2>1, <2>2, ChannelChanges
  <2>4. errs' = errs
    BY <1>6 DEF TakeResult
  <2> QED
    BY <1>1, <2>3, <2>4 DEF ChannelsTyped
<1>7. ASSUME NEW n \in Sessions, TakeError(n)
      PROVE  ChannelsTyped'
  <2>1. PICK b \in Seq(Nat) : errs' = [errs EXCEPT ![n].buf = b] /\ Len(b) <= ErrCapacity
    <3>1. Tail(errs[n].buf) \in Seq(Nat) /\ Len(Tail(errs[n].buf)) <= ErrCapacity
      BY <1>1, <1>7, Leaves DEF TakeError
    <3>2. errs' = [errs EXCEPT ![n].buf = Tail(errs[n].buf)]
      BY <1>1, <1>7 DEF TakeError
    <3> QED
      BY <3>1, <3>2
  <2>2. Rebuffers(errs, errs', n, b)
    BY <2>1 DEF Rebuffers
  <2>3. errs' \in [Sessions -> Chan] /\ \A m \in Sessions : Len(errs'[m].buf) <= ErrCapacity
    BY <1>1, <2>1, <2>2, ChannelChanges
  <2>4. results' = results
    BY <1>7 DEF TakeError
  <2> QED
    BY <1>1, <2>3, <2>4 DEF ChannelsTyped
<1>8. ASSUME NEW n \in Sessions, AppendResult(n)
      PROVE  ChannelsTyped'
  <2>1. PICK b \in Seq(Nat) : results' = [results EXCEPT ![n].buf = b] /\ Len(b) <= Capacity
    <3> DEFINE kept == results[n].closed \/ Len(results[n].buf) >= Capacity
    <3>1. CASE kept
      BY <1>1, <1>8, <3>1 DEF AppendResult, Offer
    <3>2. CASE ~kept
      <4>1. results' = [results EXCEPT ![n].buf = Append(results[n].buf, produced[n])]
        BY <1>1, <1>8, <3>2 DEF AppendResult, Offer
      <4>2. /\ Append(results[n].buf, produced[n]) \in Seq(Nat)
            /\ Len(Append(results[n].buf, produced[n])) <= Capacity
        BY <1>1, <3>2, Joins
      <4> QED
        BY <4>1, <4>2
    <3> QED
      BY <3>1, <3>2
  <2>2. errs' = errs
    BY <1>8 DEF AppendResult
  <2>3. Rebuffers(results, results', n, b)
    BY <2>1 DEF Rebuffers
  <2>4. results' \in [Sessions -> Chan] /\ \A m \in Sessions : Len(results'[m].buf) <= Capacity
    BY <1>1, <2>1, <2>2, <2>3, ChannelChanges
  <2> QED
    BY <1>1, <2>2, <2>4 DEF ChannelsTyped
<1>9. ASSUME NEW n \in Sessions, AppendError(n)
      PROVE  ChannelsTyped'
  <2>1. PICK b \in Seq(Nat) : errs' = [errs EXCEPT ![n].buf = b] /\ Len(b) <= ErrCapacity
    <3> DEFINE kept == errs[n].closed \/ Len(errs[n].buf) >= ErrCapacity
    <3>1. CASE kept
      BY <1>1, <1>9, <3>1 DEF AppendError, Offer
    <3>2. CASE ~kept
      <4>1. errs' = [errs EXCEPT ![n].buf = Append(errs[n].buf, 0)]
        BY <1>1, <1>9, <3>2 DEF AppendError, Offer
      <4>2. /\ Append(errs[n].buf, 0) \in Seq(Nat)
            /\ Len(Append(errs[n].buf, 0)) <= ErrCapacity
        BY <1>1, <3>2, Joins
      <4> QED
        BY <4>1, <4>2
    <3> QED
      BY <3>1, <3>2
  <2>2. results' = results
    BY <1>9 DEF AppendError
  <2>3. Rebuffers(errs, errs', n, b)
    BY <2>1 DEF Rebuffers
  <2>4. errs' \in [Sessions -> Chan] /\ \A m \in Sessions : Len(errs'[m].buf) <= ErrCapacity
    BY <1>1, <2>1, <2>2, <2>3, ChannelChanges
  <2> QED
    BY <1>1, <2>2, <2>4 DEF ChannelsTyped
<1>10. ASSUME NEW r \in Readers, Silent(r) \/ SegmentEnd(r) \/ Speech(r) \/ Leave(r) \/ ReaderStep(r),
              ~MockSend(r), ~CloseResults(r), ~CloseErrs(r)
       PROVE  UNCHANGED <<results, errs>>
  BY <1>10 DEF ReaderStep, channels, Silent, SegmentEnd, Speech, Leave, EnsureOld, EnsureNew,
               EnsureFails, StopActive, Reply, CloseAsr, MockWrite, MockClose, Write, Start,
               MarkStarted, SendAudio, CloudClose, StopClient, Shutdown, MarkClosed, TakeChannels
<1>11. ASSUME NEW n \in Sessions, ForwarderStep(n) \/ OnResult(n) \/ OnTaskFailed(n),
              ~TakeResult(n), ~TakeError(n)
       PROVE  UNCHANGED <<results, errs>>
  BY <1>11 DEF ForwarderStep, channels, EvalResults, EvalErrs, ChannelClosed, Number, WriteTtfb,
               WriteResult, OnResult, OnTaskFailed, CallBack
<1>12. CASE Break
  BY <1>2, <1>12 DEF Break, channels
<1> QED
  BY <1>2, <1>3, <1>4, <1>5, <1>6, <1>7, <1>8, <1>9, <1>10, <1>11, <1>12
     DEF Next, ReaderStep, ForwarderStep

LEMMA ForwardersStep ==
    ASSUME TypeOK, SessionsKept, Next
    PROVE  ForwardersTyped'
<1>1. /\ forwarder \in [Sessions -> Forwarder] /\ wire \in Seq(Events)
      /\ \A n \in Sessions : forwarder[n] \in Forwarder /\ recognizer[n].open \in BOOLEAN
      /\ \A n \in Sessions : results[n].buf \in Seq(Nat)
      /\ asr.index + 1 \in Nat
  BY TypeParts DEF ForwardersTyped, RecognizersTyped, ChannelsTyped, Recognizer, Chan, Processor
<1>2. CASE UNCHANGED <<forwarder, wire>>
  BY <1>1, <1>2 DEF ForwardersTyped
<1>3. ASSUME NEW r \in Readers, EnsureNew(r)
      PROVE  ForwardersTyped'
  <2>1. PICK n \in Sessions : forwarder' = [forwarder EXCEPT ![n].pc = "evalResults"]
    BY <1>3 DEF EnsureNew
  <2>2. wire' = wire
    BY <1>3 DEF EnsureNew, output
  <2> QED
    BY <1>1, <2>1, <2>2 DEF ForwardersTyped, Forwarder, ForwarderPC
<1>4. ASSUME NEW n \in Sessions, EvalResults(n) \/ EvalErrs(n)
      PROVE  ForwardersTyped'
  <2>1. PICK b \in BOOLEAN :
            \/ forwarder' = [forwarder EXCEPT ![n].pc = "evalErrs", ![n].results = b]
            \/ forwarder' = [forwarder EXCEPT ![n].pc = "select", ![n].errs = b]
    BY <1>1, <1>4 DEF EvalResults, EvalErrs
  <2>2. wire' = wire
    BY <1>4 DEF EvalResults, EvalErrs, output
  <2>3. /\ [forwarder[n] EXCEPT !.pc = "evalErrs", !.results = b] \in Forwarder
        /\ [forwarder[n] EXCEPT !.pc = "select", !.errs = b] \in Forwarder
    BY <1>1 DEF Forwarder, ForwarderPC
  <2> QED
    BY <1>1, <2>1, <2>2, <2>3 DEF ForwardersTyped
<1>5. ASSUME NEW n \in Sessions, TakeResult(n)
      PROVE  ForwardersTyped'
  <2>1. Head(results[n].buf) \in Nat
    BY <1>1, <1>5, Leaves DEF TakeResult
  <2>2. [Idle EXCEPT !.pc = "number", !.item = Head(results[n].buf)] \in Forwarder
    BY <2>1 DEF Idle, Forwarder, ForwarderPC
  <2> QED
    BY <1>1, <1>5, <2>2 DEF TakeResult, output, ForwardersTyped
<1>6. \A pc \in ForwarderPC : [Idle EXCEPT !.pc = pc] \in Forwarder
  BY DEF Idle, Forwarder
<1>7. ASSUME NEW n \in Sessions, TakeError(n) \/ ChannelClosed(n)
      PROVE  ForwardersTyped'
  BY <1>1, <1>6, <1>7 DEF TakeError, ChannelClosed, EndRound, output, ForwardersTyped, ForwarderPC
<1>8. ASSUME NEW n \in Sessions, Number(n)
      PROVE  ForwardersTyped'
  <2>1. PICK pc \in ForwarderPC :
            forwarder' = [forwarder EXCEPT ![n].pc = pc, ![n].index = asr.index + 1]
    BY <1>8 DEF Number, ForwarderPC
  <2>2. [forwarder[n] EXCEPT !.pc = pc, !.index = asr.index + 1] \in Forwarder
    BY <1>1 DEF Forwarder
  <2>3. wire' = wire
    BY <1>8 DEF Number, output
  <2> QED
    BY <1>1, <2>1, <2>2, <2>3 DEF ForwardersTyped
<1>9. ASSUME NEW n \in Sessions, WriteTtfb(n) \/ WriteResult(n)
      PROVE  ForwardersTyped'
  <2>1. forwarder' \in [Sessions -> Forwarder]
    <3>1. CASE forwarder' = [forwarder EXCEPT ![n].pc = "write"]
      BY <1>1, <3>1 DEF Forwarder, ForwarderPC
    <3>2. CASE forwarder' = [forwarder EXCEPT ![n] = [Idle EXCEPT !.pc = "evalResults"]]
      BY <1>1, <1>6, <3>2 DEF ForwarderPC
    <3> QED
      BY <1>9, <3>1, <3>2 DEF WriteTtfb, WriteResult, Forward, EndRound
  <2>2. EventOf(n, "ttfb") \in Events /\ EventOf(n, "result") \in Events
    BY <1>1 DEF EventOf, Events, Forwarder
  <2>3. wire' \in Seq(Events)
    <3>1. \/ wire' = wire
          \/ wire' = Append(wire, EventOf(n, "ttfb")) \/ wire' = Append(wire, EventOf(n, "result"))
      BY <1>9 DEF WriteTtfb, WriteResult, Written, WriteFails
    <3>2. \A e \in Events : Append(wire, e) \in Seq(Events)
      BY <1>1
    <3> QED
      BY <1>1, <2>2, <3>1, <3>2
  <2> QED
    BY <2>1, <2>3 DEF ForwardersTyped
<1>10. ASSUME NEW r \in Readers, Silent(r) \/ SegmentEnd(r) \/ Speech(r) \/ Leave(r) \/ ReaderStep(r),
              ~EnsureNew(r)
       PROVE  UNCHANGED <<forwarder, wire>>
  BY <1>10 DEF ReaderStep, output, Silent, SegmentEnd, Speech, Leave, EnsureOld, EnsureFails,
               StopActive, Reply, CloseAsr, MockWrite, MockSend, MockClose, Write, Start,
               MarkStarted, SendAudio, CloudClose, StopClient, Shutdown, MarkClosed, TakeChannels,
               CloseResults, CloseErrs
<1>11. ASSUME NEW n \in Sessions, OnResult(n) \/ OnTaskFailed(n) \/ AppendResult(n) \/ AppendError(n)
       PROVE  UNCHANGED <<forwarder, wire>>
  BY <1>11 DEF output, OnResult, OnTaskFailed, CallBack, AppendResult, AppendError
<1>12. CASE Break
  BY <1>2, <1>12 DEF Break
<1> QED
  BY <1>2, <1>3, <1>4, <1>5, <1>7, <1>8, <1>9, <1>10, <1>11, <1>12
     DEF Next, ReaderStep, ForwarderStep

LEMMA CallbacksStep ==
    ASSUME TypeOK, SessionsKept, Next
    PROVE  CallbacksTyped'
<1>1. /\ callback \in [Sessions -> {"idle", "sendResult", "sendError"}]
      /\ produced \in [Sessions -> Nat] /\ broken \in BOOLEAN /\ panicked \in BOOLEAN
      /\ \A n \in Sessions : results[n].closed \in BOOLEAN /\ errs[n].closed \in BOOLEAN
  BY TypeParts DEF CallbacksTyped, ChannelsTyped, Chan
<1>2. CASE UNCHANGED <<callback, produced, broken, panicked>>
  BY <1>1, <1>2 DEF CallbacksTyped
<1>3. ASSUME NEW r \in Readers, MockWrite(r)
      PROVE  CallbacksTyped'
  <2>1. reader[r].target \in Sessions
    BY <1>3, InHand DEF MockWrite, Goto, Aside
  <2>2. PICK p \in Nat : produced' = [produced EXCEPT ![reader[r].target] = p]
    <3>1. produced[reader[r].target] + 1 \in Nat /\ produced[reader[r].target] \in Nat
      BY <1>1, <2>1
    <3> QED
      BY <1>1, <1>3, <2>1, <3>1 DEF MockWrite
  <2>3. UNCHANGED <<callback, broken, panicked>>
    BY <1>3 DEF MockWrite, output
  <2> QED
    BY <1>1, <2>2, <2>3 DEF CallbacksTyped
<1>4. ASSUME NEW r \in Readers, MockSend(r)
      PROVE  CallbacksTyped'
  <2>1. reader[r].target \in Sessions
    BY <1>4, InHand DEF MockSend, Goto, Aside
  <2> QED
    BY <1>1, <1>4, <2>1 DEF MockSend, output, CallbacksTyped
<1>5. ASSUME NEW n \in Sessions, OnResult(n) \/ OnTaskFailed(n)
      PROVE  CallbacksTyped'
  <2>1. callback' \in [Sessions -> {"idle", "sendResult", "sendError"}]
    <3>1. PICK c \in {"idle", "sendResult", "sendError"} : callback' = [callback EXCEPT ![n] = c]
      BY <1>5 DEF OnResult, OnTaskFailed, CallBack
    <3> QED
      BY <1>1, <3>1
  <2>2. produced' \in [Sessions -> Nat]
    <3>1. produced' = [produced EXCEPT ![n] = @ + 1] \/ produced' = produced
      BY <1>5 DEF OnResult, OnTaskFailed
    <3> QED
      BY <1>1, <3>1
  <2>3. UNCHANGED <<broken, panicked>>
    BY <1>5 DEF OnResult, OnTaskFailed, CallBack, output
  <2> QED
    BY <1>1, <2>1, <2>2, <2>3 DEF CallbacksTyped
<1>6. ASSUME NEW n \in Sessions, AppendResult(n) \/ AppendError(n)
      PROVE  CallbacksTyped'
  BY <1>1, <1>6 DEF AppendResult, AppendError, Offer, output, CallbacksTyped
<1>7. CASE Break
  BY <1>1, <1>7 DEF Break, CallbacksTyped
<1>8. ASSUME NEW r \in Readers, Silent(r) \/ SegmentEnd(r) \/ Speech(r) \/ Leave(r) \/ ReaderStep(r),
             ~MockWrite(r), ~MockSend(r)
      PROVE  UNCHANGED <<callback, produced, broken, panicked>>
  BY <1>8 DEF ReaderStep, output, Silent, SegmentEnd, Speech, Leave, EnsureOld, EnsureNew,
              EnsureFails, StopActive, Reply, CloseAsr, MockClose, Write, Start, MarkStarted,
              SendAudio, CloudClose, StopClient, Shutdown, MarkClosed, TakeChannels, CloseResults,
              CloseErrs
<1>9. ASSUME NEW n \in Sessions, ForwarderStep(n)
      PROVE  UNCHANGED <<callback, produced, broken, panicked>>
  BY <1>9 DEF ForwarderStep, output, EvalResults, EvalErrs, TakeResult, TakeError, ChannelClosed,
              Number, WriteTtfb, WriteResult
<1> QED
  BY <1>2, <1>3, <1>4, <1>5, <1>6, <1>7, <1>8, <1>9 DEF Next, ReaderStep

LEMMA TypeNext ==
    ASSUME TypeOK, SessionsKept, Next
    PROVE  TypeOK'
<1>1. CASE \E r \in Readers : Silent(r) \/ SegmentEnd(r) \/ Speech(r) \/ Leave(r) \/ ReaderStep(r)
  BY <1>1, ReadersStep, RecognizersStep, ChannelsStep, ForwardersStep, CallbacksStep, TypePartsNext
<1>2. CASE reader' = reader
  <2>1. ReadersTyped'
    BY <1>2, TypeParts DEF ReadersTyped
  <2> QED
    BY <2>1, RecognizersStep, ChannelsStep, ForwardersStep, CallbacksStep, TypePartsNext
<1>3. ASSUME NEW n \in Sessions, ForwarderStep(n) \/ OnResult(n) \/ OnTaskFailed(n)
                                 \/ AppendResult(n) \/ AppendError(n)
      PROVE  reader' = reader
  BY <1>3 DEF ForwarderStep, EvalResults, EvalErrs, TakeResult, TakeError, ChannelClosed,
              Number, WriteTtfb, WriteResult, OnResult, OnTaskFailed, CallBack, AppendResult,
              AppendError
<1>4. Break => reader' = reader
  BY DEF Break
<1> QED
  BY <1>1, <1>2, <1>3, <1>4 DEF Next

-----------------------------------------------------------------------------
(* Sessions, action by action *)

\* Reader r moves, and neither closes a session nor sends to one.
Walks(r) ==
    /\ \A s \in Readers \ {r} : reader'[s] = reader[s]
    /\ reader[r].pc \notin ClosingPC \cup {"send"} /\ reader'[r].pc \notin ClosingPC \cup {"send"}
    /\ ReaderPlaced(r)'
    /\ reader'[r].pc \in Using =>
           reader'[r].target = asr.current
           \/ (reader[r].pc \in Using /\ reader'[r].target = reader[r].target)
    /\ ClosesStream /\ reader'[r].leaving /\ reader'[r].pc # "closeAsr" =>
           reader[r].leaving /\ reader[r].pc # "closeAsr"

LEMMA WalkStep ==
    ASSUME TypeOK, SessionsKept, NEW r \in Readers,
           \/ Silent(r) \/ SegmentEnd(r) \/ Speech(r) \/ Leave(r) \/ EnsureOld(r) \/ EnsureFails(r)
           \/ Reply(r) \/ Write(r) \/ Start(r) \/ MarkStarted(r) \/ SendAudio(r)
    PROVE  SessionsKept'
<1>1. asr \in Processor /\ ReadersTyped /\ recognizer \in [Sessions -> Recognizer]
  BY TypeParts DEF RecognizersTyped
<1>2. asr'.current = asr.current /\ asr'.created = asr.created /\ (asr'.failed => asr.current = 0)
  <2>1. asr.failed => asr.current = 0
    BY DEF SessionsKept, ProcessorKept
  <2> QED
    BY <1>1, <2>1 DEF Silent, SegmentEnd, Speech, Leave, EnsureOld, EnsureFails, Reply, Write,
                      Start, MarkStarted, SendAudio, Processor
<1>3. \A m \in Sessions : SameFlags(m)
  <2>1. results' = results /\ errs' = errs /\ callback' = callback
    BY DEF Silent, SegmentEnd, Speech, Leave, EnsureOld, EnsureFails, Reply, Write, Start,
           MarkStarted, SendAudio, channels
  <2>2. CASE recognizer' = recognizer
    BY <2>1, <2>2 DEF SameFlags
  <2>3. CASE Start(r) /\ recognizer' # recognizer
    <3>1. Provider = "aliyun"
      BY <2>3 DEF Start, Goto, SessionsKept, ReaderPlaced, CloudPC
    <3>2. recognizer' = [recognizer EXCEPT ![reader[r].target].client = "running"]
      BY <2>3 DEF Start
    <3> QED
      BY <1>1, <2>1, <3>1, <3>2 DEF SameFlags, Recognizer
  <2>4. CASE MarkStarted(r)
    BY <1>1, <2>1, <2>4 DEF SameFlags, MarkStarted, Recognizer
  <2> QED
    BY <2>2, <2>3, <2>4 DEF Silent, SegmentEnd, Speech, Leave, EnsureOld, EnsureFails, Reply, Write,
                            SendAudio
<1>4. \A m \in Sessions : recognizer'[m].client = "running" =>
          recognizer[m].client = "running" \/ (m = reader[r].target /\ reader[r].pc \in Using)
  <2>1. CASE recognizer' = recognizer
    BY <2>1
  <2>2. CASE Start(r)
    BY <1>1, <2>2 DEF Start, Goto, Using, Recognizer
  <2>3. CASE MarkStarted(r)
    BY <1>1, <2>3 DEF MarkStarted, Recognizer
  <2> QED
    BY <2>1, <2>2, <2>3 DEF Silent, SegmentEnd, Speech, Leave, EnsureOld, EnsureFails, Reply, Write,
                            SendAudio
<1>5. panicked' = panicked
  BY DEF Silent, SegmentEnd, Speech, Leave, EnsureOld, EnsureFails, Reply, Write, Start,
         MarkStarted, SendAudio
<1>6. ReaderPlaced(r) /\ reader[r].target \in Sessions \cup {0} /\ asr.current \in 0..asr.created
      /\ asr.created \in Nat
  <2>1. ReaderPlaced(r) /\ asr.current \in 0..asr.created
    BY DEF SessionsKept, ProcessorKept
  <2>2. reader[r].target \in Sessions \cup {0}
    BY DEF TypeOK
  <2>3. asr.created \in Nat
    <3>1. asr.created \in Sessions \cup {0}
      BY <1>1 DEF Processor
    <3>2. \A n \in Sessions : n \in Nat
      BY PipelineAssumption
    <3> QED
      BY <3>1, <3>2
  <2> QED
    BY <2>1, <2>2, <2>3
<1> USE DEF ReaderPC, ClosingPC, Aside, Using, CloudPC
<1>7. CASE Silent(r) \/ SegmentEnd(r) \/ Speech(r)
  <2>1. PICK to \in {"ready", "stop", "ensure"} : Frame(r, to)
    BY <1>7 DEF Silent, SegmentEnd, Speech
  <2>2. Moves(r, "ready", to, reader[r].target)
    BY <1>1, <2>1, FrameMoves
  <2>3. Walks(r)
    BY <1>2, <1>6, <2>2 DEF Walks, Moves, ReaderPlaced
  <2> QED
    BY <1>2, <1>3, <1>4, <1>5, <2>3, WalksOn DEF Walks
<1>8. CASE Leave(r) \/ (Reply(r) /\ broken)
  <2>1. reader[r].pc \in {"ready", "reply"}
    BY <1>8 DEF Leave, Reply
  <2>2. PICK to \in ReaderPC :
            /\ to = IF ClosesStream THEN "closeAsr" ELSE "gone"
            /\ reader' = [reader EXCEPT ![r].leaving = TRUE, ![r].pc = to]
    BY <1>8 DEF Leave, Reply
  <2>3. /\ reader'[r].pc = to /\ reader'[r].target = reader[r].target /\ reader'[r].leaving
        /\ \A s \in Readers \ {r} : reader'[s] = reader[s]
    BY <1>1, <2>2, LeaveMoves
  <2>4. Walks(r)
    BY <1>2, <1>6, <2>1, <2>2, <2>3 DEF Walks, ReaderPlaced
  <2> QED
    BY <1>2, <1>3, <1>4, <1>5, <2>4, WalksOn DEF Walks
<1>9. CASE EnsureOld(r)
  <2>1. PICK to \in {"ready", "write"} :
            /\ to = IF asr.failed THEN "ready" ELSE "write"
            /\ reader' = [reader EXCEPT ![r].target = asr.current, ![r].pc = to]
    BY <1>9 DEF EnsureOld
  <2>2. Moves(r, "ensure", to, asr.current)
    BY <1>1, <1>9, <2>1, TakesMoves DEF EnsureOld, Processor
  <2>3. asr.failed <=> asr.current = 0
    BY <1>9 DEF EnsureOld, SessionsKept, ProcessorKept
  <2>4. asr.current # 0 => asr.current \in 1..asr'.created
    BY <1>2, <1>6
  <2>5. Walks(r)
    BY <1>2, <1>6, <2>1, <2>2, <2>3, <2>4 DEF Walks, Moves, ReaderPlaced
  <2> QED
    BY <1>2, <1>3, <1>4, <1>5, <2>5, WalksOn DEF Walks
<1>10. CASE EnsureFails(r) \/ Write(r) \/ Start(r) \/ MarkStarted(r) \/ SendAudio(r)
            \/ (Reply(r) /\ ~broken)
  <2>1. PICK from, to \in ReaderPC :
            /\ Goto(r, from, to)
            /\ \/ from \in {"ensure", "reply"} /\ to \in {"ready", "reply"}
               \/ /\ from \in {"write", "start", "markStarted", "sendAudio"}
                  /\ to \in {"ready", "reply", "start", "markStarted", "sendAudio"}
                  /\ Provider = "aliyun"
    BY <1>6, <1>10 DEF EnsureFails, Write, Start, MarkStarted, SendAudio, Reply, ReaderPlaced, Goto
  <2>2. Moves(r, from, to, IF to \in {"ready", "reply", "gone"} THEN 0 ELSE reader[r].target)
    BY <1>1, <2>1, GotoMoves
  <2>3. Walks(r)
    BY <1>2, <1>6, <2>1, <2>2 DEF Walks, Moves, ReaderPlaced
  <2> QED
    BY <1>2, <1>3, <1>4, <1>5, <2>3, WalksOn DEF Walks
<1> QED
  BY <1>7, <1>8, <1>9, <1>10

LEMMA ElsewhereStep ==
    ASSUME TypeOK, SessionsKept, ~panicked,
           \/ \E n \in Sessions : \/ ForwarderStep(n) \/ OnResult(n) \/ OnTaskFailed(n)
                                  \/ AppendResult(n) \/ AppendError(n)
           \/ Break
    PROVE  SessionsKept'
<1>1. /\ asr \in Processor /\ recognizer \in [Sessions -> Recognizer]
      /\ results \in [Sessions -> Chan] /\ errs \in [Sessions -> Chan]
  BY TypeParts DEF RecognizersTyped, ChannelsTyped
<1>2. Provider = "mock" => \A n \in Sessions : recognizer[n].client = "new" /\ callback[n] = "idle"
  BY DEF SessionsKept, SessionKept
<1>3. ASSUME NEW n \in Sessions, ForwarderStep(n), ~TakeResult(n), ~TakeError(n)
      PROVE  SessionsKept'
  <2>1. /\ reader' = reader /\ recognizer' = recognizer /\ results' = results /\ errs' = errs
        /\ callback' = callback /\ panicked' = panicked
    BY <1>3 DEF ForwarderStep, EvalResults, EvalErrs, ChannelClosed, Number, WriteTtfb, WriteResult,
                channels
  <2>2. asr'.current = asr.current /\ asr'.created = asr.created /\ asr'.failed = asr.failed
    BY <1>1, <1>3 DEF ForwarderStep, EvalResults, EvalErrs, ChannelClosed, Number, WriteTtfb,
                      WriteResult, Processor
  <2> QED
    BY <2>1, <2>2, Elsewhere DEF SameFlags
<1>4. ASSUME NEW n \in Sessions, TakeResult(n) \/ TakeError(n)
      PROVE  SessionsKept'
  <2>1. /\ reader' = reader /\ recognizer' = recognizer /\ asr' = asr
        /\ callback' = callback /\ panicked' = panicked
    BY <1>4 DEF TakeResult, TakeError
  <2>2. \A m \in Sessions : results'[m].closed = results[m].closed /\ errs'[m].closed = errs[m].closed
    <3>1. CASE TakeResult(n)
      BY <1>1, <3>1 DEF TakeResult, Chan
    <3>2. CASE TakeError(n)
      BY <1>1, <3>2 DEF TakeError, Chan
    <3> QED
      BY <1>4, <3>1, <3>2
  <2> QED
    BY <2>1, <2>2, Elsewhere DEF SameFlags
<1>5. ASSUME NEW n \in Sessions, OnResult(n)
      PROVE  SessionsKept'
  <2>1. Provider # "mock"
    BY <1>2, <1>5 DEF OnResult, CallBack
  <2>2. UNCHANGED <<reader, asr, recognizer, results, errs, panicked>>
    BY <1>5 DEF OnResult, CallBack, channels
  <2> QED
    BY <2>1, <2>2, Elsewhere DEF SameFlags
<1>6. ASSUME NEW n \in Sessions, OnTaskFailed(n)
      PROVE  SessionsKept'
  <2>1. Provider # "mock"
    BY <1>2, <1>6 DEF OnTaskFailed, CallBack
  <2>2. UNCHANGED <<reader, asr, results, errs, panicked>>
    BY <1>6 DEF OnTaskFailed, CallBack, channels
  <2>3. \A m \in Sessions :
            /\ recognizer'[m].closed = recognizer[m].closed
            /\ recognizer'[m].closing = recognizer[m].closing
            /\ recognizer'[m].holder = recognizer[m].holder
            /\ recognizer'[m].client = "running" => recognizer[m].client = "running"
    BY <1>1, <1>6 DEF OnTaskFailed, Recognizer
  <2> QED
    BY <2>1, <2>2, <2>3, Elsewhere DEF SameFlags
<1>7. ASSUME NEW n \in Sessions, AppendResult(n) \/ AppendError(n)
      PROVE  SessionsKept'
  <2>1. Provider # "mock"
    BY <1>2, <1>7 DEF AppendResult, AppendError
  <2>2. UNCHANGED <<reader, asr, recognizer>>
    BY <1>7 DEF AppendResult, AppendError
  <2>3. \A m \in Sessions : results'[m].closed = results[m].closed
    <3>1. CASE results' = results
      BY <3>1
    <3>2. ASSUME NEW b, results' = [results EXCEPT ![n].buf = b]
          PROVE  \A m \in Sessions : results'[m].closed = results[m].closed
      BY <1>1, <3>2 DEF Chan
    <3> QED
      BY <1>7, <3>1, <3>2 DEF AppendResult, AppendError, Offer
  <2>4. \A m \in Sessions : errs'[m].closed = errs[m].closed
    <3>1. CASE errs' = errs
      BY <3>1
    <3>2. ASSUME NEW b, errs' = [errs EXCEPT ![n].buf = b]
          PROVE  \A m \in Sessions : errs'[m].closed = errs[m].closed
      BY <1>1, <3>2 DEF Chan
    <3> QED
      BY <1>7, <3>1, <3>2 DEF AppendResult, AppendError, Offer
  <2> QED
    BY <2>1, <2>2, <2>3, <2>4, Elsewhere DEF SameFlags
<1>8. CASE Break
  <2>1. UNCHANGED <<reader, asr, recognizer, results, errs, callback, panicked>>
    BY <1>8 DEF Break, channels
  <2> QED
    BY <2>1, Elsewhere DEF SameFlags
<1> QED
  BY <1>3, <1>4, <1>5, <1>6, <1>7, <1>8

\* Reader r does something to the session it has in hand.
LEMMA WorksOn ==
    ASSUME TypeOK, SessionsKept, NEW r \in Readers, NEW n \in Sessions, reader[r].target = n,
           \A s \in Readers \ {r} : reader'[s] = reader[s],
           \A s \in Readers \ {r} : reader[s].target = n => ReaderKept(s)',
           ReaderPlaced(r)', ReaderKept(r)', SessionKept(n)',
           reader'[r].target \in {0, n},
           reader'[r].pc \in ClosingPC => reader[r].pc \in ClosingPC,
           asr' = asr,
           \A m \in Sessions \ {n} : SameFlags(m) /\ recognizer'[m].client = recognizer[m].client,
           Provider = "mock" => ~panicked',
           reader'[r].pc \in Using => reader[r].pc \in Using /\ reader'[r].target = n,
           reader'[r].leaving = reader[r].leaving, reader'[r].pc # "closeAsr",
           ClosesStream =>
               /\ reader'[r].pc = "markClosed" => recognizer'[n].client # "running"
               /\ recognizer'[n].closed => recognizer'[n].client # "running"
    PROVE  SessionsKept'
<1> USE DEF SessionsKept
<1>0. /\ \A s \in Readers : reader[s].target \in Sessions \cup {0}
      /\ \A m \in Sessions : recognizer[m].holder \in Readers \cup {None}
      /\ 0 \notin Sessions
  BY PipelineAssumption DEF TypeOK
<1>1. ASSUME NEW s \in Readers PROVE ReaderPlaced(s)' /\ ReaderKept(s)'
  <2>1. ReaderPlaced(s)'
    BY DEF ReaderPlaced
  <2>2. CASE s # r /\ reader[s].target # n
    <3>1. reader[s].pc \in ClosingPC \cup {"send"} => reader[s].target \in Sessions
      BY <1>0 DEF ReaderPlaced, Aside, ClosingPC
    <3> QED
      BY <2>1, <2>2, <3>1, StaysKept
  <2>3. CASE s = r \/ reader[s].target = n
    BY <2>1, <2>3
  <2> QED
    BY <2>2, <2>3
<1>2. ASSUME NEW m \in Sessions PROVE SessionKept(m)'
  <2>1. CASE m # n
    <3>1. \A s \in Readers : Closes(s, m)' <=> Closes(s, m)
      BY <1>0, <2>1 DEF Closes
    <3>2. recognizer[m].holder # None =>
              reader'[recognizer[m].holder] = reader[recognizer[m].holder]
      BY <1>0, <2>1 DEF SessionKept
    <3> QED
      BY <2>1, <3>1, <3>2 DEF SessionKept, SameFlags
  <2>2. CASE m = n
    BY <2>2
  <2> QED
    BY <2>1, <2>2
<1>3. OneCloser'
  <2>1. \A s \in Readers : reader'[s].pc \in ClosingPC =>
            reader[s].pc \in ClosingPC /\ (reader'[s].target = reader[s].target)
    <3>1. reader'[r].pc \in ClosingPC => reader'[r].target = n
      BY DEF ReaderPlaced, Aside, ClosingPC
    <3> QED
      BY <3>1
  <2> QED
    BY <2>1 DEF OneCloser
<1>4. ProcessorKept'
  BY DEF ProcessorKept
<1>5. OnlyReaderKept'
  <2> SUFFICES ASSUME ClosesStream PROVE OnlyReaderKept'
    BY DEF OnlyReaderKept
  <2>1. \A s \in Readers : s = r
    BY PipelineAssumption
  <2>2. \A m \in Sessions : recognizer'[m].closed => recognizer'[m].client # "running"
    BY DEF OnlyReaderKept, SameFlags
  <2>3. reader'[r].pc \in Using => reader'[r].target = asr'.current
    BY DEF OnlyReaderKept
  <2>4. reader'[r].leaving /\ reader'[r].pc # "closeAsr" => asr'.current = 0
    <3>1. reader[r].pc # "closeAsr"
      BY <1>0 DEF ReaderPlaced, Aside
    <3> QED
      BY <3>1 DEF OnlyReaderKept
  <2>5. reader'[r].pc = "markClosed" => recognizer'[reader'[r].target].client # "running"
    BY DEF ReaderPlaced, Aside
  <2> QED
    BY <2>1, <2>2, <2>3, <2>4, <2>5 DEF OnlyReaderKept
<1> QED
  BY <1>1, <1>2, <1>3, <1>4, <1>5

\* What was created is a session, and a number.
LEMMA Counted ==
    ASSUME TypeOK, SessionsKept
    PROVE  /\ asr.created \in Nat /\ asr.current \in 0..asr.created /\ 0 \notin Sessions
           /\ asr.current \in Sessions \cup {0}
           /\ \A n \in Sessions : n \in Nat
<1>1. asr.created \in Sessions \cup {0} /\ asr.current \in Sessions \cup {0}
  BY DEF TypeOK
<1>2. \A n \in Sessions : n \in Nat /\ n # 0
  BY PipelineAssumption
<1>3. asr.current \in 0..asr.created
  BY DEF SessionsKept, ProcessorKept
<1> QED
  BY <1>1, <1>2, <1>3

\* ensureSessionLocked hands out a session that nothing has touched.
LEMMA EnsureNewStep ==
    ASSUME TypeOK, SessionsKept, NEW r \in Readers, EnsureNew(r)
    PROVE  SessionsKept'
<1> DEFINE n == asr.created + 1
<1>1. /\ n \in Sessions /\ asr.current = 0 /\ ~asr.failed /\ reader[r].pc = "ensure"
      /\ reader' = [reader EXCEPT ![r].target = n, ![r].pc = "write"]
      /\ UNCHANGED <<recognizer, results, errs, callback, panicked>>
  BY DEF EnsureNew, channels
<1>2. asr'.current = n /\ asr'.created = n /\ ~asr'.failed
  <2>1. asr \in Processor
    BY TypeParts DEF RecognizersTyped
  <2> QED
    BY <1>1, <2>1 DEF EnsureNew, Processor
<1>3. Moves(r, "ensure", "write", n)
  <2>1. ReadersTyped /\ "write" \in ReaderPC
    BY TypeParts DEF ReaderPC
  <2> QED
    BY <1>1, <2>1, TakesMoves
<1>4. /\ asr.created \in Nat /\ n \in 1..n /\ n \notin 1..asr.created
      /\ \A m \in 1..asr.created : m \in 1..n
      /\ \A m \in 1..n : m = n \/ m \in 1..asr.created
      /\ 0 \notin Sessions
  BY Counted
<1> HIDE DEF n
<1>5. ASSUME NEW s \in Readers PROVE ReaderPlaced(s)' /\ ReaderKept(s)'
  <2>1. CASE s = r
    BY <1>2, <1>3, <1>4, <2>1
       DEF Moves, ReaderPlaced, ReaderKept, Aside, ClosingPC, CloudPC, SessionsKept
  <2>2. CASE s # r
    <3>1. ReaderPlaced(s) /\ ReaderKept(s) /\ reader'[s] = reader[s]
      BY <1>3, <2>2 DEF SessionsKept, Moves
    <3>2. ReaderPlaced(s)'
      BY <1>2, <1>4, <3>1 DEF ReaderPlaced
    <3>3. reader[s].pc \in ClosingPC => reader[s].target # n
      BY <1>4, <3>1 DEF ReaderPlaced, Aside, ClosingPC
    <3> QED
      BY <1>1, <1>2, <3>1, <3>2, <3>3 DEF ReaderKept
  <2> QED
    BY <2>1, <2>2
<1>6. ASSUME NEW m \in Sessions PROVE SessionKept(m)'
  <2>1. SessionKept(m)
    BY DEF SessionsKept
  <2>2. \A s \in Readers : Closes(s, m)' <=> Closes(s, m)
    BY <1>3 DEF Closes, Moves, ClosingPC
  <2>3. recognizer[m].holder # None =>
            reader'[recognizer[m].holder] = reader[recognizer[m].holder]
    <3>1. recognizer[m].holder \in Readers \cup {None}
      BY DEF TypeOK
    <3> QED
      BY <1>3, <2>1, <3>1 DEF SessionKept, Moves
  <2> QED
    BY <1>1, <1>2, <1>4, <2>1, <2>2, <2>3 DEF SessionKept
<1>7. OneCloser'
  BY <1>3 DEF SessionsKept, OneCloser, Moves, ClosingPC
<1>8. ProcessorKept'
  <2>1. n \in 0..n
    BY <1>4 DEF n
  <2> QED
    BY <1>1, <1>2, <1>4, <2>1 DEF SessionsKept, ProcessorKept
<1>9. OnlyReaderKept'
  <2> SUFFICES ASSUME ClosesStream PROVE OnlyReaderKept'
    BY DEF OnlyReaderKept
  <2>1. \A s \in Readers : s = r
    BY PipelineAssumption
  <2>2. ~reader'[r].leaving /\ reader'[r].target = n /\ reader'[r].pc = "write"
    BY <1>1, <1>3 DEF Moves, SessionsKept, ReaderPlaced, ClosingPC
  <2> QED
    BY <1>1, <1>2, <2>1, <2>2 DEF OnlyReaderKept, SessionsKept
<1> QED
  BY <1>5, <1>6, <1>7, <1>8, <1>9 DEF SessionsKept

\* stopActiveSession and Close: who takes the session away from the processor is the one
\* who closes it.
LEMMA DetachStep ==
    ASSUME TypeOK, SessionsKept, NEW r \in Readers, StopActive(r) \/ CloseAsr(r)
    PROVE  SessionsKept'
<1> DEFINE n  == asr.current
           to == IF n = 0 THEN Home(r) ELSE "close"
<1>1. /\ reader[r].pc \in {"stop", "closeAsr"}
      /\ reader' = [reader EXCEPT ![r].target = n, ![r].pc = to]
      /\ UNCHANGED <<recognizer, results, errs, callback, panicked>>
  BY DEF StopActive, CloseAsr, Detach, channels
<1>2. asr'.current = 0 /\ asr'.created = asr.created /\ (asr'.failed => asr'.current = 0)
  <2>1. asr \in Processor
    BY TypeParts DEF RecognizersTyped
  <2> QED
    BY <2>1 DEF StopActive, CloseAsr, Detach, Processor
<1>3. Moves(r, reader[r].pc, to, n)
  <2>1. ReadersTyped /\ to \in ReaderPC
    BY TypeParts, HomeTyped DEF ReaderPC, ClosingPC
  <2> QED
    BY <1>1, <2>1, Counted, TakesMoves
<1>4. /\ n \in Sessions \cup {0} /\ 0 \notin Sessions /\ n \in 0..asr.created
      /\ n # 0 => n \in 1..asr.created
      /\ 0 \in 0..asr.created /\ 0 \notin 1..asr.created
  BY Counted
<1>5. n # 0 => /\ ~recognizer[n].closed /\ ~recognizer[n].closing
               /\ ~results[n].closed /\ ~errs[n].closed
  BY <1>4 DEF SessionsKept, SessionKept
<1>6. /\ to = "close" <=> n # 0
      /\ n = 0 => to = IF reader[r].leaving THEN "gone" ELSE "ready"
  BY DEF Home
<1> HIDE DEF to
<1>7. ASSUME NEW s \in Readers PROVE ReaderPlaced(s)' /\ ReaderKept(s)'
  <2>1. CASE s = r
    <3>1. ReaderPlaced(r)
      BY DEF SessionsKept
    <3>2. ReaderPlaced(r)'
      BY <1>1, <1>2, <1>3, <1>4, <1>6, <3>1
         DEF Moves, ReaderPlaced, Aside, ClosingPC, CloudPC
    <3>3. ReaderKept(r)'
      BY <1>1, <1>2, <1>3, <1>4, <1>5, <1>6 DEF Moves, ReaderKept, ClosingPC, Stopped
    <3> QED
      BY <2>1, <3>2, <3>3
  <2>2. CASE s # r
    <3>1. ReaderPlaced(s) /\ ReaderKept(s) /\ reader'[s] = reader[s]
      BY <1>3, <2>2 DEF SessionsKept, Moves
    <3>2. ReaderPlaced(s)'
      BY <1>2, <3>1 DEF ReaderPlaced
    <3>3. reader[s].pc \in ClosingPC => reader[s].target # 0
      BY <3>1 DEF ReaderPlaced, Aside, ClosingPC
    <3> QED
      BY <1>1, <1>2, <3>1, <3>2, <3>3 DEF ReaderKept
  <2> QED
    BY <2>1, <2>2
<1>8. ASSUME NEW m \in Sessions PROVE SessionKept(m)'
  <2>1. SessionKept(m)
    BY DEF SessionsKept
  <2>2. \A s \in Readers : Closes(s, m) => Closes(s, m)'
    BY <1>1, <1>3 DEF Closes, Moves, ClosingPC
  <2>3. recognizer[m].holder # None =>
            reader'[recognizer[m].holder] = reader[recognizer[m].holder]
    <3>1. recognizer[m].holder \in Readers \cup {None}
      BY DEF TypeOK
    <3> QED
      BY <1>1, <1>3, <2>1, <3>1 DEF SessionKept, Moves
  <2>4. m = n => Closes(r, m)'
    BY <1>3, <1>4, <1>6 DEF Closes, Moves, ClosingPC
  <2> QED
    BY <1>1, <1>2, <1>4, <2>1, <2>2, <2>3, <2>4 DEF SessionKept
<1>9. OneCloser'
  <2>1. \A s \in Readers \ {r} : reader[s].pc \in ClosingPC => reader[s].target # n
    BY DEF SessionsKept, ReaderKept
  <2> QED
    BY <1>3, <2>1 DEF SessionsKept, OneCloser, Moves
<1>10. ProcessorKept'
  BY <1>1, <1>2, <1>4 DEF SessionsKept, ProcessorKept
<1>11. OnlyReaderKept'
  <2> SUFFICES ASSUME ClosesStream PROVE OnlyReaderKept'
    BY DEF OnlyReaderKept
  <2>1. \A s \in Readers : s = r
    BY PipelineAssumption
  <2>2. reader'[r].pc \in {"ready", "gone", "close"}
    BY <1>3, <1>6 DEF Moves
  <2> QED
    BY <1>1, <1>2, <2>1, <2>2 DEF OnlyReaderKept, SessionsKept, Using
<1> QED
  BY <1>7, <1>8, <1>9, <1>10, <1>11 DEF SessionsKept

\* The mutex of a mock session: who has it is the only one that sends or closes.
LEMMA HolderAlone ==
    ASSUME TypeOK, SessionsKept, Provider = "mock", NEW n \in Sessions,
           NEW s \in Readers, reader[s].target = n, recognizer[n].holder # s
    PROVE  reader[s].pc \notin {"send", "closeResults", "closeErrs"}
<1>1. ReaderKept(s)
  BY DEF SessionsKept
<1> QED
  BY <1>1 DEF ReaderKept, ClosingPC, Stopped

LEMMA MockWriteStep ==
    ASSUME TypeOK, SessionsKept, ~panicked, NEW r \in Readers, MockWrite(r)
    PROVE  SessionsKept'
<1>0. reader[r].pc = "write" /\ reader[r].target \in Sessions
  BY InHand DEF MockWrite, Goto, Aside
<1> PICK n \in Sessions : n = reader[r].target
  BY <1>0
<1> DEFINE to == IF ~recognizer[n].closed THEN "send" ELSE "ready"
           h  == IF ~recognizer[n].closed THEN r ELSE None
<1>1. /\ Provider = "mock" /\ reader[r].pc = "write" /\ recognizer[n].holder = None
      /\ recognizer' = [recognizer EXCEPT ![n].holder = h]
      /\ UNCHANGED <<asr, results, errs, callback, panicked>>
  BY DEF MockWrite, Goto, channels
<1>2. n \in Sessions /\ n # 0
  BY Counted
<1>3. Moves(r, "write", to, IF to \in {"ready", "reply", "gone"} THEN 0 ELSE n)
  <2>1. ReadersTyped /\ to \in ReaderPC /\ Goto(r, "write", to)
    BY TypeParts DEF ReaderPC, MockWrite
  <2> QED
    BY <2>1, GotoMoves
<1>4. /\ \A m \in Sessions \ {n} : recognizer'[m] = recognizer[m]
      /\ recognizer'[n].holder = h
      /\ recognizer'[n].closed = recognizer[n].closed
      /\ recognizer'[n].closing = recognizer[n].closing
      /\ recognizer'[n].client = recognizer[n].client
  <2>1. recognizer \in [Sessions -> Recognizer]
    BY TypeParts DEF RecognizersTyped
  <2> QED
    BY <1>1, <1>2, <2>1 DEF Recognizer
<1>5. ReaderPlaced(r) /\ SessionKept(n)
  BY <1>2 DEF SessionsKept
<1>6. /\ to = "send" <=> ~recognizer[n].closed
      /\ to = "ready" <=> recognizer[n].closed
      /\ ~recognizer[n].closed => h = r
      /\ recognizer[n].closed => h = None
      /\ to \in {"send", "ready"}
  OBVIOUS
<1> HIDE DEF to, h
<1>7. \A s \in Readers \ {r} : reader[s].target = n => ReaderKept(s)'
  <2> SUFFICES ASSUME NEW s \in Readers, s # r, reader[s].target = n PROVE ReaderKept(s)'
    OBVIOUS
  <2>1. ReaderKept(s) /\ reader'[s] = reader[s]
    BY <1>3 DEF SessionsKept, Moves
  <2>2. reader[s].pc \notin {"send", "closeResults", "closeErrs"}
    <3>1. recognizer[n].holder # s
      BY <1>1, PipelineAssumption
    <3> QED
      BY <1>1, <1>2, <3>1, HolderAlone
  <2>3. reader[s].pc # "takeChannels"
    BY <1>1 DEF SessionsKept, ReaderPlaced, CloudPC
  <2> QED
    BY <1>1, <1>4, <2>1, <2>2, <2>3 DEF ReaderKept, Stopped
<1>8. ReaderPlaced(r)'
  BY <1>1, <1>2, <1>3, <1>5, <1>6 DEF Moves, ReaderPlaced, Aside, ClosingPC, CloudPC
<1>9. ReaderKept(r)'
  BY <1>3, <1>4, <1>6 DEF Moves, ReaderKept, ClosingPC
<1>10. SessionKept(n)'
  <2>1. \A s \in Readers : Closes(s, n)' <=> Closes(s, n)
    BY <1>1, <1>3, <1>6 DEF Closes, Moves, ClosingPC
  <2>2. h # None => reader'[h].target = n /\ reader'[h].pc = "send"
    BY <1>3, <1>6 DEF Moves
  <2> QED
    BY <1>1, <1>4, <1>5, <1>6, <2>1, <2>2 DEF SessionKept
<1>11. \A m \in Sessions \ {n} : SameFlags(m) /\ recognizer'[m].client = recognizer[m].client
  BY <1>1, <1>4 DEF SameFlags
<1>12. /\ reader'[r].target \in {0, n} /\ reader'[r].pc \notin ClosingPC \cup (Using \ {"send"})
       /\ reader'[r].pc = "send" => reader'[r].target = n
       /\ reader'[r].leaving = reader[r].leaving /\ reader'[r].pc # "closeAsr"
       /\ \A s \in Readers \ {r} : reader'[s] = reader[s]
  BY <1>3, <1>6 DEF Moves, ClosingPC, Using
<1>13. recognizer'[n].client # "running"
  BY <1>1, <1>4, <1>5 DEF SessionKept
<1>14. /\ reader'[r].pc \in Using => reader[r].pc \in Using /\ reader'[r].target = n
       /\ reader'[r].pc \in ClosingPC => reader[r].pc \in ClosingPC
  BY <1>1, <1>12 DEF ClosingPC, Using
<1> QED
  BY <1>1, <1>2, <1>7, <1>8, <1>9, <1>10, <1>11, <1>12, <1>13, <1>14, WorksOn

LEMMA MockSendStep ==
    ASSUME TypeOK, SessionsKept, NEW r \in Readers, MockSend(r)
    PROVE  SessionsKept'
<1>0. reader[r].pc = "send" /\ reader[r].target \in Sessions
  BY InHand DEF MockSend, Goto, Aside
<1> PICK n \in Sessions : n = reader[r].target
  BY <1>0
<1>1. /\ reader[r].pc = "send" /\ recognizer' = [recognizer EXCEPT ![n].holder = None]
      /\ UNCHANGED <<asr, errs, callback>> /\ panicked' = results[n].closed
  BY DEF MockSend, Goto
<1>2. n \in Sessions /\ n # 0
  BY Counted
<1>3. Moves(r, "send", "ready", 0)
  <2>1. ReadersTyped /\ "ready" \in ReaderPC /\ Goto(r, "send", "ready")
    BY TypeParts DEF ReaderPC, MockSend
  <2> QED
    BY <2>1, GotoMoves
<1>4. /\ \A m \in Sessions \ {n} : recognizer'[m] = recognizer[m]
      /\ recognizer'[n].holder = None
      /\ recognizer'[n].closed = recognizer[n].closed
      /\ recognizer'[n].closing = recognizer[n].closing
      /\ recognizer'[n].client = recognizer[n].client
  <2>1. recognizer \in [Sessions -> Recognizer]
    BY TypeParts DEF RecognizersTyped
  <2> QED
    BY <1>1, <1>2, <2>1 DEF Recognizer
<1>5. \A m \in Sessions : results'[m].closed = results[m].closed
  <2>1. results \in [Sessions -> Chan]
    BY TypeParts DEF ChannelsTyped
  <2>2. PICK b : results' = [results EXCEPT ![n].buf = b]
    BY DEF MockSend
  <2> QED
    BY <2>1, <2>2 DEF Chan
<1>6. /\ ReaderPlaced(r) /\ ReaderKept(r) /\ SessionKept(n)
      /\ Provider = "mock" /\ recognizer[n].holder = r /\ ~recognizer[n].closed
  BY <1>1, <1>2 DEF SessionsKept, ReaderPlaced, ReaderKept
<1>7. ~panicked'
  BY <1>1, <1>6 DEF SessionKept
<1>8. \A s \in Readers \ {r} : reader[s].target = n => ReaderKept(s)'
  <2> SUFFICES ASSUME NEW s \in Readers, s # r, reader[s].target = n PROVE ReaderKept(s)'
    OBVIOUS
  <2>1. ReaderKept(s) /\ reader'[s] = reader[s]
    BY <1>3 DEF SessionsKept, Moves
  <2>2. reader[s].pc \notin {"send", "closeResults", "closeErrs"}
    BY <1>2, <1>6, HolderAlone
  <2>3. reader[s].pc # "takeChannels"
    BY <1>6 DEF SessionsKept, ReaderPlaced, CloudPC
  <2> QED
    BY <1>1, <1>4, <1>5, <2>1, <2>2, <2>3 DEF ReaderKept, Stopped
<1>9. ReaderPlaced(r)' /\ ReaderKept(r)'
  BY <1>1, <1>3, <1>6 DEF Moves, ReaderPlaced, ReaderKept, Aside, ClosingPC, CloudPC
<1>10. SessionKept(n)'
  <2>1. \A s \in Readers : Closes(s, n)' <=> Closes(s, n)
    BY <1>1, <1>3 DEF Closes, Moves, ClosingPC
  <2> QED
    BY <1>1, <1>4, <1>5, <1>6, <2>1 DEF SessionKept
<1>11. \A m \in Sessions \ {n} : SameFlags(m) /\ recognizer'[m].client = recognizer[m].client
  BY <1>1, <1>4, <1>5 DEF SameFlags
<1>12. /\ reader'[r].target \in {0, n} /\ reader'[r].pc \notin ClosingPC \cup Using
       /\ reader'[r].leaving = reader[r].leaving /\ reader'[r].pc # "closeAsr"
       /\ \A s \in Readers \ {r} : reader'[s] = reader[s]
  BY <1>3 DEF Moves, ClosingPC, Using
<1>13. recognizer'[n].client # "running"
  BY <1>4, <1>6 DEF SessionKept
<1> QED
  BY <1>1, <1>2, <1>7, <1>8, <1>9, <1>10, <1>11, <1>12, <1>13, WorksOn

\* Reader r takes the close of session n one step further: where it gets to tells what is
\* closed.
LEMMA ClosesOn ==
    ASSUME TypeOK, SessionsKept, NEW r \in Readers, NEW n \in Sessions, reader[r].target = n,
           NEW from \in ClosingPC, NEW to \in (ClosingPC \ {"close"}) \cup {"ready", "reply", "gone"},
           Goto(r, from, to),
           to = "gone" => reader[r].leaving,
           to \in {"ready", "reply"} => ~reader[r].leaving,
           to \in CloudPC => Provider = "aliyun",
           asr' = asr, callback' = callback, panicked' = panicked,
           \A m \in Sessions \ {n} : /\ recognizer'[m] = recognizer[m]
                                     /\ results'[m].closed = results[m].closed
                                     /\ errs'[m].closed = errs[m].closed,
           Provider = "mock" => /\ recognizer[n].holder \in {None, r}
                                /\ recognizer'[n].client = recognizer[n].client,
           Provider = "mock" /\ to \in Stopped => recognizer'[n].holder = r,
           (Provider = "mock" /\ to \in Stopped) \/ recognizer'[n].holder = None,
           recognizer'[n].closed <=> to \in Stopped \cup {"ready", "reply", "gone"},
           results'[n].closed <=> to \in {"closeErrs", "ready", "reply", "gone"},
           errs'[n].closed <=> to \in {"ready", "reply", "gone"},
           ClosesStream /\ to \in Stopped \cup {"markClosed", "ready", "reply", "gone"} =>
               recognizer'[n].client # "running"
    PROVE  SessionsKept'
<1>1. Moves(r, from, to, IF to \in {"ready", "reply", "gone"} THEN 0 ELSE n)
  <2>1. ReadersTyped /\ to \in ReaderPC
    BY TypeParts DEF ReaderPC, ClosingPC
  <2> QED
    BY <2>1, GotoMoves
<1>2. n # 0 /\ n \in 1..asr.created /\ n # asr.current /\ ReaderPlaced(r) /\ SessionKept(n)
  <2>1. n # 0
    BY Counted
  <2>2. reader[r].pc \in ClosingPC /\ ReaderPlaced(r) /\ ReaderKept(r)
    BY <1>1 DEF Moves, SessionsKept
  <2> QED
    BY <2>1, <2>2 DEF ReaderPlaced, ReaderKept, SessionsKept
<1>3. /\ to \in ClosingPC => reader'[r].target = n
      /\ to \notin ClosingPC => reader'[r].target = 0
      /\ reader'[r].pc = to /\ reader'[r].leaving = reader[r].leaving
      /\ \A s \in Readers \ {r} : reader'[s] = reader[s]
      /\ reader[r].pc \in ClosingPC
  BY <1>1 DEF Moves, ClosingPC
<1>4. \A s \in Readers \ {r} : reader[s].target = n => ReaderKept(s)'
  <2> SUFFICES ASSUME NEW s \in Readers, s # r, reader[s].target = n PROVE ReaderKept(s)'
    OBVIOUS
  <2>1. reader[s].pc \notin ClosingPC
    BY <1>3 DEF SessionsKept, OneCloser
  <2>2. reader[s].pc # "send"
    <3>1. CASE Provider = "mock"
      <4>1. recognizer[n].holder # s
        BY <3>1, PipelineAssumption
      <4> QED
        BY <3>1, <4>1, HolderAlone
    <3>2. CASE Provider # "mock"
      BY <3>2 DEF SessionsKept, ReaderPlaced
    <3> QED
      BY <3>1, <3>2
  <2>3. reader'[s] = reader[s]
    BY <1>3
  <2> QED
    BY <2>1, <2>2, <2>3 DEF ReaderKept
<1>5. ReaderPlaced(r)'
  BY <1>2, <1>3 DEF ReaderPlaced, Aside, ClosingPC, CloudPC
<1>6. ReaderKept(r)'
  BY <1>2, <1>3 DEF ReaderKept, ClosingPC, Stopped
<1>7. SessionKept(n)'
  <2>1. to \in ClosingPC => Closes(r, n)'
    BY <1>3 DEF Closes
  <2>2. /\ to \in ClosingPC \/ to \in {"ready", "reply", "gone"}
        /\ to \in Stopped /\ Provider = "mock" => to \in {"closeResults", "closeErrs"}
        /\ to \in Stopped => to \in ClosingPC
        /\ "closeErrs" \in Stopped
        /\ to \in {"ready", "reply", "gone"} => to \notin Stopped
        /\ Provider \in {"mock", "aliyun"}
    BY PipelineAssumption DEF Stopped, CloudPC, ClosingPC
  <2>3. recognizer'[n].holder # None =>
            /\ Provider = "mock"
            /\ reader'[recognizer'[n].holder].target = n
            /\ reader'[recognizer'[n].holder].pc \in {"send", "closeResults", "closeErrs"}
    BY <1>3, <2>2
  <2>4. Provider = "mock" => recognizer'[n].client = "new" /\ callback'[n] = "idle"
    BY <1>2 DEF SessionKept
  <2> QED
    BY <1>2, <2>1, <2>2, <2>3, <2>4 DEF SessionKept
<1>8. \A m \in Sessions \ {n} : SameFlags(m) /\ recognizer'[m].client = recognizer[m].client
  BY DEF SameFlags
<1>9. /\ Provider = "mock" => ~panicked'
      /\ reader'[r].pc \notin Using /\ reader'[r].pc # "closeAsr" /\ reader'[r].target \in {0, n}
  BY <1>3 DEF SessionsKept, ProcessorKept, ClosingPC, Using
<1>10. ClosesStream => /\ reader'[r].pc = "markClosed" => recognizer'[n].client # "running"
                       /\ recognizer'[n].closed => recognizer'[n].client # "running"
  BY <1>3
<1> QED
  BY <1>3, <1>4, <1>5, <1>6, <1>7, <1>8, <1>9, <1>10, WorksOn

\* How far session n is closed while its closer is at pc.
LEMMA Closing ==
    ASSUME TypeOK, SessionsKept, NEW r \in Readers, reader[r].pc \in ClosingPC
    PROVE  \E n \in Sessions :
             /\ n = reader[r].target
             /\ recognizer[n].closed <=> reader[r].pc \in Stopped
             /\ reader[r].pc = "close" => ~recognizer[n].closing
             /\ results[n].closed <=> reader[r].pc = "closeErrs"
             /\ ~errs[n].closed
             /\ Provider = "mock" => /\ recognizer[n].client = "new"
                                     /\ reader[r].pc \in {"close", "closeResults", "closeErrs"}
                                     /\ reader[r].pc # "close" => recognizer[n].holder = r
             /\ Provider = "aliyun" => recognizer[n].holder = None
             /\ ClosesStream /\ (recognizer[n].closed \/ reader[r].pc = "markClosed") =>
                    recognizer[n].client # "running"
             /\ Provider \in {"mock", "aliyun"}
             /\ reader[r].pc \in CloudPC => Provider = "aliyun"
<1>1. reader[r].target \in Sessions
  BY InHand DEF Aside, ClosingPC
<1> PICK n \in Sessions : n = reader[r].target
  BY <1>1
<1>2. ReaderPlaced(r) /\ ReaderKept(r) /\ SessionKept(n) /\ Provider \in {"mock", "aliyun"}
  BY PipelineAssumption DEF SessionsKept
<1>3. Provider = "mock" => reader[r].pc \in {"close", "closeResults", "closeErrs"}
  BY <1>2 DEF ReaderPlaced, CloudPC, ClosingPC
<1>4. ClosesStream /\ (recognizer[n].closed \/ reader[r].pc = "markClosed") =>
          recognizer[n].client # "running"
  BY DEF SessionsKept, OnlyReaderKept
<1>5. Provider = "aliyun" => recognizer[n].holder = None
  BY <1>2 DEF SessionKept
<1>6. /\ recognizer[n].closed <=> reader[r].pc \in Stopped
      /\ reader[r].pc = "close" => ~recognizer[n].closing
      /\ results[n].closed <=> reader[r].pc = "closeErrs"
      /\ ~errs[n].closed
      /\ Provider = "mock" /\ reader[r].pc # "close" => recognizer[n].holder = r
  BY <1>2, <1>3 DEF ReaderKept, Stopped
<1>7. Provider = "mock" => recognizer[n].client = "new"
  BY <1>2 DEF SessionKept
<1>8. reader[r].pc \in CloudPC => Provider = "aliyun"
  BY <1>2 DEF ReaderPlaced
<1> QED
  BY <1>2, <1>3, <1>4, <1>5, <1>6, <1>7, <1>8

LEMMA CloserStep ==
    ASSUME TypeOK, SessionsKept, NEW r \in Readers,
           \/ MockClose(r) \/ CloudClose(r) \/ StopClient(r) \/ Shutdown(r) \/ MarkClosed(r)
           \/ TakeChannels(r) \/ CloseResults(r) \/ CloseErrs(r)
    PROVE  SessionsKept'
<1>1. reader[r].pc \in ClosingPC
  BY DEF MockClose, CloudClose, StopClient, Shutdown, MarkClosed, TakeChannels, CloseResults,
         CloseErrs, Goto, ClosingPC
<1> PICK n \in Sessions :
      /\ n = reader[r].target
      /\ recognizer[n].closed <=> reader[r].pc \in Stopped
      /\ reader[r].pc = "close" => ~recognizer[n].closing
      /\ results[n].closed <=> reader[r].pc = "closeErrs"
      /\ ~errs[n].closed
      /\ Provider = "mock" => /\ recognizer[n].client = "new"
                              /\ reader[r].pc \in {"close", "closeResults", "closeErrs"}
                              /\ reader[r].pc # "close" => recognizer[n].holder = r
      /\ Provider = "aliyun" => recognizer[n].holder = None
      /\ ClosesStream /\ (recognizer[n].closed \/ reader[r].pc = "markClosed") =>
             recognizer[n].client # "running"
      /\ Provider \in {"mock", "aliyun"}
      /\ reader[r].pc \in CloudPC => Provider = "aliyun"
  BY <1>1, Closing
<1>2. /\ recognizer \in [Sessions -> Recognizer]
      /\ results \in [Sessions -> Chan] /\ errs \in [Sessions -> Chan]
  BY SMTT(30), TypeParts DEF RecognizersTyped, ChannelsTyped
<1>3. asr' = asr /\ callback' = callback /\ panicked' = panicked
  BY DEF MockClose, CloudClose, StopClient, Shutdown, MarkClosed, TakeChannels, CloseResults,
         CloseErrs
<1> USE DEF Stopped, CloudPC, ClosingPC
<1>4. CASE MockClose(r)
  <2>1. /\ Provider = "mock" /\ Goto(r, "close", "closeResults") /\ recognizer[n].holder = None
        /\ recognizer' = [recognizer EXCEPT ![n].closed = TRUE, ![n].holder = r]
        /\ results' = results /\ errs' = errs /\ reader[r].pc = "close"
    BY <1>4 DEF MockClose, Goto, channels
  <2>2. /\ \A m \in Sessions \ {n} : recognizer'[m] = recognizer[m]
        /\ recognizer'[n].closed /\ recognizer'[n].holder = r
        /\ recognizer'[n].client = recognizer[n].client
    BY <1>2, <2>1 DEF Recognizer
  <2>3. ~results'[n].closed /\ ~errs'[n].closed
    BY <2>1
  <2>4. recognizer'[n].client # "running"
    <3>1. Provider = "mock"
      BY <2>1
    <3>2. recognizer[n].client = "new"
      BY <3>1
    <3> QED
      BY <2>2, <3>2
  <2> QED
    BY ZenonT(30), <1>3, <2>1, <2>2, <2>3, <2>4, ClosesOn
<1>5. CASE CloudClose(r)
  <2>1. PICK to \in {"stopClient", "shutdown"} :
            /\ Goto(r, "close", to) /\ Provider = "aliyun"
            /\ recognizer' = [recognizer EXCEPT ![n].closing = TRUE]
            /\ results' = results /\ errs' = errs /\ reader[r].pc = "close"
    BY <1>5 DEF CloudClose, Goto, channels
  <2>2. /\ \A m \in Sessions \ {n} : recognizer'[m] = recognizer[m]
        /\ recognizer'[n].closed = recognizer[n].closed
        /\ recognizer'[n].holder = recognizer[n].holder
        /\ recognizer'[n].client = recognizer[n].client
    BY <1>2, <2>1 DEF Recognizer
  <2> QED
    BY SMTT(30), <1>3, <2>1, <2>2, ClosesOn
<1>6. CASE StopClient(r)
  <2>1. /\ Goto(r, "stopClient", "shutdown") /\ recognizer' = recognizer
        /\ results' = results /\ errs' = errs /\ reader[r].pc = "stopClient"
    BY SMTT(30), <1>6 DEF StopClient, Goto, channels
  <2> QED
    BY <1>3, <2>1, ClosesOn
<1>7. CASE Shutdown(r)
  <2>1. /\ Goto(r, "shutdown", "markClosed")
        /\ recognizer' = [recognizer EXCEPT ![n].client = "shutdown"]
        /\ results' = results /\ errs' = errs /\ reader[r].pc = "shutdown"
    BY <1>7 DEF Shutdown, Goto, channels
  <2>2. /\ \A m \in Sessions \ {n} : recognizer'[m] = recognizer[m]
        /\ recognizer'[n].closed = recognizer[n].closed
        /\ recognizer'[n].holder = recognizer[n].holder
        /\ recognizer'[n].client = "shutdown"
    BY <1>2, <2>1 DEF Recognizer
  <2> QED
    BY <1>3, <2>1, <2>2, ClosesOn
<1>8. CASE MarkClosed(r)
  <2>1. /\ Goto(r, "markClosed", "takeChannels")
        /\ recognizer' = [recognizer EXCEPT ![n].closed = TRUE, ![n].closing = FALSE]
        /\ results' = results /\ errs' = errs /\ reader[r].pc = "markClosed"
    BY <1>8 DEF MarkClosed, Goto, channels
  <2>2. /\ \A m \in Sessions \ {n} : recognizer'[m] = recognizer[m]
        /\ recognizer'[n].closed
        /\ recognizer'[n].holder = recognizer[n].holder
        /\ recognizer'[n].client = recognizer[n].client
    BY <1>2, <2>1 DEF Recognizer
  <2>3. /\ recognizer'[n].holder = None /\ ~results'[n].closed /\ ~errs'[n].closed
        /\ Provider = "aliyun" /\ (ClosesStream => recognizer'[n].client # "running")
    BY <2>1, <2>2
  <2> QED
    BY ZenonT(30), <1>3, <2>1, <2>2, <2>3, ClosesOn
<1>9. CASE TakeChannels(r)
  <2>1. /\ Goto(r, "takeChannels", "closeResults")
        /\ recognizer' = [recognizer EXCEPT ![n].open = FALSE]
        /\ results' = results /\ errs' = errs /\ reader[r].pc = "takeChannels"
    BY <1>9 DEF TakeChannels, Goto, channels
  <2>2. /\ \A m \in Sessions \ {n} : recognizer'[m] = recognizer[m]
        /\ recognizer'[n].closed = recognizer[n].closed
        /\ recognizer'[n].holder = recognizer[n].holder
        /\ recognizer'[n].client = recognizer[n].client
    BY <1>2, <2>1 DEF Recognizer
  <2>3. /\ Provider = "mock" /\ "closeResults" \in Stopped => recognizer'[n].holder = r
        /\ (Provider = "mock" /\ "closeResults" \in Stopped) \/ recognizer'[n].holder = None
        /\ recognizer'[n].closed <=> "closeResults" \in Stopped \cup {"ready", "reply", "gone"}
        /\ results'[n].closed <=> "closeResults" \in {"closeErrs", "ready", "reply", "gone"}
        /\ errs'[n].closed <=> "closeResults" \in {"ready", "reply", "gone"}
        /\ Provider = "mock" => recognizer[n].holder \in {None, r}
        /\ ClosesStream /\ "closeResults" \in Stopped \cup {"markClosed", "ready", "reply", "gone"} =>
               recognizer'[n].client # "running"
    BY <2>1, <2>2
  <2> QED
    BY ZenonT(30), <1>3, <2>1, <2>2, <2>3, ClosesOn
<1>10. CASE CloseResults(r)
  <2>1. /\ Goto(r, "closeResults", "closeErrs") /\ recognizer' = recognizer
        /\ results' = [results EXCEPT ![n].closed = TRUE]
        /\ errs' = errs /\ reader[r].pc = "closeResults"
    BY <1>10 DEF CloseResults, Goto
  <2>2. results'[n].closed /\ \A m \in Sessions \ {n} : results'[m].closed = results[m].closed
    <3>1. results' = [results EXCEPT ![n].closed = TRUE]
      BY <2>1
    <3> QED
      BY ZenonT(30), <1>2, <3>1, ChannelCloses
  <2>3. /\ recognizer'[n].closed /\ ~errs'[n].closed
        /\ recognizer'[n].holder = IF Provider = "mock" THEN r ELSE None
        /\ ClosesStream => recognizer'[n].client # "running"
    BY <2>1
  <2> QED
    BY ZenonT(30), <1>3, <2>1, <2>2, <2>3, ClosesOn
<1>11. CASE CloseErrs(r)
  <2>1. PICK to \in {"ready", "gone", "reply"} :
            /\ Goto(r, "closeErrs", to)
            /\ to = "gone" <=> reader[r].leaving
            /\ recognizer' = [recognizer EXCEPT ![n].holder = None]
            /\ errs' = [errs EXCEPT ![n].closed = TRUE]
            /\ results' = results /\ reader[r].pc = "closeErrs"
    BY <1>11 DEF CloseErrs, Goto, Home
  <2>2. /\ \A m \in Sessions \ {n} : recognizer'[m] = recognizer[m]
        /\ recognizer'[n].closed = recognizer[n].closed
        /\ recognizer'[n].holder = None
        /\ recognizer'[n].client = recognizer[n].client
    BY <1>2, <2>1 DEF Recognizer
  <2>3. errs'[n].closed /\ \A m \in Sessions \ {n} : errs'[m].closed = errs[m].closed
    BY ZenonT(30), <1>2, <2>1 DEF Chan
  <2>4. /\ recognizer'[n].closed /\ results'[n].closed
        /\ ClosesStream => recognizer'[n].client # "running"
        /\ Provider = "mock" => recognizer[n].holder = r
    BY <2>1, <2>2, <2>3
  <2>5. /\ to \notin Stopped /\ to \notin CloudPC /\ "closeErrs" \in ClosingPC
        /\ to \in (ClosingPC \ {"close"}) \cup {"ready", "reply", "gone"}
        /\ to \in {"ready", "reply"} => ~reader[r].leaving
        /\ to = "gone" => reader[r].leaving
        /\ Goto(r, "closeErrs", to)
    BY <2>1
  <2> HIDE DEF Stopped, CloudPC, ClosingPC
  <2>6. \A m \in Sessions \ {n} : /\ recognizer'[m] = recognizer[m]
                                 /\ results'[m].closed = results[m].closed
                                 /\ errs'[m].closed = errs[m].closed
    BY <2>1, <2>2, <2>3
  <2>7. /\ recognizer'[n].closed <=> to \in Stopped \cup {"ready", "reply", "gone"}
        /\ results'[n].closed <=> to \in {"closeErrs", "ready", "reply", "gone"}
        /\ errs'[n].closed <=> to \in {"ready", "reply", "gone"}
    BY <2>1, <2>3, <2>4
  <2> QED
    BY <1>3, <2>2, <2>4, <2>5, <2>6, <2>7, ClosesOn
<1> QED
  BY <1>4, <1>5, <1>6, <1>7, <1>8, <1>9, <1>10, <1>11

LEMMA SessionsNext ==
    ASSUME TypeOK, SessionsKept, Next
    PROVE  SessionsKept'
BY WalkStep, EnsureNewStep, DetachStep, MockWriteStep, MockSendStep, CloserStep, ElsewhereStep
   DEF Next, ReaderStep

LEMMA TypeInit == Init => TypeOK
<1> SUFFICES ASSUME Init PROVE TypeOK
  OBVIOUS
<1>1. /\ MaxFrames \in [Readers -> Nat] /\ Capacity \in Nat /\ ErrCapacity \in Nat
      /\ <<>> \in Seq(Nat) /\ Len(<<>>) = 0
  BY PipelineAssumption
<1>2. ReadersTyped
  BY <1>1 DEF Init, ReadersTyped, Reader, ReaderPC
<1>3. RecognizersTyped
  BY DEF Init, RecognizersTyped, Processor, Recognizer
<1>4. ChannelsTyped
  BY <1>1 DEF Init, ChannelsTyped, Chan, Channel
<1>5. ForwardersTyped
  BY DEF Init, ForwardersTyped, Forwarder, ForwarderPC, Idle
<1>6. CallbacksTyped
  BY DEF Init, CallbacksTyped
<1> QED
  BY <1>2, <1>3, <1>4, <1>5, <1>6, TypeParts

LEMMA SessionsInit == Init => SessionsKept
<1> SUFFICES ASSUME Init PROVE SessionsKept
  OBVIOUS
<1>1. /\ \A r \in Readers : /\ reader[r].pc = "ready" /\ reader[r].target = 0
                            /\ reader[r].leaving = FALSE
      /\ asr.current = 0 /\ asr.created = 0 /\ ~asr.failed /\ ~panicked
      /\ \A n \in Sessions :
            /\ recognizer[n].closed = FALSE /\ recognizer[n].closing = FALSE
            /\ recognizer[n].holder = None /\ recognizer[n].client = "new"
            /\ results[n].closed = FALSE /\ errs[n].closed = FALSE /\ callback[n] = "idle"
  BY DEF Init, Channel
<1>2. \A r \in Readers : ReaderPlaced(r) /\ ReaderKept(r)
  BY <1>1 DEF ReaderPlaced, ReaderKept, Aside, ClosingPC, CloudPC
<1>3. 1..asr.created = {} /\ asr.current \in 0..asr.created
  BY <1>1
<1>4. \A n \in Sessions : SessionKept(n)
  BY <1>1, <1>3 DEF SessionKept
<1>5. OneCloser /\ ProcessorKept /\ OnlyReaderKept
  BY <1>1, <1>3 DEF OneCloser, ProcessorKept, OnlyReaderKept, ClosingPC, Using
<1> QED
  BY <1>2, <1>4, <1>5 DEF SessionsKept

-----------------------------------------------------------------------------
(* Results *)

LEMMA ToldTyped ==
    ASSUME TypeOK
    PROVE  told \subseteq [session: Sessions, number: Nat, index: Nat]
<1>1. wire \in Seq(Events)
  BY DEF TypeOK
<1>2. \A i \in DOMAIN wire : wire[i] \in Events
  BY <1>1
<1> QED
  BY <1>2 DEF told, Events

\* Writing one event tells of one result at most.
LEMMA ToldGrows ==
    ASSUME TypeOK, NEW n \in Sessions, NEW kind \in {"ttfb", "result"},
           wire' = Append(wire, EventOf(n, kind))
    PROVE  IF kind = "result"
           THEN told' = told \cup {[session |-> n, number |-> forwarder[n].item,
                                    index |-> forwarder[n].index]}
           ELSE told' = told
<1> DEFINE e == EventOf(n, kind)
           item(x) == [session |-> x.session, number |-> x.number, index |-> x.index]
           k == Len(wire) + 1
<1>1. e \in Events /\ e.kind = kind /\ e.session = n
      /\ e.number = forwarder[n].item /\ e.index = forwarder[n].index
  <2>1. forwarder[n].item \in Nat /\ forwarder[n].index \in Nat
    BY TypeParts DEF ForwardersTyped, Forwarder
  <2> QED
    BY <2>1 DEF EventOf, Events
<1>2. wire \in Seq(Events)
  BY DEF TypeOK
<1> HIDE DEF e
<1>3. /\ DOMAIN wire' = DOMAIN wire \cup {k} /\ k \notin DOMAIN wire
      /\ wire'[k] = e /\ \A i \in DOMAIN wire : wire'[i] = wire[i]
  BY <1>1, <1>2, Joins DEF e
<1>4. told = {item(wire[i]) : i \in {j \in DOMAIN wire : wire[j].kind = "result"}}
  BY DEF told
<1>5. told' = {item(wire'[i]) : i \in {j \in DOMAIN wire' : wire'[j].kind = "result"}}
  BY DEF told
<1> HIDE DEF k
<1>6. CASE kind = "result"
  <2>1. \A x : x \in told' <=> x \in told \/ x = item(e)
    BY <1>1, <1>3, <1>4, <1>5, <1>6
  <2> QED
    BY <1>1, <1>6, <2>1
<1>7. CASE kind = "ttfb"
  <2>1. \A x : x \in told' <=> x \in told
    BY <1>1, <1>3, <1>4, <1>5, <1>7
  <2> QED
    BY <1>7, <2>1
<1> QED
  BY <1>6, <1>7

\* Nothing new is told, buffered or numbered; forwarders may give up what they have.
LEMMA StaysInOrder ==
    ASSUME TypeOK, ResultsKept, told' = told, asr'.index = asr.index,
           \A n \in Sessions :
               /\ results'[n].buf = results[n].buf
               /\ Newest(n)' \in Nat /\ Newest(n) <= Newest(n)'
               /\ forwarder'[n].pc \in Busy =>
                      forwarder[n].pc \in Busy /\ forwarder'[n].item = forwarder[n].item
               /\ forwarder'[n].pc \in Numbered =>
                      forwarder[n].pc \in Numbered /\ forwarder'[n].index = forwarder[n].index
    PROVE  ResultsKept'
<1>1. ASSUME NEW n \in Sessions PROVE OrderKept(n)'
  <2>1. OrderKept(n)
    BY DEF ResultsKept
  <2>2. /\ \A i \in DOMAIN results[n].buf : results[n].buf[i] \in Nat
        /\ forwarder[n].item \in Nat /\ \A t \in told : t.number \in Nat
        /\ Newest(n) \in Nat
    <3>1. results[n].buf \in Seq(Nat) /\ forwarder[n].item \in Nat /\ produced[n] \in Nat
      BY TypeParts DEF ChannelsTyped, Chan, ForwardersTyped, Forwarder, CallbacksTyped
    <3>2. \A t \in told : t.number \in Nat
      BY ToldTyped
    <3> QED
      BY <3>1, <3>2 DEF Newest
  <2>3. \A x \in Nat : x < Newest(n) => x < Newest(n)'
    BY <2>2
  <2>4. \A i \in DOMAIN results'[n].buf : results'[n].buf[i] < Newest(n)'
    BY <2>1, <2>2, <2>3 DEF OrderKept
  <2>5. forwarder'[n].pc \in Busy =>
            forwarder'[n].item < Newest(n)' /\ \A i \in DOMAIN results'[n].buf :
                                                   forwarder'[n].item < results'[n].buf[i]
    BY <2>1, <2>2, <2>3 DEF OrderKept
  <2>6. \A t \in told' : t.session = n =>
            /\ t.number < Newest(n)' /\ \A i \in DOMAIN results'[n].buf : t.number < results'[n].buf[i]
            /\ forwarder'[n].pc \in Busy => t.number < forwarder'[n].item
            /\ forwarder'[n].pc \in Numbered => t.index < forwarder'[n].index
    BY <2>1, <2>2, <2>3 DEF OrderKept
  <2>7. \A i, j \in DOMAIN results'[n].buf : i < j => results'[n].buf[i] < results'[n].buf[j]
    BY <2>1 DEF OrderKept
  <2> QED
    BY <2>4, <2>5, <2>6, <2>7 DEF OrderKept
<1>2. IndexKept'
  BY DEF ResultsKept, IndexKept
<1> QED
  BY <1>1, <1>2 DEF ResultsKept

LEMMA NewestTyped ==
    ASSUME TypeOK, NEW n \in Sessions
    PROVE  Newest(n) \in Nat /\ produced[n] \in Nat /\ Newest(n) <= produced[n] + 1
BY TypeParts DEF CallbacksTyped, Newest

LEMMA NewestStays ==
    ASSUME NEW n \in Sessions, produced'[n] = produced[n],
           callback'[n] = "sendResult" <=> callback[n] = "sendResult",
           \A s \in Readers : reader'[s].pc = "send" /\ reader'[s].target = n
                             <=> reader[s].pc = "send" /\ reader[s].target = n
    PROVE  Newest(n)' = Newest(n)
BY DEF Newest, Pending

\* Readers that do not work on a mock session send nothing.
LEMMA Sendless ==
    ASSUME TypeOK, SessionsKept, NEW r \in Readers,
           Silent(r) \/ SegmentEnd(r) \/ Speech(r) \/ Leave(r) \/ ReaderStep(r),
           ~MockWrite(r), ~MockSend(r)
    PROVE  \A n, s : s \in Readers => (reader'[s].pc = "send" /\ reader'[s].target = n
                                      <=> reader[s].pc = "send" /\ reader[s].target = n)
<1> DEFINE Apart == /\ \A s \in Readers \ {r} : reader'[s] = reader[s]
                    /\ reader[r].pc # "send" /\ reader'[r].pc # "send"
<1> SUFFICES Apart
  OBVIOUS
<1>1. ReadersTyped /\ asr.current \in Sessions \cup {0}
  BY TypeParts DEF RecognizersTyped, Processor
<1>2. ASSUME NEW from \in ReaderPC \ {"send"}, NEW to \in ReaderPC \ {"send"}, Goto(r, from, to)
      PROVE  Apart
  BY <1>1, <1>2, GotoMoves DEF Moves
<1> USE HomeTyped DEF ReaderPC, ClosingPC
<1>3. CASE Silent(r) \/ SegmentEnd(r) \/ Speech(r)
  <2>1. PICK to \in {"ready", "stop", "ensure"} : Frame(r, to)
    BY <1>3 DEF Silent, SegmentEnd, Speech
  <2> QED
    BY <1>1, <2>1, FrameMoves DEF Moves
<1>4. CASE Leave(r) \/ (Reply(r) /\ broken)
  <2>1. PICK to \in {"closeAsr", "gone"} : reader' = [reader EXCEPT ![r].leaving = TRUE, ![r].pc = to]
    BY <1>4 DEF Leave, Reply
  <2>2. reader[r].pc # "send"
    BY <1>4 DEF Leave, Reply
  <2> QED
    BY <1>1, <2>1, <2>2, LeaveMoves
<1>5. CASE EnsureOld(r) \/ EnsureNew(r) \/ StopActive(r) \/ CloseAsr(r)
  <2>1. PICK to \in {"ready", "write", "close", "gone"}, n \in Sessions \cup {0} :
            reader' = [reader EXCEPT ![r].target = n, ![r].pc = to]
    <3>1. EnsureNew(r) => asr.created + 1 \in Sessions /\
              reader' = [reader EXCEPT ![r].target = asr.created + 1, ![r].pc = "write"]
      BY DEF EnsureNew
    <3>2. EnsureOld(r) => \E to \in {"ready", "write"} :
              reader' = [reader EXCEPT ![r].target = asr.current, ![r].pc = to]
      BY DEF EnsureOld
    <3>3. StopActive(r) \/ CloseAsr(r) => \E to \in {"ready", "gone", "close"} :
              reader' = [reader EXCEPT ![r].target = asr.current, ![r].pc = to]
      BY DEF StopActive, CloseAsr, Detach
    <3> QED
      BY <1>1, <1>5, <3>1, <3>2, <3>3
  <2>2. reader[r].pc # "send"
    BY <1>5 DEF EnsureOld, EnsureNew, StopActive, CloseAsr, Detach
  <2> QED
    BY ZenonT(30), <1>1, <2>1, <2>2, TakesMoves DEF Moves
<1>6. CASE EnsureFails(r) \/ (Reply(r) /\ ~broken)
  BY <1>2, <1>6 DEF EnsureFails, Reply
<1>7. CASE Write(r) \/ Start(r) \/ MarkStarted(r) \/ SendAudio(r)
  BY <1>2, <1>7 DEF Write, Start, MarkStarted, SendAudio
<1>8. CASE MockClose(r) \/ CloudClose(r) \/ StopClient(r) \/ Shutdown(r)
  BY <1>2, <1>8 DEF MockClose, CloudClose, StopClient, Shutdown
<1>9. CASE MarkClosed(r) \/ TakeChannels(r) \/ CloseResults(r) \/ CloseErrs(r)
  BY <1>2, <1>9 DEF MarkClosed, TakeChannels, CloseResults, CloseErrs
<1> QED
  BY <1>3, <1>4, <1>5, <1>6, <1>7, <1>8, <1>9 DEF ReaderStep

LEMMA ReaderInOrder ==
    ASSUME TypeOK, SessionsKept, ResultsKept, NEW r \in Readers,
           Silent(r) \/ SegmentEnd(r) \/ Speech(r) \/ Leave(r) \/ ReaderStep(r),
           ~MockWrite(r), ~MockSend(r)
    PROVE  ResultsKept'
<1>1. UNCHANGED <<callback, produced, wire>>
  BY DEF ReaderStep, output, Silent, SegmentEnd, Speech, Leave, EnsureOld, EnsureNew,
         EnsureFails, StopActive, Reply, CloseAsr, MockClose, Write, Start, MarkStarted, SendAudio,
         CloudClose, StopClient, Shutdown, MarkClosed, TakeChannels, CloseResults, CloseErrs
<1>2. told' = told
  BY <1>1 DEF told
<1>3. asr'.index = asr.index
  <2>1. asr \in Processor
    BY TypeParts DEF RecognizersTyped
  <2> QED
    BY ZenonT(30), <2>1 DEF ReaderStep, Silent, SegmentEnd, Speech, Leave, EnsureOld, EnsureNew,
         EnsureFails, StopActive, Reply, CloseAsr, Detach, MockClose, Write, Start, MarkStarted,
         SendAudio, CloudClose, StopClient, Shutdown, MarkClosed, TakeChannels, CloseResults,
         CloseErrs, Processor
<1>4. ASSUME NEW n \in Sessions PROVE results'[n].buf = results[n].buf
  <2>1. CASE results' = results
    BY <2>1
  <2>2. CASE CloseResults(r)
    <3>1. reader[r].target \in Sessions /\ results \in [Sessions -> Chan]
      BY <2>2, InHand, TypeParts DEF CloseResults, Goto, Aside, ChannelsTyped
    <3> QED
      BY <2>2, <3>1, ChannelCloses DEF CloseResults
  <2> QED
    BY <2>1, <2>2 DEF ReaderStep, channels, Silent, SegmentEnd, Speech, Leave, EnsureOld, EnsureNew,
         EnsureFails, StopActive, Reply, CloseAsr, MockClose, Write, Start, MarkStarted,
         SendAudio, CloudClose, StopClient, Shutdown, MarkClosed, TakeChannels, CloseErrs
<1>5. ASSUME NEW n \in Sessions PROVE Newest(n)' = Newest(n) /\ Newest(n) \in Nat
  BY <1>1, Sendless, NewestStays, NewestTyped
<1>6. ASSUME NEW n \in Sessions
      PROVE  forwarder'[n] = forwarder[n] \/ forwarder'[n].pc = "evalResults"
  <2>1. CASE EnsureNew(r)
    <3>1. forwarder \in [Sessions -> Forwarder]
      BY TypeParts DEF ForwardersTyped
    <3>2. forwarder' = [forwarder EXCEPT ![asr.created + 1].pc = "evalResults"]
      BY <2>1 DEF EnsureNew
    <3> QED
      BY <3>1, <3>2 DEF Forwarder
  <2>2. CASE forwarder' = forwarder
    BY <2>2
  <2> QED
    BY <2>1, <2>2 DEF ReaderStep, Silent, SegmentEnd, Speech, Leave, EnsureOld,
         EnsureFails, StopActive, Reply, CloseAsr, MockClose, Write, Start, MarkStarted,
         SendAudio, CloudClose, StopClient, Shutdown, MarkClosed, TakeChannels, CloseResults, CloseErrs
<1> QED
  BY <1>2, <1>3, <1>4, <1>5, <1>6, StaysInOrder DEF Busy, Numbered

\* The pending result of session n joins its channel.
LEMMA JoinsInOrder ==
    ASSUME TypeOK, ResultsKept, NEW n \in Sessions, Pending(n),
           told' = told, asr' = asr, forwarder' = forwarder,
           \A m \in Sessions \ {n} : results'[m].buf = results[m].buf /\ Newest(m)' = Newest(m),
           results'[n].buf = Append(results[n].buf, produced[n]),
           Newest(n)' = produced[n] + 1
    PROVE  ResultsKept'
<1>1. ASSUME NEW m \in Sessions \ {n} PROVE OrderKept(m)'
  <2>1. OrderKept(m) /\ results'[m].buf = results[m].buf /\ Newest(m)' = Newest(m)
    BY DEF ResultsKept
  <2> QED
    BY <2>1 DEF OrderKept
<1>2. OrderKept(n)'
  <2> DEFINE p == produced[n]
             b == results[n].buf
             k == Len(b) + 1
  <2>1. /\ p \in Nat /\ b \in Seq(Nat) /\ forwarder[n].item \in Nat
        /\ \A t \in told : t.number \in Nat
        /\ \A i \in DOMAIN b : b[i] \in Nat /\ i \in Nat /\ i < k
        /\ k \in Nat
    <3>1. p \in Nat /\ b \in Seq(Nat) /\ forwarder[n].item \in Nat
      BY TypeParts DEF ChannelsTyped, Chan, ForwardersTyped, Forwarder, CallbacksTyped
    <3> HIDE DEF p, b
    <3>2. \A i \in DOMAIN b : b[i] \in Nat /\ i \in Nat /\ i < k
      BY <3>1
    <3>3. k \in Nat
      BY <3>1
    <3> QED
      BY <3>1, <3>2, <3>3, ToldTyped
  <2>2. /\ DOMAIN results'[n].buf = DOMAIN b \cup {k} /\ k \notin DOMAIN b
        /\ results'[n].buf[k] = p /\ \A i \in DOMAIN b : results'[n].buf[i] = b[i]
    <3> HIDE DEF p, b
    <3>1. results'[n].buf = Append(b, p)
      BY DEF p, b
    <3> QED
      BY <2>1, <3>1, Joins
  <2>3. /\ \A i \in DOMAIN b : b[i] < p
        /\ \A i, j \in DOMAIN b : i < j => b[i] < b[j]
        /\ forwarder[n].pc \in Busy =>
              forwarder[n].item < p /\ \A i \in DOMAIN b : forwarder[n].item < b[i]
        /\ \A t \in told : t.session = n =>
              /\ t.number < p /\ \A i \in DOMAIN b : t.number < b[i]
              /\ forwarder[n].pc \in Busy => t.number < forwarder[n].item
              /\ forwarder[n].pc \in Numbered => t.index < forwarder[n].index
    <3>1. OrderKept(n) /\ Newest(n) = p
      BY DEF ResultsKept, Newest
    <3> QED
      BY <3>1 DEF OrderKept
  <2> HIDE DEF p, b, k
  <2>4. Newest(n)' = p + 1
    BY DEF p
  <2>5. \A x \in Nat : x < p => x < Newest(n)'
    BY <2>1, <2>4
  <2>6. \A i \in DOMAIN results'[n].buf : results'[n].buf[i] < Newest(n)'
    BY SMTT(30), <2>1, <2>2, <2>3, <2>4, <2>5
  <2>7. \A i, j \in DOMAIN results'[n].buf : i < j => results'[n].buf[i] < results'[n].buf[j]
    <3> SUFFICES ASSUME NEW i \in DOMAIN b \cup {k}, NEW j \in DOMAIN b \cup {k}, i < j
                 PROVE  results'[n].buf[i] < results'[n].buf[j]
      BY <2>2
    <3>1. i \in DOMAIN b
      BY <2>1
    <3>2. CASE j = k
      BY <2>2, <2>3, <3>1, <3>2
    <3>3. CASE j \in DOMAIN b
      BY <2>2, <2>3, <3>1, <3>3
    <3> QED
      BY <3>2, <3>3
  <2>8. forwarder'[n].pc \in Busy =>
            forwarder'[n].item < Newest(n)' /\ \A i \in DOMAIN results'[n].buf :
                                                   forwarder'[n].item < results'[n].buf[i]
    BY <2>1, <2>2, <2>3, <2>5
  <2>9. \A t \in told' : t.session = n =>
            /\ t.number < Newest(n)' /\ \A i \in DOMAIN results'[n].buf : t.number < results'[n].buf[i]
            /\ forwarder'[n].pc \in Busy => t.number < forwarder'[n].item
            /\ forwarder'[n].pc \in Numbered => t.index < forwarder'[n].index
    BY <2>1, <2>2, <2>3, <2>5
  <2> QED
    BY <2>6, <2>7, <2>8, <2>9 DEF OrderKept
<1>3. IndexKept'
  BY DEF ResultsKept, IndexKept
<1> QED
  BY <1>1, <1>2, <1>3 DEF ResultsKept

LEMMA MockWriteInOrder ==
    ASSUME TypeOK, SessionsKept, ResultsKept, NEW r \in Readers, MockWrite(r)
    PROVE  ResultsKept'
<1>1. reader[r].target \in Sessions /\ reader[r].pc = "write"
  BY InHand DEF MockWrite, Goto, Aside
<1> PICK n \in Sessions : n = reader[r].target
  BY <1>1
<1>2. told' = told /\ asr' = asr /\ forwarder' = forwarder /\ results' = results /\ callback' = callback
  BY DEF MockWrite, output, told, channels
<1>3. /\ \A s \in Readers \ {r} : reader'[s] = reader[s]
      /\ reader'[r].pc = "send" => reader'[r].target = n /\ produced'[n] = produced[n] + 1
      /\ reader'[r].pc # "send" => produced'[n] = produced[n]
  <2>1. PICK to \in {"send", "ready"} :
            Goto(r, "write", to) /\ (to = "send" <=> ~recognizer[n].closed)
    BY DEF MockWrite
  <2>2. /\ \A s \in Readers \ {r} : reader'[s] = reader[s]
        /\ reader'[r].pc = to
        /\ to = "send" => reader'[r].target = n
    <3>1. ReadersTyped /\ to \in ReaderPC
      BY TypeParts DEF ReaderPC
    <3> QED
      BY <2>1, <3>1, GotoMoves DEF Moves
  <2>3. /\ to = "send" => produced'[n] = produced[n] + 1
        /\ to # "send" => produced'[n] = produced[n]
    <3>1. produced \in [Sessions -> Nat]
      BY TypeParts DEF CallbacksTyped
    <3> QED
      BY <2>1, <3>1 DEF MockWrite
  <2> QED
    BY <2>1, <2>2, <2>3
<1>4. \A m \in Sessions \ {n} : produced'[m] = produced[m]
  <2>1. produced \in [Sessions -> Nat]
    BY TypeParts DEF CallbacksTyped
  <2> QED
    BY <2>1 DEF MockWrite
<1>5. /\ ~Pending(n) /\ callback[n] = "idle"
      /\ \A s \in Readers : reader[s].target = n => reader[s].pc # "send"
  <2>1. Provider = "mock" /\ recognizer[n].holder = None /\ None \notin Readers
    BY PipelineAssumption DEF MockWrite
  <2>2. \A s \in Readers : reader[s].target = n => reader[s].pc # "send"
    BY <2>1, HolderAlone
  <2>3. callback[n] = "idle"
    BY <2>1 DEF SessionsKept, SessionKept
  <2> QED
    BY <2>2, <2>3 DEF Pending
<1>6. Newest(n) = produced[n] + 1 /\ produced[n] \in Nat
  BY <1>5, NewestTyped DEF Newest
<1>7. Newest(n)' = Newest(n)
  <2>1. CASE reader'[r].pc = "send"
    BY <1>3, <1>6, <2>1 DEF Newest, Pending
  <2>2. CASE reader'[r].pc # "send"
    <3>1. ~Pending(n)'
      BY <1>2, <1>3, <1>5, <2>2 DEF Pending
    <3> QED
      BY <1>3, <1>6, <2>2, <3>1 DEF Newest
  <2> QED
    BY <2>1, <2>2
<1>8. \A m \in Sessions \ {n} : Newest(m)' = Newest(m)
  BY SMTT(30), <1>1, <1>2, <1>3, <1>4, NewestStays
<1> QED
  BY <1>2, <1>7, <1>8, NewestTyped, StaysInOrder

LEMMA MockSendInOrder ==
    ASSUME TypeOK, SessionsKept, ResultsKept, NEW r \in Readers, MockSend(r)
    PROVE  ResultsKept'
<1>1. reader[r].target \in Sessions /\ reader[r].pc = "send"
  BY InHand DEF MockSend, Goto, Aside
<1> PICK n \in Sessions : n = reader[r].target
  BY <1>1
<1>2. told' = told /\ asr' = asr /\ forwarder' = forwarder /\ produced' = produced /\ callback' = callback
  BY DEF MockSend, output, told
<1>3. /\ reader'[r].pc = "ready" /\ \A s \in Readers \ {r} : reader'[s] = reader[s]
      /\ Goto(r, "send", "ready")
  <2>1. ReadersTyped /\ "ready" \in ReaderPC /\ Goto(r, "send", "ready")
    BY TypeParts DEF ReaderPC, MockSend
  <2> QED
    BY <2>1, GotoMoves DEF Moves
<1>4. Provider = "mock" /\ recognizer[n].holder = r /\ ~results[n].closed /\ callback[n] = "idle"
  <2>1. ReaderPlaced(r) /\ ReaderKept(r) /\ SessionKept(n)
    BY DEF SessionsKept
  <2> QED
    BY <1>1, <2>1 DEF ReaderPlaced, ReaderKept, SessionKept
<1>5. \A s \in Readers \ {r} : reader[s].target = n => reader[s].pc # "send"
  BY <1>4, HolderAlone
<1>6. Pending(n) /\ ~Pending(n)'
  BY <1>1, <1>2, <1>3, <1>4, <1>5 DEF Pending
<1>7. Newest(n)' = produced[n] + 1
  BY <1>2, <1>6 DEF Newest
<1>8. \A m \in Sessions \ {n} : Newest(m)' = Newest(m)
  BY <1>1, <1>2, <1>3, NewestStays
<1>9. /\ results'[n].buf = Append(results[n].buf, produced[n])
      /\ \A m \in Sessions \ {n} : results'[m].buf = results[m].buf
  <2>1. results \in [Sessions -> Chan]
    BY TypeParts DEF ChannelsTyped
  <2>2. results' = [results EXCEPT ![n].buf = Append(results[n].buf, produced[n])]
    BY <1>4, <2>1 DEF MockSend
  <2> QED
    BY <2>1, <2>2 DEF Chan
<1> QED
  BY <1>2, <1>6, <1>7, <1>8, <1>9, JoinsInOrder

LEMMA CallbackInOrder ==
    ASSUME TypeOK, SessionsKept, ResultsKept, NEW n \in Sessions,
           OnResult(n) \/ OnTaskFailed(n) \/ AppendResult(n) \/ AppendError(n)
    PROVE  ResultsKept'
<1>1. /\ told' = told /\ asr' = asr /\ forwarder' = forwarder /\ reader' = reader
  BY DEF OnResult, OnTaskFailed, AppendResult, AppendError, CallBack, output, told
<1>2. Provider = "aliyun" /\ \A s \in Readers : reader[s].pc # "send"
  <2>1. SessionKept(n) /\ Provider \in {"mock", "aliyun"}
    BY PipelineAssumption DEF SessionsKept
  <2>2. Provider = "aliyun"
    BY <2>1 DEF SessionKept, OnResult, OnTaskFailed, AppendResult, AppendError, CallBack
  <2> QED
    BY <2>2 DEF SessionsKept, ReaderPlaced
<1>3. \A m \in Sessions : Newest(m) = IF callback[m] = "sendResult" THEN produced[m] ELSE produced[m] + 1
  BY <1>2 DEF Newest, Pending
<1>4. \A m \in Sessions : Newest(m)' = IF callback'[m] = "sendResult" THEN produced'[m] ELSE produced'[m] + 1
  BY <1>1, <1>2 DEF Newest, Pending
<1>5. /\ callback \in [Sessions -> {"idle", "sendResult", "sendError"}]
      /\ produced \in [Sessions -> Nat] /\ results \in [Sessions -> Chan]
      /\ \A m \in Sessions : produced[m] \in Nat
  BY TypeParts DEF CallbacksTyped, ChannelsTyped
<1>6. CASE OnResult(n) \/ OnTaskFailed(n) \/ AppendError(n)
  <2>1. results' = results /\ callback[n] # "sendResult"
    BY <1>6 DEF OnResult, OnTaskFailed, AppendError, CallBack, channels
  <2>2. \A m \in Sessions \ {n} : callback'[m] = callback[m] /\ produced'[m] = produced[m]
    <3>1. PICK c : callback' = [callback EXCEPT ![n] = c]
      BY <1>6 DEF OnResult, OnTaskFailed, AppendError, CallBack, Offer
    <3>2. produced' = produced \/ produced' = [produced EXCEPT ![n] = @ + 1]
      BY <1>6 DEF OnResult, OnTaskFailed, AppendError
    <3> QED
      BY <1>5, <3>1, <3>2
  <2>3. \/ produced'[n] = produced[n] + 1
        \/ produced'[n] = produced[n] /\ callback'[n] # "sendResult"
    <3>1. CASE OnResult(n)
      BY <1>5, <3>1 DEF OnResult
    <3>2. CASE OnTaskFailed(n)
      <4>1. callback' = [callback EXCEPT ![n] = "idle"] \/ callback' = [callback EXCEPT ![n] = "sendError"]
        BY <3>2 DEF OnTaskFailed, CallBack
      <4> QED
        BY <1>5, <3>2, <4>1 DEF OnTaskFailed
    <3>3. CASE AppendError(n)
      BY <1>5, <3>3 DEF AppendError, Offer
    <3> QED
      BY <1>6, <3>1, <3>2, <3>3
  <2>4. \A m \in Sessions \ {n} : Newest(m)' = Newest(m) /\ Newest(m) \in Nat
    BY <1>3, <1>4, <2>2, NewestTyped
  <2>5. Newest(n)' \in Nat /\ Newest(n) <= Newest(n)'
    <3>1. Newest(n) = produced[n] + 1 /\ produced[n] \in Nat
      BY <1>3, <1>5, <2>1
    <3>2. Newest(n)' = IF callback'[n] = "sendResult" THEN produced'[n] ELSE produced'[n] + 1
      BY <1>4
    <3>3. CASE produced'[n] = produced[n] + 1
      BY <3>1, <3>2, <3>3
    <3>4. CASE produced'[n] = produced[n] /\ callback'[n] # "sendResult"
      BY <3>1, <3>2, <3>4
    <3> QED
      BY <2>3, <3>3, <3>4
  <2> QED
    BY <1>1, <2>1, <2>4, <2>5, StaysInOrder
<1>7. CASE AppendResult(n)
  <2>1. /\ callback[n] = "sendResult" /\ callback'[n] = "idle" /\ produced' = produced
        /\ \A m \in Sessions \ {n} : callback'[m] = callback[m]
    BY <1>5, <1>7 DEF AppendResult, Offer
  <2>2. \A m \in Sessions \ {n} : Newest(m)' = Newest(m) /\ Newest(m) \in Nat
    BY <1>3, <1>4, <2>1, NewestTyped
  <2>3. Pending(n) /\ Newest(n) = produced[n] /\ Newest(n)' = produced[n] + 1
    BY <1>3, <1>4, <2>1 DEF Pending
  <2>4. \A m \in Sessions \ {n} : results'[m].buf = results[m].buf
    <3>1. PICK b : results' = [results EXCEPT ![n].buf = b]
      BY <1>7 DEF AppendResult, Offer
    <3> QED
      BY <1>5, <3>1 DEF Chan
  <2>5. results'[n].buf = results[n].buf \/ results'[n].buf = Append(results[n].buf, produced[n])
    <3>1. \/ results' = [results EXCEPT ![n].buf = results[n].buf]
          \/ results' = [results EXCEPT ![n].buf = Append(results[n].buf, produced[n])]
      BY <1>5, <1>7 DEF AppendResult, Offer
    <3> QED
      BY <1>5, <3>1 DEF Chan
  <2>6. CASE results'[n].buf = results[n].buf
    <3>1. Newest(n)' \in Nat /\ Newest(n) <= Newest(n)'
      BY <1>5, <2>3
    <3> QED
      BY <1>1, <2>2, <2>4, <2>6, <3>1, StaysInOrder
  <2>7. CASE results'[n].buf = Append(results[n].buf, produced[n])
    BY <1>1, <2>2, <2>3, <2>4, <2>7, JoinsInOrder
  <2> QED
    BY <2>5, <2>6, <2>7
<1> QED
  BY <1>6, <1>7

\* Where a forwarder goes; it gives up its result, or keeps it.
LEMMA ForwarderMoves ==
    ASSUME TypeOK, NEW n \in Sessions,
           \/ EvalResults(n) \/ EvalErrs(n) \/ TakeError(n) \/ ChannelClosed(n)
           \/ WriteTtfb(n) \/ WriteResult(n)
    PROVE  /\ \A m \in Sessions \ {n} : forwarder'[m] = forwarder[m]
           /\ \/ forwarder'[n].pc \notin Busy
              \/ /\ forwarder[n].pc = "ttfb" /\ forwarder'[n].pc = "write"
                 /\ forwarder'[n].item = forwarder[n].item /\ forwarder'[n].index = forwarder[n].index
<1> USE DEF Busy
<1>1. forwarder \in [Sessions -> Forwarder]
  BY TypeParts DEF ForwardersTyped
<1>2. ASSUME NEW to \in {"evalResults", "done"}, forwarder' = [forwarder EXCEPT ![n] = [Idle EXCEPT !.pc = to]]
      PROVE  forwarder'[n].pc = to /\ \A m \in Sessions \ {n} : forwarder'[m] = forwarder[m]
  BY <1>1, <1>2 DEF Idle
<1>3. CASE EvalResults(n)
  BY <1>1, <1>3 DEF EvalResults, Forwarder
<1>4. CASE EvalErrs(n)
  BY <1>1, <1>4 DEF EvalErrs, Forwarder
<1>5. CASE TakeError(n) \/ ChannelClosed(n)
  BY <1>2, <1>5 DEF TakeError, ChannelClosed, EndRound
<1>6. CASE WriteResult(n)
  BY <1>2, <1>6 DEF WriteResult, EndRound
<1>7. CASE WriteTtfb(n)
  <2>1. CASE Forward(n, "ttfb", "write")
    BY <1>1, <2>1 DEF Forward, Forwarder
  <2>2. CASE EndRound(n, "ttfb", "evalResults")
    BY <1>2, <2>2 DEF EndRound
  <2> QED
    BY <1>7, <2>1, <2>2 DEF WriteTtfb
<1> QED
  BY <1>3, <1>4, <1>5, <1>6, <1>7

LEMMA ForwarderKeepsNewest ==
    ASSUME NEW n \in Sessions, ForwarderStep(n)
    PROVE  UNCHANGED <<reader, produced, callback>> /\ \A m \in Sessions : Newest(m)' = Newest(m)
<1>1. UNCHANGED <<reader, produced, callback>>
  BY DEF ForwarderStep, EvalResults, EvalErrs, TakeResult, TakeError, ChannelClosed, Number,
         WriteTtfb, WriteResult
<1> QED
  BY <1>1 DEF Newest, Pending

LEMMA QuietForwarderInOrder ==
    ASSUME TypeOK, ResultsKept, NEW n \in Sessions, ForwarderStep(n),
           ~TakeResult(n), ~Number(n), told' = told
    PROVE  ResultsKept'
<1>1. results' = results /\ asr' = asr
  BY DEF ForwarderStep, EvalResults, EvalErrs, TakeError, ChannelClosed, WriteTtfb, WriteResult, channels
<1>2. /\ \A m \in Sessions \ {n} : forwarder'[m] = forwarder[m]
      /\ \/ forwarder'[n].pc \notin Busy
         \/ /\ forwarder[n].pc = "ttfb" /\ forwarder'[n].pc = "write"
            /\ forwarder'[n].item = forwarder[n].item /\ forwarder'[n].index = forwarder[n].index
  BY ForwarderMoves DEF ForwarderStep
<1>3. \A m \in Sessions : Newest(m)' = Newest(m) /\ Newest(m) \in Nat
  BY ForwarderKeepsNewest, NewestTyped
<1> QED
  BY <1>1, <1>2, <1>3, StaysInOrder DEF Busy, Numbered

LEMMA TakeResultInOrder ==
    ASSUME TypeOK, ResultsKept, NEW n \in Sessions, TakeResult(n)
    PROVE  ResultsKept'
<1>1. told' = told /\ asr' = asr
  BY DEF TakeResult, output, told
<1>2. \A m \in Sessions : Newest(m)' = Newest(m)
  BY ForwarderKeepsNewest DEF ForwarderStep
<1>3. results \in [Sessions -> Chan] /\ forwarder \in [Sessions -> Forwarder]
  BY TypeParts DEF ChannelsTyped, ForwardersTyped
<1> DEFINE b == results[n].buf
<1>4. /\ b \in Seq(Nat) /\ b # <<>>
      /\ forwarder' = [forwarder EXCEPT ![n] = [Idle EXCEPT !.pc = "number", !.item = Head(b)]]
      /\ results' = [results EXCEPT ![n].buf = Tail(b)]
  BY <1>3 DEF TakeResult, Chan
<1>5. /\ \A m \in Sessions \ {n} : results'[m] = results[m] /\ forwarder'[m] = forwarder[m]
      /\ results'[n].buf = Tail(b)
      /\ forwarder'[n].pc = "number" /\ forwarder'[n].item = Head(b)
  BY <1>3, <1>4 DEF Chan, Idle
<1> HIDE DEF b
<1>6. ASSUME NEW m \in Sessions \ {n} PROVE OrderKept(m)'
  <2>1. /\ OrderKept(m) /\ Newest(m)' = Newest(m)
        /\ results'[m] = results[m] /\ forwarder'[m] = forwarder[m]
    BY <1>2, <1>5 DEF ResultsKept
  <2> QED
    BY <1>1, <2>1 DEF OrderKept
<1>7. OrderKept(n)'
  <2>1. /\ Head(b) = b[1] /\ 1 \in DOMAIN b
        /\ \A i \in DOMAIN Tail(b) : i + 1 \in DOMAIN b /\ Tail(b)[i] = b[i + 1] /\ i \in Nat /\ 1 < i + 1
    <3>1. \A i \in DOMAIN Tail(b) : i \in Nat /\ 1 < i + 1
      BY <1>4
    <3> QED
      BY <1>4, <3>1, Leaves
  <2>2. /\ \A i \in DOMAIN b : b[i] < Newest(n)
        /\ \A i, j \in DOMAIN b : i < j => b[i] < b[j]
        /\ \A t \in told : t.session = n => t.number < Newest(n) /\ \A i \in DOMAIN b : t.number < b[i]
    BY DEF ResultsKept, OrderKept, b
  <2>3. Newest(n)' = Newest(n)
    BY <1>2
  <2>4. \A i \in DOMAIN results'[n].buf : results'[n].buf[i] < Newest(n)' /\ Head(b) < results'[n].buf[i]
    BY <1>5, <2>1, <2>2, <2>3
  <2>5. \A i, j \in DOMAIN results'[n].buf : i < j => results'[n].buf[i] < results'[n].buf[j]
    <3> SUFFICES ASSUME NEW i \in DOMAIN Tail(b), NEW j \in DOMAIN Tail(b), i < j
                 PROVE  Tail(b)[i] < Tail(b)[j]
      BY <1>5
    <3>1. i + 1 < j + 1
      BY <2>1
    <3> QED
      BY <2>1, <2>2, <3>1
  <2>6. Head(b) < Newest(n)'
    BY <2>1, <2>2, <2>3
  <2>7. \A t \in told' : t.session = n =>
            /\ t.number < Newest(n)' /\ \A i \in DOMAIN results'[n].buf : t.number < results'[n].buf[i]
            /\ t.number < Head(b)
    BY <1>1, <1>5, <2>1, <2>2, <2>3
  <2> QED
    BY <1>5, <2>4, <2>5, <2>6, <2>7 DEF OrderKept, Numbered
<1>8. IndexKept'
  BY <1>1, <1>5 DEF ResultsKept, IndexKept, Numbered
<1> QED
  BY <1>6, <1>7, <1>8 DEF ResultsKept

\* emitResult gives out an index that nobody has.
LEMMA NumberInOrder ==
    ASSUME TypeOK, ResultsKept, NEW n \in Sessions, Number(n)
    PROVE  ResultsKept'
<1>1. told' = told /\ results' = results
  BY DEF Number, output, channels, told
<1>2. \A m \in Sessions : Newest(m)' = Newest(m)
  BY ForwarderKeepsNewest DEF ForwarderStep
<1>3. /\ forwarder \in [Sessions -> Forwarder] /\ asr.index \in Nat
      /\ \A m \in Sessions : forwarder[m].index \in Nat
      /\ \A t \in told : t.index \in Nat
  BY TypeParts, ToldTyped DEF ForwardersTyped, RecognizersTyped, Processor, Forwarder
<1> DEFINE k == asr.index + 1
<1>4. /\ forwarder[n].pc = "number" /\ asr'.index = k
      /\ \A m \in Sessions \ {n} : forwarder'[m] = forwarder[m]
      /\ forwarder'[n].pc \in Numbered /\ forwarder'[n].index = k
      /\ forwarder'[n].item = forwarder[n].item
  <2>1. asr \in Processor
    BY TypeParts DEF RecognizersTyped
  <2>2. asr'.index = k
    BY <2>1 DEF Number, Processor
  <2>3. PICK pc \in Numbered : forwarder' = [forwarder EXCEPT ![n].pc = pc, ![n].index = k]
    BY DEF Number, Numbered
  <2> HIDE DEF k
  <2>4. /\ \A m \in Sessions \ {n} : forwarder'[m] = forwarder[m]
        /\ forwarder'[n].pc = pc /\ forwarder'[n].index = k /\ forwarder'[n].item = forwarder[n].item
    BY <1>3, <2>3 DEF Forwarder
  <2>5. forwarder[n].pc = "number"
    BY DEF Number
  <2> QED
    BY <2>2, <2>4, <2>5
<1>5. \A i \in Nat : i <= asr.index => i < k /\ i # k /\ i <= k
  BY <1>3
<1>6. k \in Nat /\ k <= k
  BY <1>3
<1> HIDE DEF k
<1>7. /\ \A t \in told : t.index <= asr.index
      /\ \A m \in Sessions : forwarder[m].pc \in Numbered =>
            /\ forwarder[m].index <= asr.index
            /\ \A t \in told : t.index # forwarder[m].index
            /\ \A l \in Sessions \ {m} :
                   forwarder[l].pc \in Numbered => forwarder[l].index # forwarder[m].index
  BY DEF ResultsKept, IndexKept
<1>8. ASSUME NEW m \in Sessions PROVE OrderKept(m)'
  <2>1. /\ OrderKept(m) /\ Newest(m)' = Newest(m)
        /\ results'[m] = results[m] /\ forwarder'[m].item = forwarder[m].item
        /\ forwarder'[m].pc \in Busy => forwarder[m].pc \in Busy
        /\ m # n => forwarder'[m] = forwarder[m]
    BY <1>1, <1>2, <1>4 DEF ResultsKept, Busy
  <2>2. \A t \in told : m = n => t.index < forwarder'[m].index
    BY <1>3, <1>4, <1>5, <1>7
  <2> QED
    BY <1>1, <2>1, <2>2 DEF OrderKept
<1>9. IndexKept'
  <2>1. \A t \in told' : t.index <= asr'.index
    BY <1>1, <1>3, <1>4, <1>5, <1>7
  <2>2. ASSUME NEW m \in Sessions, forwarder'[m].pc \in Numbered
        PROVE  /\ forwarder'[m].index <= asr'.index
               /\ \A t \in told' : t.index # forwarder'[m].index
               /\ \A l \in Sessions \ {m} :
                      forwarder'[l].pc \in Numbered => forwarder'[l].index # forwarder'[m].index
    <3>1. CASE m = n
      BY <1>1, <1>3, <1>4, <1>5, <1>6, <1>7, <3>1
    <3>2. CASE m # n
      <4>1. forwarder'[m] = forwarder[m]
        BY <1>4, <3>2
      <4>2. /\ forwarder[m].index <= asr.index /\ forwarder[m].index \in Nat
            /\ \A t \in told : t.index # forwarder[m].index
            /\ \A l \in Sessions \ {m} :
                   forwarder[l].pc \in Numbered => forwarder[l].index # forwarder[m].index
        BY <1>3, <1>7, <2>2, <4>1
      <4>3. forwarder[m].index <= asr'.index /\ forwarder[m].index # k
        BY <1>4, <1>5, <4>2
      <4>4. ASSUME NEW l \in Sessions \ {m}, forwarder'[l].pc \in Numbered
            PROVE  forwarder'[l].index # forwarder[m].index
        <5>1. CASE l = n
          BY <1>4, <4>3, <5>1
        <5>2. CASE l # n
          BY <1>4, <4>2, <4>4, <5>2
        <5> QED
          BY <5>1, <5>2
      <4> QED
        BY <1>1, <4>1, <4>2, <4>3, <4>4
    <3> QED
      BY <3>1, <3>2
  <2> QED
    BY <2>1, <2>2 DEF IndexKept
<1> QED
  BY <1>8, <1>9 DEF ResultsKept

\* The client is told of the result that the forwarder has.
LEMMA TellsInOrder ==
    ASSUME TypeOK, ResultsKept, NEW n \in Sessions, WriteResult(n),
           told' = told \cup {[session |-> n, number |-> forwarder[n].item,
                               index |-> forwarder[n].index]}
    PROVE  ResultsKept'
<1> DEFINE t0 == [session |-> n, number |-> forwarder[n].item, index |-> forwarder[n].index]
<1>1. results' = results /\ asr' = asr /\ forwarder[n].pc = "write"
  BY DEF WriteResult, EndRound, channels
<1>2. \A m \in Sessions : Newest(m)' = Newest(m)
  BY ForwarderKeepsNewest DEF ForwarderStep
<1>3. /\ \A m \in Sessions \ {n} : forwarder'[m] = forwarder[m]
      /\ forwarder'[n].pc \notin Busy /\ forwarder'[n].pc \notin Numbered
  BY <1>1, ForwarderMoves DEF Busy, Numbered
<1>4. /\ t0.session = n /\ t0.number = forwarder[n].item /\ t0.index = forwarder[n].index
      /\ told' = told \cup {t0}
  OBVIOUS
<1> HIDE DEF t0
<1>5. forwarder[n].pc \in Busy /\ forwarder[n].pc \in Numbered
  BY <1>1 DEF Busy, Numbered
<1>6. ASSUME NEW m \in Sessions PROVE OrderKept(m)'
  <2>1. /\ OrderKept(m) /\ Newest(m)' = Newest(m) /\ results'[m] = results[m]
        /\ m # n => forwarder'[m] = forwarder[m]
    BY <1>1, <1>2, <1>3 DEF ResultsKept
  <2>2. CASE m # n
    BY <1>4, <2>1, <2>2 DEF OrderKept
  <2>3. CASE m = n
    <3>1. /\ t0.number < Newest(n) /\ \A i \in DOMAIN results[n].buf : t0.number < results[n].buf[i]
      BY <1>4, <1>5, <2>1, <2>3 DEF OrderKept
    <3> QED
      BY <1>3, <1>4, <2>1, <2>3, <3>1 DEF OrderKept
  <2> QED
    BY <2>2, <2>3
<1>7. IndexKept'
  <2>1. IndexKept
    BY DEF ResultsKept
  <2>2. t0.index <= asr.index
    BY <1>4, <1>5, <2>1 DEF IndexKept
  <2>3. \A m \in Sessions \ {n} : forwarder[m].pc \in Numbered => t0.index # forwarder[m].index
    BY <1>4, <1>5, <2>1 DEF IndexKept
  <2> QED
    BY <1>1, <1>3, <1>4, <2>1, <2>2, <2>3 DEF IndexKept
<1> QED
  BY <1>6, <1>7 DEF ResultsKept

LEMMA ForwarderInOrder ==
    ASSUME TypeOK, ResultsKept, NEW n \in Sessions, ForwarderStep(n)
    PROVE  ResultsKept'
<1>1. CASE TakeResult(n)
  BY <1>1, TakeResultInOrder
<1>2. CASE Number(n)
  BY <1>2, NumberInOrder
<1>3. CASE WriteResult(n) /\ wire' = Append(wire, EventOf(n, "result"))
  BY <1>3, ToldGrows, TellsInOrder
<1>4. CASE ~TakeResult(n) /\ ~Number(n) /\ wire' = wire
  BY <1>4, QuietForwarderInOrder DEF told
<1>5. CASE WriteTtfb(n) /\ wire' = Append(wire, EventOf(n, "ttfb"))
  <2>1. told' = told
    BY <1>5, ToldGrows
  <2>2. ~TakeResult(n) /\ ~Number(n)
    BY <1>5 DEF WriteTtfb, Forward, EndRound, TakeResult, Number
  <2> QED
    BY <2>1, <2>2, QuietForwarderInOrder
<1> QED
  BY <1>1, <1>2, <1>3, <1>4, <1>5
     DEF ForwarderStep, EvalResults, EvalErrs, TakeError, ChannelClosed, WriteTtfb, WriteResult,
         Written, WriteFails, output

LEMMA ResultsNext ==
    ASSUME TypeOK, SessionsKept, ResultsKept, Next
    PROVE  ResultsKept'
<1>1. CASE Break
  <2>1. told' = told
    BY <1>1 DEF Break, told
  <2>2. UNCHANGED <<reader, asr, results, forwarder, callback, produced>>
    BY <1>1 DEF Break, channels
  <2>3. \A n \in Sessions : Newest(n)' = Newest(n) /\ Newest(n) \in Nat
    BY <2>2, NewestTyped DEF Newest, Pending
  <2> QED
    BY <2>1, <2>2, <2>3, StaysInOrder
<1> QED
  BY <1>1, ReaderInOrder, MockWriteInOrder, MockSendInOrder, ForwarderInOrder, CallbackInOrder
     DEF Next

LEMMA ResultsInit == Init => ResultsKept
<1> SUFFICES ASSUME Init PROVE ResultsKept
  OBVIOUS
<1>1. told = {}
  BY DEF Init, told
<1>2. \A n \in Sessions : DOMAIN results[n].buf = {} /\ forwarder[n].pc = "none"
  BY DEF Init, Channel, Idle
<1> QED
  BY <1>1, <1>2 DEF ResultsKept, OrderKept, IndexKept, Busy, Numbered

-----------------------------------------------------------------------------
(* What holds in every run *)

\* A reader, a processor and a session agree on who has what in hand, and on how far it
\* is closed, whatever the readers, the forwarders and the SDK do to one another.
\* The results on their way, told, numbered, buffered or pending, stay in their order.
THEOREM PipelineInvariant == Spec => []IInv
<1>1. Init => IInv
  BY TypeInit, SessionsInit, ResultsInit DEF IInv
<1>2. IInv /\ [Next]_vars => IInv'
  <2> SUFFICES ASSUME TypeOK, SessionsKept, ResultsKept, [Next]_vars
               PROVE  TypeOK' /\ SessionsKept' /\ ResultsKept'
    BY DEF IInv
  <2>1. CASE Next
    BY <2>1, TypeNext, SessionsNext, ResultsNext
  <2>2. CASE UNCHANGED vars
    <3>1. TypeOK'
      BY <2>2 DEF vars, channels, output, TypeOK
    <3>2. SessionsKept'
      <4>1. UNCHANGED <<reader, asr, recognizer, results, errs, callback, panicked>>
        BY <2>2 DEF vars, channels
      <4> QED
        BY <4>1, Elsewhere DEF SameFlags, SessionsKept, ProcessorKept
    <3>3. ResultsKept'
      <4>1. told' = told /\ UNCHANGED <<reader, asr, results, forwarder, callback, produced>>
        BY <2>2 DEF vars, channels, output, told
      <4>2. \A n \in Sessions : Newest(n)' = Newest(n) /\ Newest(n) \in Nat
        BY <4>1, NewestTyped DEF Newest, Pending
      <4> QED
        BY <4>1, <4>2, StaysInOrder
    <3> QED
      BY <3>1, <3>2, <3>3
  <2> QED
    BY <2>1, <2>2
<1> QED
  BY <1>1, <1>2, PTL DEF Spec

\* Every variable keeps its type; no channel holds more than it has room for.
THEOREM PipelineTyped == Spec => []TypeOK
<1>1. IInv => TypeOK
  BY DEF IInv
<1> QED
  BY <1>1, PipelineInvariant, PTL

\* A session that is no longer the processor's is closed, or somebody is about to close it.
THEOREM NothingOrphaned == Spec => []NoOrphan
<1>1. IInv => NoOrphan
  BY DEF IInv, SessionsKept, ProcessorKept, SessionKept, NoOrphan, Closes
<1> QED
  BY <1>1, PipelineInvariant, PTL

\* The mock's mutex keeps its sends and its close apart.  (The cloud sessions' callbacks
\* have no such lock, and do panic.)
THEOREM MockNeverPanics == Provider = "mock" => (Spec => []NeverPanics)
<1> SUFFICES ASSUME Provider = "mock" PROVE Spec => []NeverPanics
  OBVIOUS
<1>1. IInv => NeverPanics
  BY DEF IInv, SessionsKept, ProcessorKept, NeverPanics
<1> QED
  BY <1>1, PipelineInvariant, PTL

\* A websocket call that is over has closed every session it ever had.
THEOREM EverythingReleased == Spec => []AllReleased
<1>1. IInv => AllReleased
  <2> SUFFICES ASSUME TypeOK, SessionsKept, ClosesStream, \A r \in Readers : reader[r].pc = "gone",
                      NEW n \in 1..asr.created
               PROVE  /\ recognizer[n].closed /\ recognizer[n].client # "running"
                      /\ recognizer[n].holder = None
                      /\ results[n].closed /\ errs[n].closed
    BY DEF AllReleased, IInv
  <2>1. n \in Sessions
    BY DEF SessionsKept, ProcessorKept
  <2>2. asr.current = 0
    <3>1. PICK r \in Readers : TRUE
      BY PipelineAssumption
    <3>2. reader[r].leaving
      BY DEF SessionsKept, ReaderPlaced
    <3> QED
      BY <3>2 DEF SessionsKept, OnlyReaderKept
  <2>3. n # 0 /\ \A r \in Readers : ~Closes(r, n)
    BY <2>1, Counted DEF Closes, ClosingPC
  <2>4. SessionKept(n)
    BY <2>1 DEF SessionsKept
  <2>5. /\ recognizer[n].closed /\ recognizer[n].holder = None
        /\ results[n].closed /\ errs[n].closed
    BY <2>2, <2>3, <2>4 DEF SessionKept
  <2> QED
    BY <2>1, <2>5 DEF SessionsKept, OnlyReaderKept
<1> QED
  BY <1>1, PipelineInvariant, PTL

-----------------------------------------------------------------------------
(* The pipeline keeps the promise of ResultFeed *)

LEMMA FeedInit == Init => Feed!Init
BY DEF Init, Feed!Init, told

\* Every step produces a result, or tells of one, or is none of the client's business.
LEMMA FeedStep ==
    ASSUME TypeOK, SessionsKept, ResultsKept, [Next]_vars
    PROVE  [Feed!Next]_(Feed!vars)
<1>1. CASE UNCHANGED <<produced, wire>>
  BY <1>1 DEF Feed!vars, told
<1>2. ASSUME NEW n \in Sessions, produced' = [produced EXCEPT ![n] = @ + 1], wire' = wire
      PROVE  Feed!Next
  BY <1>2 DEF Feed!Next, Feed!Produce, told
<1>3. ASSUME NEW n \in Sessions, WriteResult(n), wire' = Append(wire, EventOf(n, "result"))
      PROVE  Feed!Next
  <2> DEFINE t0 == [session |-> n, number |-> forwarder[n].item, index |-> forwarder[n].index]
  <2>1. told' = told \cup {t0}
    BY <1>3, ToldGrows
  <2>2. /\ t0.session = n /\ t0.number = forwarder[n].item /\ t0.index = forwarder[n].index
    OBVIOUS
  <2> HIDE DEF t0
  <2>3. forwarder[n].pc \in Busy /\ forwarder[n].pc \in Numbered /\ produced' = produced
    BY <1>3 DEF WriteResult, EndRound, Busy, Numbered
  <2>4. t0.number <= produced[n]
    <3>1. t0.number < Newest(n)
      BY <2>2, <2>3 DEF ResultsKept, OrderKept
    <3>2. forwarder[n].item \in Nat
      BY TypeParts DEF ForwardersTyped, Forwarder
    <3> QED
      BY <2>2, <3>1, <3>2, NewestTyped
  <2>5. \A other \in told :
          /\ other.index # t0.index
          /\ other.session = t0.session => other.number < t0.number /\ other.index < t0.index
    BY <2>2, <2>3 DEF ResultsKept, OrderKept, IndexKept
  <2> QED
    BY <2>1, <2>2, <2>3, <2>4, <2>5 DEF Feed!Next, Feed!Tell
<1>4. ASSUME NEW n \in Sessions, WriteTtfb(n), wire' = Append(wire, EventOf(n, "ttfb"))
      PROVE  UNCHANGED <<told, produced>>
  BY <1>4, ToldGrows DEF WriteTtfb
<1>5. CASE UNCHANGED vars
  BY <1>1, <1>5 DEF vars, output
<1>6. ASSUME NEW r \in Readers, MockWrite(r)
      PROVE  [Feed!Next]_(Feed!vars)
  <2>1. reader[r].target \in Sessions /\ wire' = wire
    BY <1>6, InHand DEF MockWrite, Goto, Aside, output
  <2>2. produced \in [Sessions -> Nat]
    BY TypeParts DEF CallbacksTyped
  <2>3. \/ produced' = [produced EXCEPT ![reader[r].target] = @ + 1] \/ produced' = produced
    BY <1>6, <2>2 DEF MockWrite
  <2> QED
    BY <1>1, <1>2, <2>1, <2>3
<1>7. ASSUME NEW r \in Readers, ~MockWrite(r),
             Silent(r) \/ SegmentEnd(r) \/ Speech(r) \/ Leave(r) \/ ReaderStep(r)
      PROVE  UNCHANGED <<produced, wire>>
  BY <1>7 DEF ReaderStep, output, Silent, SegmentEnd, Speech, Leave, EnsureOld, EnsureNew,
         EnsureFails, StopActive, Reply, CloseAsr, MockSend, MockClose, Write, Start, MarkStarted,
         SendAudio, CloudClose, StopClient, Shutdown, MarkClosed, TakeChannels, CloseResults, CloseErrs
<1>8. ASSUME NEW n \in Sessions, ForwarderStep(n)
      PROVE  [Feed!Next]_(Feed!vars)
  <2>1. CASE wire' = wire
    BY <1>1, <1>8, <2>1, ForwarderKeepsNewest
  <2>2. CASE wire' # wire
    BY <1>3, <1>4, <1>8, <2>2
       DEF ForwarderStep, EvalResults, EvalErrs, TakeResult, TakeError, ChannelClosed, Number,
           WriteTtfb, WriteResult, Written, WriteFails, output, Feed!vars
  <2> QED
    BY <2>1, <2>2
<1>9. ASSUME NEW n \in Sessions, OnResult(n) \/ OnTaskFailed(n) \/ AppendResult(n) \/ AppendError(n)
      PROVE  [Feed!Next]_(Feed!vars)
  BY <1>1, <1>2, <1>9 DEF OnResult, OnTaskFailed, AppendResult, AppendError, CallBack, output
<1>10. CASE Break
  BY <1>1, <1>10 DEF Break
<1> QED
  BY <1>1, <1>5, <1>6, <1>7, <1>8, <1>9, <1>10 DEF Next

\* The results of a recognition session reach the client in their order, none twice, each
\* under an index of its own: the pipeline implements ResultFeed.
THEOREM PipelineFeedsResults == Spec => FeedsResults
<1>1. IInv /\ [Next]_vars => [Feed!Next]_(Feed!vars)
  BY FeedStep DEF IInv
<1> QED
  BY <1>1, FeedInit, PipelineInvariant, PTL DEF Spec, FeedsResults, Feed!Spec
=============================================================================
