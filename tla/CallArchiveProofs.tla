------------------------- MODULE CallArchiveProofs -------------------------
(***************************************************************************)
(* Proofs about CallArchive, for any number of calls that share any ids,   *)
(* however many commands and events each has, and however many of its      *)
(* lines are lost.                                                         *)
(*                                                                         *)
(* A transcript is kept by two goroutines and cut off by restarts; the     *)
(* inductive invariant says which event each of them is in the middle of,  *)
(* and that commands are numbered ahead of the events that answer them.    *)
(***************************************************************************)
EXTENDS CallArchive, TLAPS

-----------------------------------------------------------------------------
(* The inductive invariant *)

Points == {"none", "first", "refused", "reply", "serve", "record", "create", "fill", "send",
           "closeDump", "closeConn", "done", "gone"}

Lines == [call: Calls, kind: {"command", "event"}, n: Nat, for: Nat]

Typed ==
    /\ backend \in {"local", "http", "s3"}
    /\ pc \in [Calls -> Points]
    /\ id \in [Calls -> Ids \cup {None}]
    /\ handle \in [Calls -> {"off", "open", "closed"}]
    /\ writer \in [Calls -> {"loop", "audio", None}]
    /\ audio \in [Calls -> {"off", "on"}]
    /\ commands \in [Calls -> Nat]
    /\ sent \in [Calls -> Seq(Nat)]
    /\ dump \in [Ids -> Seq(Lines)]
    /\ gap = [c \in Calls |-> gap[c]]
    /\ memory \in Seq(Calls)
    /\ archive = [i \in Ids |-> archive[i]]
    /\ outcome \in [Calls -> {"ok", "failed", None}]

\* A call has an id, and anything to dump, from the moment it connects.
Placed(c) ==
    /\ pc[c] = "none" <=> id[c] = None
    /\ pc[c] = "none" => sent[c] = <<>> /\ writer[c] = None /\ audio[c] = "off"
    /\ writer[c] # None => Len(sent[c]) > 0
    /\ writer[c] = "loop" => pc[c] \in {"refused", "reply", "serve"}
    /\ \A i \in Ids : \A k \in DOMAIN dump[i] : dump[i][k].call = c => id[c] = i

Ended == {"done", "gone"}

\* No command is numbered twice before the handler returns, and no event
\* answers one that was not read.
Numbered(c) ==
    pc[c] \notin Ended =>
        /\ \A n \in DOMAIN sent[c] : sent[c][n] <= commands[c]
        /\ \A i \in Ids : \A k \in DOMAIN dump[i] :
               dump[i][k].call = c /\ dump[i][k].kind = "command" => dump[i][k].n <= commands[c]

\* The line of an event is the one SendEvent's caller meant, and it is written
\* before the next event is sent.
EventsKept(c) ==
    \A i \in Ids : \A k \in DOMAIN dump[i] :
        dump[i][k].call = c /\ dump[i][k].kind = "event" =>
            /\ dump[i][k].n \in 1..Len(sent[c])
            /\ dump[i][k].for = sent[c][dump[i][k].n]
            /\ writer[c] # None => dump[i][k].n < Len(sent[c])

Ordered(c) ==
    \A i \in Ids : \A j, k \in DOMAIN dump[i] :
        dump[i][j].call = c /\ dump[i][k].call = c /\ dump[i][k].kind = "event" =>
            /\ dump[i][j].kind = "event" /\ j < k => dump[i][j].n < dump[i][k].n
            /\ dump[i][j].kind = "command" /\ dump[i][k].for = dump[i][j].n => j < k

\* What was sent is in the file, or known to be missing, or about to be written.
Covered(c) ==
    \A n \in 1..Len(sent[c]) :
        \/ n \in gap[c]
        \/ writer[c] # None /\ n = Len(sent[c])
        \/ \E k \in DOMAIN dump[id[c]] :
               /\ dump[id[c]][k].call = c /\ dump[id[c]][k].kind = "event"
               /\ dump[id[c]][k].n = n

DumpKept(c) == Placed(c) /\ Numbered(c) /\ EventsKept(c) /\ Ordered(c) /\ Covered(c)

Whole(c) == IF backend = "http" THEN {c} ELSE c

\* How far the record of a call has got into an archive where its id is its own.
ArchiveKept(c) ==
    /\ pc[c] \in {"create", "fill"} => backend = "local"
    /\ pc[c] = "send" => backend # "local"
    /\ outcome[c] # None => pc[c] \in {"closeDump", "closeConn"} \cup Ended
    /\ id[c] # None /\ (\A d \in Calls \ {c} : id[d] # id[c]) =>
        /\ outcome[c] = "ok" => archive[id[c]] = Whole(c)
        /\ pc[c] = "fill" => archive[id[c]] = "empty"

\* What was posted under an id came from calls of that id.
Posted ==
    backend = "http" => \A i \in Ids : \A d \in archive[i] : d \in Calls /\ id[d] = i

\* Memory holds a record once, from the moment the handler hands it over.
MemoryKept(c) ==
    /\ pc[c] \in {"none", "first", "refused", "reply", "serve", "record"} =>
           \A i \in DOMAIN memory : memory[i] # c
    /\ \/ pc[c] \in {"create", "fill", "send"}
       \/ pc[c] \in {"closeDump", "closeConn"} /\ outcome[c] # None
       => \E i \in DOMAIN memory :
              memory[i] = c /\ \A j \in DOMAIN memory : memory[j] = c => j = i

RecordKept(c) == ArchiveKept(c) /\ MemoryKept(c)

IInv == Typed /\ Posted /\ \A c \in Calls : DumpKept(c) /\ RecordKept(c)

LEMMA ElementOf ==
    ASSUME NEW S, NEW s \in Seq(S), NEW k \in DOMAIN s
    PROVE  s[k] \in S
OBVIOUS

LEMMA IInvImplies == IInv => DumpIsTranscript /\ RecordSurvives
<1> SUFFICES ASSUME IInv PROVE DumpIsTranscript /\ RecordSurvives
  OBVIOUS
<1>1. DumpIsTranscript
  <2> SUFFICES ASSUME NEW c \in Calls
               PROVE  LET lines  == LinesOf(c)
                          line(k) == dump[id[c]][k]
                          events == {k \in lines : line(k).kind = "event"}
                          seen   == {line(k).n : k \in events}
                      IN  /\ \A j, k \in events : j < k => line(j).n < line(k).n
                          /\ seen \subseteq 1..Len(sent[c])
                          /\ (1..Len(sent[c])) \ (seen \cup gap[c])
                                 \subseteq (IF writer[c] = None THEN {} ELSE {Len(sent[c])})
                          /\ \A k \in events, j \in lines \ events :
                                 line(k).for = line(j).n => j < k
    BY DEF DumpIsTranscript
  <2>1. id[c] \in Ids \cup {None} /\ DumpKept(c)
    BY DEF IInv, Typed
  <2>2. CASE id[c] = None
    BY <2>1, <2>2 DEF DumpKept, Placed, LinesOf
  <2>3. CASE id[c] \in Ids
    <3>1. id[c] # None
      BY <2>3, ArchiveAssumption
    <3>2. \A k \in DOMAIN dump[id[c]] :
              dump[id[c]][k].kind \in {"command", "event"} /\ dump[id[c]][k].n \in Nat
      <4>1. dump[id[c]] \in Seq(Lines)
        BY <2>3 DEF IInv, Typed
      <4>2. \A k \in DOMAIN dump[id[c]] : dump[id[c]][k] \in Lines
        BY <4>1, ElementOf
      <4> QED
        BY <4>2 DEF Lines
    <3> QED
      BY <2>1, <2>3, <3>1, <3>2 DEF DumpKept, EventsKept, Ordered, Covered, LinesOf
  <2> QED
    BY <2>1, <2>2, <2>3
<1>2. RecordSurvives
  BY ArchiveAssumption
     DEF IInv, RecordKept, ArchiveKept, MemoryKept, RecordSurvives, Whole, DumpKept, Placed, Ended
<1> QED
  BY <1>1, <1>2

LEMMA InitIInv == Init => IInv
<1> SUFFICES ASSUME Init PROVE IInv
  OBVIOUS
<1>1. Typed
  BY DEF Init, Typed, Points
<1>2. Posted
  BY DEF Init, Posted
<1>3. ASSUME NEW c \in Calls PROVE DumpKept(c) /\ RecordKept(c)
  <2>1. /\ pc[c] = "none" /\ id[c] = None /\ writer[c] = None /\ audio[c] = "off"
        /\ sent[c] = <<>> /\ memory = <<>> /\ outcome[c] = None
        /\ \A i \in Ids : dump[i] = <<>>
    BY DEF Init
  <2>2. DumpKept(c)
    BY <2>1, ArchiveAssumption
       DEF DumpKept, Placed, Numbered, EventsKept, Ordered, Covered
  <2>3. RecordKept(c)
    BY <2>1, ArchiveAssumption DEF RecordKept, ArchiveKept, MemoryKept, Ended
  <2> QED
    BY <2>2, <2>3
<1> QED
  BY <1>1, <1>2, <1>3 DEF IInv

-----------------------------------------------------------------------------
(* The dump *)

\* The file of id i has one more line.
Grown(i, line) ==
    /\ \A j \in Ids \ {i} : dump'[j] = dump[j]
    /\ DOMAIN dump'[i] = DOMAIN dump[i] \cup {Len(dump[i]) + 1}
    /\ \A k \in DOMAIN dump[i] : k \in Nat /\ k < Len(dump[i]) + 1 /\ dump'[i][k] = dump[i][k]
    /\ dump'[i][Len(dump[i]) + 1] = line

LEMMA LineWritten ==
    ASSUME Typed, NEW c \in Calls, id[c] \in Ids, NEW line \in Lines, AppendLine(c, line)
    PROVE  /\ dump' \in [Ids -> Seq(Lines)] /\ gap' = [d \in Calls |-> gap'[d]]
           /\ \A d \in Calls \ {c} : gap'[d] = gap[d]
           /\ gap[c] \subseteq gap'[c]
           /\ \/ Grown(id[c], line)
              \/ dump' = dump /\ (line.kind = "event" => line.n \in gap'[c])
<1>1. /\ dump \in [Ids -> Seq(Lines)] /\ dump[id[c]] \in Seq(Lines)
      /\ gap = [d \in Calls |-> gap[d]]
  BY DEF Typed
<1>2. CASE dump' = [dump EXCEPT ![id[c]] = Append(@, line)] /\ gap' = gap
  <2>1. Append(dump[id[c]], line) \in Seq(Lines)
    BY <1>1
  <2>2. dump' \in [Ids -> Seq(Lines)] /\ dump'[id[c]] = Append(dump[id[c]], line)
    BY <1>1, <1>2, <2>1
  <2>3. Grown(id[c], line)
    BY <1>1, <1>2, <2>2 DEF Grown
  <2> QED
    BY <1>1, <1>2, <2>2, <2>3
<1>3. CASE /\ dump' = dump
           /\ gap' = [gap EXCEPT ![c] = @ \cup {IF line.kind = "event" THEN line.n ELSE 0}]
  BY <1>1, <1>3
<1> QED
  BY <1>2, <1>3 DEF AppendLine

\* A call that a step does not concern, but for a line of another call in its file.
SameDump(d) ==
    /\ pc'[d] = pc[d] /\ id'[d] = id[d] /\ writer'[d] = writer[d] /\ audio'[d] = audio[d]
    /\ commands'[d] = commands[d] /\ sent'[d] = sent[d] /\ gap'[d] = gap[d]

LEMMA OtherDump ==
    ASSUME Typed, NEW d \in Calls, DumpKept(d), SameDump(d),
           \/ dump' = dump
           \/ \E i \in Ids, line \in Lines : line.call # d /\ Grown(i, line)
    PROVE  DumpKept(d)'
<1>1. CASE dump' = dump
  BY <1>1 DEF DumpKept, Placed, Numbered, EventsKept, Ordered, Covered, SameDump
<1>2. ASSUME NEW i \in Ids, NEW line \in Lines, line.call # d, Grown(i, line)
      PROVE  DumpKept(d)'
  <2>1. \A j \in Ids : \A k \in DOMAIN dump'[j] : dump'[j][k].call = d =>
            k \in DOMAIN dump[j] /\ dump'[j][k] = dump[j][k]
    BY <1>2 DEF Grown
  <2>2. \A j \in Ids : \A k \in DOMAIN dump[j] :
            k \in DOMAIN dump'[j] /\ dump'[j][k] = dump[j][k]
    BY <1>2 DEF Grown
  <2>3. Placed(d)' /\ Numbered(d)' /\ EventsKept(d)'
    BY <2>1 DEF DumpKept, Placed, Numbered, EventsKept, SameDump
  <2>4. Ordered(d)'
    BY <2>1 DEF DumpKept, Ordered
  <2>5. Covered(d)'
    <3>1. id[d] \in Ids \/ sent[d] = <<>>
      BY DEF Typed, DumpKept, Placed
    <3> QED
      BY <2>2, <3>1 DEF DumpKept, Covered, SameDump
  <2> QED
    BY <2>3, <2>4, <2>5 DEF DumpKept
<1> QED
  BY <1>1, <1>2

\* A handler that moves on without writing, reading or sending anything.
LEMMA MovesOn ==
    ASSUME Typed, NEW c \in Calls, DumpKept(c), dump' = dump, sent'[c] = sent[c],
           gap'[c] = gap[c], writer'[c] = writer[c], id'[c] = id[c],
           pc'[c] # "none", pc[c] # "none",
           writer[c] = "loop" => pc'[c] \in {"refused", "reply", "serve"},
           pc'[c] \in Ended \/ (commands'[c] = commands[c] /\ pc[c] \notin Ended)
    PROVE  DumpKept(c)'
BY DEF DumpKept, Placed, Numbered, EventsKept, Ordered, Covered


LEMMA QuietDump ==
    ASSUME IInv, NEW c \in Calls,
           \/ Reject(c) \/ NoReply(c) \/ EndCall(c) \/ KeepRecord(c) \/ CreateFile(c)
           \/ CreateFails(c) \/ FillFile(c) \/ FillFails(c) \/ Send(c) \/ SendRecordFails(c)
           \/ CloseDump(c) \/ CloseConn(c)
    PROVE  Typed' /\ \A d \in Calls : DumpKept(d)'
<1>1. Typed /\ \A d \in Calls : DumpKept(d)
  BY DEF IInv
<1> USE DEF Reject, NoReply, EndCall, KeepRecord, CreateFile, CreateFails, FillFile, FillFails,
            Send, SendRecordFails, CloseDump, CloseConn, WriterReturns, Stored, Goto, atCall, atDump
<1>2. \A d \in Calls \ {c} : SameDump(d)
  BY <1>1 DEF Typed, SameDump
<1>3. /\ dump' = dump /\ sent' = sent /\ gap' = gap /\ writer' = writer /\ id' = id
      /\ audio' = audio /\ backend' = backend
      /\ pc[c] # "none" /\ pc'[c] \in Points \ {"none"}
  BY <1>1 DEF Typed, Points
<1>4. writer[c] = "loop" => pc'[c] \in {"refused", "reply", "serve"}
  BY <1>1 DEF Typed, DumpKept, Placed
<1>5. pc'[c] \in Ended \/ (commands'[c] = commands[c] /\ pc[c] \notin Ended)
  BY <1>1 DEF Typed, Ended
<1>6. /\ handle' \in [Calls -> {"off", "open", "closed"}] /\ commands' \in [Calls -> Nat]
      /\ pc' \in [Calls -> Points]
  <2>1. /\ handle \in [Calls -> {"off", "open", "closed"}] /\ commands \in [Calls -> Nat]
        /\ pc \in [Calls -> Points]
    BY <1>1 DEF Typed
  <2>2. /\ handle' = handle \/ handle' = [handle EXCEPT ![c] = handle'[c]]
        /\ handle'[c] \in {"off", "open", "closed"}
    BY <2>1
  <2>3. commands' = commands \/ commands' = [commands EXCEPT ![c] = 0]
    OBVIOUS
  <2>4. pc' = [pc EXCEPT ![c] = pc'[c]]
    BY <2>1
  <2> QED
    BY SMTT(30), <1>3, <2>1, <2>2, <2>3, <2>4
<1>7. /\ memory' \in Seq(Calls) /\ archive' = [i \in Ids |-> archive'[i]]
      /\ outcome' \in [Calls -> {"ok", "failed", None}]
  <2>1. /\ memory \in Seq(Calls) /\ archive = [i \in Ids |-> archive[i]]
        /\ outcome \in [Calls -> {"ok", "failed", None}]
    BY <1>1 DEF Typed
  <2>2. memory' = memory \/ memory' = Append(memory, c)
    OBVIOUS
  <2>3. archive' = archive \/ \E x : archive' = [archive EXCEPT ![id[c]] = x]
    OBVIOUS
  <2>4. outcome' = outcome \/ outcome' = [outcome EXCEPT ![c] = "ok"]
        \/ outcome' = [outcome EXCEPT ![c] = "failed"]
    OBVIOUS
  <2>5. memory' \in Seq(Calls)
    BY <2>1, <2>2
  <2>6. archive' = [i \in Ids |-> archive'[i]]
    BY <2>1, <2>3
  <2> QED
    BY <2>1, <2>4, <2>5, <2>6
<1>8. Typed'
  BY <1>1, <1>3, <1>6, <1>7 DEF Typed
<1>9. DumpKept(c)'
  BY <1>1, <1>3, <1>4, <1>5, MovesOn
<1> QED
  BY <1>1, <1>2, <1>3, <1>8, <1>9, OtherDump

LEMMA SendFailsDump ==
    ASSUME IInv, NEW c \in Calls, NEW who \in {"loop", "audio"}, SendFails(c, who)
    PROVE  Typed' /\ \A d \in Calls : DumpKept(d)'
<1>1. Typed /\ \A d \in Calls : DumpKept(d)
  BY DEF IInv
<1>2. /\ dump' = dump /\ sent' = sent /\ gap' = gap /\ writer' = writer /\ id' = id
      /\ commands' = commands /\ handle' = handle /\ writer[c] = None
      /\ UNCHANGED <<backend, memory, archive, outcome>>
  BY DEF SendFails, MaySend, atCall
<1>3. \/ /\ pc[c] \in {"reply", "refused", "serve"} /\ audio' = audio
         /\ pc' \in {[pc EXCEPT ![c] = "closeDump"], [pc EXCEPT ![c] = "record"]}
      \/ /\ audio[c] = "on" /\ pc' = pc
         /\ audio' = [audio EXCEPT ![c] = "off"]
  BY DEF SendFails, MaySend
<1>4. Typed'
  BY <1>1, <1>2, <1>3 DEF Typed, Points
<1>5. \A d \in Calls \ {c} : SameDump(d)
  BY <1>1, <1>2, <1>3 DEF Typed, SameDump
<1>6. DumpKept(c)'
  <2>1. pc[c] # "none" /\ pc'[c] # "none"
    BY <1>1, <1>3 DEF Typed, DumpKept, Placed
  <2>2. pc'[c] \in Ended \/ pc[c] \notin Ended
    BY <1>1, <1>3 DEF Typed, Ended
  <2>3. writer[c] # "loop"
    BY <1>2, ArchiveAssumption
  <2>4. pc'[c] \in Ended \/ (commands'[c] = commands[c] /\ pc[c] \notin Ended)
    BY <1>2, <2>2
  <2> QED
    BY <1>1, <1>2, <2>1, <2>3, <2>4, MovesOn
<1> QED
  BY <1>1, <1>2, <1>4, <1>5, <1>6, OtherDump

LEMMA ConnectDump ==
    ASSUME IInv, NEW c \in Calls, Connect(c)
    PROVE  Typed' /\ \A d \in Calls : DumpKept(d)'
<1>1. Typed /\ \A d \in Calls : DumpKept(d)
  BY DEF IInv
<1>2. /\ pc[c] = "none" /\ pc' = [pc EXCEPT ![c] = "first"]
      /\ UNCHANGED <<backend, writer, audio, commands, sent, dump, gap, memory, archive, outcome>>
      /\ handle' = handle \/ handle' = [handle EXCEPT ![c] = "open"]
  BY DEF Connect, Goto
<1>3. PICK i \in Ids : id' = [id EXCEPT ![c] = i]
  BY DEF Connect
<1>4. Typed'
  BY <1>1, <1>2, <1>3 DEF Typed, Points
<1>5. \A d \in Calls \ {c} : SameDump(d)
  BY <1>1, <1>2, <1>3 DEF Typed, SameDump
<1>6. /\ pc'[c] = "first" /\ id'[c] = i /\ i # None /\ sent[c] = <<>> /\ writer[c] = None
      /\ \A j \in Ids : \A k \in DOMAIN dump[j] : dump[j][k].call # c
  BY <1>1, <1>2, <1>3, ArchiveAssumption DEF Typed, DumpKept, Placed
<1>7. DumpKept(c)'
  <2>1. Placed(c)'
    BY <1>2, <1>6, ArchiveAssumption DEF Placed
  <2>2. Numbered(c)' /\ EventsKept(c)' /\ Ordered(c)' /\ Covered(c)'
    BY <1>2, <1>6 DEF Numbered, EventsKept, Ordered, Covered
  <2> QED
    BY <2>1, <2>2 DEF DumpKept
<1> QED
  BY <1>1, <1>2, <1>4, <1>5, <1>7, OtherDump

\* A command is behind every event sent so far, and no event answers it yet.
LEMMA ReadDump ==
    ASSUME IInv, NEW c \in Calls, ReadCommand(c)
    PROVE  Typed' /\ \A d \in Calls : DumpKept(d)'
<1> DEFINE line == [call |-> c, kind |-> "command", n |-> commands[c] + 1, for |-> 0]
<1>1. Typed /\ \A d \in Calls : DumpKept(d)
  BY DEF IInv
<1>2. /\ pc[c] \in {"first", "serve"} /\ writer[c] # "loop"
      /\ pc' = [pc EXCEPT ![c] = "refused"] \/ pc' = [pc EXCEPT ![c] = "reply"]
      /\ audio' = audio \/ audio' = [audio EXCEPT ![c] = IF c \in Recognised THEN "on" ELSE @]
      /\ commands' = [commands EXCEPT ![c] = @ + 1]
      /\ UNCHANGED <<backend, id, memory, archive, outcome, handle, writer, sent>>
  BY DEF ReadCommand, Goto, atCall
<1>3. AppendLine(c, line)
  BY DEF ReadCommand
<1>4. /\ line \in Lines /\ line.call = c /\ line.kind = "command" /\ line.n = commands[c] + 1
      /\ commands[c] \in Nat /\ commands'[c] = commands[c] + 1
  BY <1>1, <1>2 DEF Typed, Lines
<1> HIDE DEF line
<1>5. id[c] \in Ids
  BY <1>1, <1>2 DEF Typed, DumpKept, Placed
<1>6. /\ dump' \in [Ids -> Seq(Lines)] /\ gap' = [d \in Calls |-> gap'[d]]
      /\ \A d \in Calls \ {c} : gap'[d] = gap[d]
      /\ gap[c] \subseteq gap'[c]
      /\ Grown(id[c], line) \/ dump' = dump
  BY <1>1, <1>3, <1>4, <1>5, LineWritten
<1>7. /\ pc' \in [Calls -> Points] /\ commands' \in [Calls -> Nat]
      /\ audio' \in [Calls -> {"off", "on"}]
  <2>1. pc' \in [Calls -> Points]
    <3>1. pc \in [Calls -> Points]
      BY <1>1 DEF Typed
    <3>2. "refused" \in Points /\ "reply" \in Points
      BY DEF Points
    <3> QED
      BY <1>2, <3>1, <3>2
  <2>2. commands' \in [Calls -> Nat]
    BY <1>1, <1>2, <1>4 DEF Typed
  <2>3. audio' \in [Calls -> {"off", "on"}]
    BY <1>1, <1>2 DEF Typed
  <2> QED
    BY <2>1, <2>2, <2>3
<1>8. Typed'
  BY <1>1, <1>2, <1>6, <1>7 DEF Typed
<1>9. \A d \in Calls \ {c} : DumpKept(d)'
  <2>1. \A d \in Calls \ {c} : SameDump(d)
    BY <1>1, <1>2, <1>6 DEF Typed, SameDump
  <2> QED
    BY <1>1, <1>4, <1>5, <1>6, <2>1, OtherDump
<1>10. DumpKept(c)'
  <2>1. \A j \in Ids : \A k \in DOMAIN dump'[j] :
            \/ k \in DOMAIN dump[j] /\ dump'[j][k] = dump[j][k]
            \/ /\ j = id[c] /\ k = Len(dump[j]) + 1 /\ dump'[j][k] = line
               /\ \A m \in DOMAIN dump[j] : m < k
    BY SMTT(30), <1>5, <1>6 DEF Grown
  <2>2. \A j \in Ids : \A k \in DOMAIN dump[j] :
            k \in DOMAIN dump'[j] /\ dump'[j][k] = dump[j][k]
    BY <1>6 DEF Grown
  <2>3. pc'[c] \in {"refused", "reply"} /\ pc[c] \notin Ended /\ pc[c] # "none"
    BY <1>1, <1>2 DEF Typed, Ended
  <2>4. Placed(c)'
    BY <1>1, <1>2, <1>4, <1>5, <2>1, <2>3 DEF DumpKept, Placed
  <2>5. Numbered(c)'
    <3>1. ASSUME NEW n \in DOMAIN sent[c] PROVE sent[c][n] <= commands'[c]
      <4>1. sent[c][n] \in Nat /\ sent[c][n] <= commands[c]
        BY <1>1, <2>3 DEF Typed, DumpKept, Numbered
      <4> QED
        BY <1>4, <4>1
    <3>2. ASSUME NEW j \in Ids, NEW k \in DOMAIN dump'[j],
                 dump'[j][k].call = c, dump'[j][k].kind = "command"
          PROVE  dump'[j][k].n <= commands'[c]
      <4>1. dump'[j] \in Seq(Lines)
        BY <1>6
      <4>2. dump'[j][k] \in Lines
        BY <4>1, ElementOf
      <4>3. dump'[j][k].n \in Nat
        BY <4>2 DEF Lines
      <4>4. dump'[j][k].n <= commands[c] \/ dump'[j][k].n = commands[c] + 1
        BY <1>1, <1>4, <2>1, <2>3, <3>2 DEF DumpKept, Numbered
      <4> QED
        BY <1>4, <4>3, <4>4
    <3> QED
      BY <1>2, <3>1, <3>2 DEF Numbered
  <2>6. EventsKept(c)'
    BY <1>1, <1>2, <1>4, <2>1 DEF DumpKept, EventsKept
  <2>7. Ordered(c)'
    <3> SUFFICES ASSUME NEW i \in Ids, NEW j \in DOMAIN dump'[i], NEW k \in DOMAIN dump'[i],
                        dump'[i][j].call = c, dump'[i][k].call = c, dump'[i][k].kind = "event"
                 PROVE  /\ dump'[i][j].kind = "event" /\ j < k =>
                               dump'[i][j].n < dump'[i][k].n
                        /\ dump'[i][j].kind = "command" /\ dump'[i][k].for = dump'[i][j].n =>
                               j < k
      BY DEF Ordered
    <3>1. k \in DOMAIN dump[i] /\ dump'[i][k] = dump[i][k]
      BY <1>4, <2>1
    <3>2. CASE j \in DOMAIN dump[i] /\ dump'[i][j] = dump[i][j]
      BY <1>1, <3>1, <3>2 DEF DumpKept, Ordered
    <3>3. CASE dump'[i][j] = line
      <4>1. dump[i][k].for <= commands[c] /\ dump[i][k].for \in Nat
        <5>1. dump[i][k].n \in 1..Len(sent[c]) /\ dump[i][k].for = sent[c][dump[i][k].n]
          BY <1>1, <3>1 DEF DumpKept, EventsKept
        <5>2. sent[c] \in Seq(Nat)
          BY <1>1 DEF Typed
        <5> QED
          BY <1>1, <2>3, <5>1, <5>2 DEF DumpKept, Numbered
      <4> QED
        BY <1>4, <3>1, <3>3, <4>1
    <3> QED
      BY <2>1, <3>2, <3>3
  <2>8. Covered(c)'
    BY <1>1, <1>2, <1>5, <1>6, <2>2 DEF DumpKept, Covered
  <2> QED
    BY <2>4, <2>5, <2>6, <2>7, <2>8 DEF DumpKept
<1> QED
  BY <1>8, <1>9, <1>10

LEMMA SendDump ==
    ASSUME IInv, NEW c \in Calls, NEW who \in {"loop", "audio"}, SendEvent(c, who)
    PROVE  Typed' /\ \A d \in Calls : DumpKept(d)'
<1> DEFINE for == IF who = "loop" THEN commands[c] ELSE 0
<1>1. Typed /\ \A d \in Calls : DumpKept(d)
  BY DEF IInv
<1>2. /\ writer[c] = None /\ writer' = [writer EXCEPT ![c] = who]
      /\ sent' = [sent EXCEPT ![c] = Append(@, for)]
      /\ IF who = "loop" THEN pc[c] \in {"reply", "refused", "serve"} ELSE audio[c] = "on"
      /\ UNCHANGED <<pc, backend, id, memory, archive, outcome, handle, audio, commands, dump, gap>>
  BY DEF SendEvent, MaySend, atCall
<1>3. for \in Nat /\ for <= commands[c] /\ commands[c] \in Nat
  BY <1>1 DEF Typed
<1> HIDE DEF for
<1>4. /\ sent[c] \in Seq(Nat) /\ sent'[c] \in Seq(Nat) /\ sent' \in [Calls -> Seq(Nat)]
      /\ Len(sent[c]) \in Nat /\ Len(sent'[c]) = Len(sent[c]) + 1
      /\ \A n \in 1..Len(sent[c]) : sent'[c][n] = sent[c][n]
      /\ sent'[c][Len(sent[c]) + 1] = for
  BY <1>1, <1>2, <1>3 DEF Typed
<1>5. writer' \in [Calls -> {"loop", "audio", None}] /\ writer'[c] = who /\ who # None
  BY <1>1, <1>2, ArchiveAssumption DEF Typed
<1>6. Typed'
  BY <1>1, <1>2, <1>4, <1>5 DEF Typed
<1>7. \A d \in Calls \ {c} : DumpKept(d)'
  <2>1. \A d \in Calls \ {c} : SameDump(d)
    BY <1>1, <1>2 DEF Typed, SameDump
  <2> QED
    BY <1>1, <1>2, <2>1, OtherDump
<1>8. DumpKept(c)'
  <2>1. pc[c] # "none"
    BY <1>1, <1>2 DEF Typed, DumpKept, Placed
  <2>2. Placed(c)'
    BY <1>1, <1>2, <1>4, <1>5, <2>1 DEF DumpKept, Placed
  <2>3. Numbered(c)'
    <3>1. ASSUME NEW n \in DOMAIN sent'[c], pc[c] \notin Ended
          PROVE  sent'[c][n] <= commands[c]
      <4>1. n \in 1..Len(sent[c]) \/ n = Len(sent[c]) + 1
        BY SMTT(30), <1>4
      <4>2. CASE n \in 1..Len(sent[c])
        BY SMTT(30), <1>1, <1>4, <3>1, <4>2 DEF DumpKept, Numbered
      <4>3. CASE n = Len(sent[c]) + 1
        BY <1>3, <1>4, <4>3
      <4> QED
        BY <4>1, <4>2, <4>3
    <3> QED
      BY <1>1, <1>2, <3>1 DEF DumpKept, Numbered
  <2>4. EventsKept(c)'
    <3> SUFFICES ASSUME NEW i \in Ids, NEW k \in DOMAIN dump[i], dump[i][k].call = c,
                        dump[i][k].kind = "event"
                 PROVE  /\ dump[i][k].n \in 1..Len(sent'[c])
                        /\ dump[i][k].for = sent'[c][dump[i][k].n]
                        /\ dump[i][k].n < Len(sent'[c])
      BY <1>2 DEF EventsKept
    <3>1. dump[i][k].n \in 1..Len(sent[c]) /\ dump[i][k].for = sent[c][dump[i][k].n]
      BY <1>1 DEF DumpKept, EventsKept
    <3>2. \A n \in 1..Len(sent[c]) :
              n \in 1..Len(sent'[c]) /\ n < Len(sent'[c]) /\ sent'[c][n] = sent[c][n]
      BY SMTT(30), <1>4
    <3> QED
      BY <3>1, <3>2
  <2>5. Ordered(c)'
    BY <1>1, <1>2 DEF DumpKept, Ordered
  <2>6. Covered(c)'
    <3> SUFFICES ASSUME NEW n \in 1..Len(sent'[c])
                 PROVE  \/ n \in gap[c]
                        \/ n = Len(sent'[c])
                        \/ \E k \in DOMAIN dump[id[c]] :
                               /\ dump[id[c]][k].call = c /\ dump[id[c]][k].kind = "event"
                               /\ dump[id[c]][k].n = n
      BY <1>2, <1>5 DEF Covered
    <3>1. n \in 1..Len(sent[c]) \/ n = Len(sent'[c])
      BY <1>4
    <3> QED
      BY <1>1, <1>2, <3>1 DEF DumpKept, Covered
  <2> QED
    BY <2>2, <2>3, <2>4, <2>5, <2>6 DEF DumpKept
<1> QED
  BY <1>6, <1>7, <1>8

\* An event that was sent gets its line, or is known to be missing, before its
\* writer lets anyone send another.
LEMMA EventDump ==
    ASSUME IInv, NEW c \in Calls, NEW who \in {"loop", "audio"}, DumpEvent(c, who)
    PROVE  Typed' /\ \A d \in Calls : DumpKept(d)'
<1> DEFINE line == Line(c, Len(sent[c]))
<1>1. Typed /\ \A d \in Calls : DumpKept(d)
  BY DEF IInv
<1>2. /\ writer[c] = who /\ who # None /\ writer' = [writer EXCEPT ![c] = None]
      /\ UNCHANGED <<backend, id, memory, archive, outcome, handle, audio, commands, sent>>
  BY ArchiveAssumption DEF DumpEvent, atCall
<1>3. AppendLine(c, line)
  BY DEF DumpEvent
<1>4. Len(sent[c]) \in Nat /\ Len(sent[c]) > 0 /\ sent[c] \in Seq(Nat)
      /\ sent[c][Len(sent[c])] \in Nat
  <2>1. sent[c] \in Seq(Nat) /\ Len(sent[c]) > 0
    BY <1>1, <1>2 DEF Typed, DumpKept, Placed
  <2> QED
    BY <2>1
<1>5. /\ line \in Lines /\ line.call = c /\ line.kind = "event" /\ line.n = Len(sent[c])
      /\ line.for = sent[c][Len(sent[c])]
  BY <1>4 DEF Line, Lines
<1> HIDE DEF line
<1>6. pc[c] # "none" /\ id[c] \in Ids
  BY <1>1, <1>2 DEF Typed, DumpKept, Placed
<1>7. /\ dump' \in [Ids -> Seq(Lines)] /\ gap' = [d \in Calls |-> gap'[d]]
      /\ \A d \in Calls \ {c} : gap'[d] = gap[d]
      /\ gap[c] \subseteq gap'[c]
      /\ \/ Grown(id[c], line)
         \/ dump' = dump /\ Len(sent[c]) \in gap'[c]
  BY <1>1, <1>3, <1>5, <1>6, LineWritten
<1>8. /\ pc' \in [Calls -> Points] /\ \A d \in Calls \ {c} : pc'[d] = pc[d]
      /\ pc'[c] # "none" /\ (pc'[c] \in Ended => pc[c] \in Ended)
      /\ pc[c] \in Ended => pc'[c] \in Ended
  <2>1. pc \in [Calls -> Points]
    BY <1>1 DEF Typed
  <2>2. CASE who = "audio"
    <3>1. pc' = pc
      BY <2>2 DEF DumpEvent
    <3> QED
      BY <1>6, <2>1, <3>1
  <2>3. CASE who = "loop"
    <3>1. pc[c] \in {"refused", "reply", "serve"}
      BY <1>1, <1>2, <2>3 DEF DumpKept, Placed
    <3>2. PICK to \in {"closeDump", "reply", "serve"} : pc' = [pc EXCEPT ![c] = to]
      BY <2>3, <3>1 DEF DumpEvent
    <3>3. to \in Points
      BY DEF Points
    <3> QED
      BY <2>1, <3>1, <3>2, <3>3 DEF Ended
  <2> QED
    BY <2>2, <2>3
<1>9. Typed'
  <2>1. writer' \in [Calls -> {"loop", "audio", None}]
    BY <1>1, <1>2 DEF Typed
  <2> QED
    BY <1>1, <1>2, <1>7, <1>8, <2>1 DEF Typed
<1>10. \A d \in Calls \ {c} : DumpKept(d)'
  <2>1. \A d \in Calls \ {c} : SameDump(d)
    BY <1>1, <1>2, <1>7, <1>8 DEF Typed, SameDump
  <2> QED
    BY <1>1, <1>5, <1>6, <1>7, <2>1, OtherDump
<1>11. DumpKept(c)'
  <2>1. \A j \in Ids : \A k \in DOMAIN dump'[j] :
            \/ k \in DOMAIN dump[j] /\ dump'[j][k] = dump[j][k]
            \/ /\ j = id[c] /\ k = Len(dump[j]) + 1 /\ dump'[j][k] = line
               /\ \A m \in DOMAIN dump[j] : m < k
    BY <1>6, <1>7 DEF Grown
  <2>2. \A j \in Ids : \A k \in DOMAIN dump[j] :
            k \in DOMAIN dump'[j] /\ dump'[j][k] = dump[j][k] /\ k \in Nat
    <3>1. \A j \in Ids : dump[j] \in Seq(Lines)
      BY <1>1 DEF Typed
    <3>2. \A j \in Ids : \A k \in DOMAIN dump[j] : k \in Nat
      BY <3>1
    <3> QED
      BY <1>7, <3>2 DEF Grown
  <2>3. writer'[c] = None
    BY <1>1, <1>2 DEF Typed
  <2>4. Placed(c)'
    <3>1. \A i \in Ids : \A k \in DOMAIN dump'[i] : dump'[i][k].call = c => id[c] = i
      BY <1>1, <2>1 DEF DumpKept, Placed
    <3>2. id[c] # None
      BY <1>6, ArchiveAssumption
    <3> QED
      BY <1>2, <1>8, <2>3, <3>1, <3>2, ArchiveAssumption DEF Placed
  <2>5. Numbered(c)'
    BY <1>1, <1>2, <1>5, <1>8, <2>1 DEF DumpKept, Numbered
  <2>6. EventsKept(c)'
    BY <1>1, <1>2, <1>4, <1>5, <2>1, <2>3 DEF DumpKept, EventsKept
  <2>7. Ordered(c)'
    <3> SUFFICES ASSUME NEW i \in Ids, NEW j \in DOMAIN dump'[i], NEW k \in DOMAIN dump'[i],
                        dump'[i][j].call = c, dump'[i][k].call = c, dump'[i][k].kind = "event"
                 PROVE  /\ dump'[i][j].kind = "event" /\ j < k =>
                               dump'[i][j].n < dump'[i][k].n
                        /\ dump'[i][j].kind = "command" /\ dump'[i][k].for = dump'[i][j].n =>
                               j < k
      BY DEF Ordered
    <3>1. CASE j \in DOMAIN dump[i] /\ dump'[i][j] = dump[i][j]
      <4>1. CASE k \in DOMAIN dump[i] /\ dump'[i][k] = dump[i][k]
        BY <1>1, <3>1, <4>1 DEF DumpKept, Ordered
      <4>2. CASE dump'[i][k] = line /\ j < k
        BY <1>1, <1>2, <1>5, <3>1, <4>2 DEF DumpKept, EventsKept
      <4> QED
        BY <2>1, <3>1, <4>1, <4>2
    <3>2. CASE i = id[c] /\ j = Len(dump[i]) + 1 /\ dump'[i][j] = line
      <4>1. ~(j < k)
        <5>1. dump[i] \in Seq(Lines)
          BY <1>1 DEF Typed
        <5>2. j \in Nat
          BY <3>2, <5>1
        <5>3. (k \in DOMAIN dump[i] /\ k \in Nat) \/ k = j
          BY <2>1, <2>2, <3>2
        <5>4. \A m \in DOMAIN dump[i] : m < j
          BY <3>2, <5>1
        <5> QED
          BY <5>2, <5>3, <5>4
      <4> QED
        BY <1>5, <3>2, <4>1
    <3> QED
      BY <2>1, <3>1, <3>2
  <2>8. Covered(c)'
    <3> SUFFICES ASSUME NEW n \in 1..Len(sent[c])
                 PROVE  \/ n \in gap'[c]
                        \/ \E k \in DOMAIN dump'[id[c]] :
                               /\ dump'[id[c]][k].call = c /\ dump'[id[c]][k].kind = "event"
                               /\ dump'[id[c]][k].n = n
      BY <1>2 DEF Covered
    <3>1. CASE n = Len(sent[c])
      <4>1. CASE Grown(id[c], line)
        BY <1>5, <3>1, <4>1 DEF Grown
      <4> QED
        BY <1>7, <3>1, <4>1
    <3>2. CASE n # Len(sent[c])
      BY <1>1, <1>6, <1>7, <2>2, <3>2 DEF DumpKept, Covered
    <3> QED
      BY <3>1, <3>2
  <2> QED
    BY <2>4, <2>5, <2>6, <2>7, <2>8 DEF DumpKept
<1> QED
  BY <1>9, <1>10, <1>11

\* The end of the process notes the line that will not be written any more.
LEMMA RestartDump ==
    ASSUME IInv, Restart
    PROVE  Typed' /\ \A d \in Calls : DumpKept(d)'
<1>1. Typed /\ \A d \in Calls : DumpKept(d)
  BY DEF IInv
<1>2. /\ UNCHANGED <<backend, id, sent, dump, archive, outcome>> /\ memory' = <<>>
      /\ pc' = [c \in Calls |-> IF pc[c] \in {"none", "done"} THEN pc[c] ELSE "gone"]
      /\ handle' = [c \in Calls |-> "off"] /\ commands' = [c \in Calls |-> 0]
      /\ audio' = [c \in Calls |-> "off"] /\ writer' = [c \in Calls |-> None]
      /\ gap' = [c \in Calls |-> IF writer[c] = None THEN gap[c] ELSE gap[c] \cup {Len(sent[c])}]
  BY DEF Restart
<1>3. Typed'
  <2>1. memory' \in Seq(Calls)
    BY <1>2
  <2> QED
    BY <1>1, <1>2, <2>1 DEF Typed, Points
<1>4. ASSUME NEW d \in Calls PROVE DumpKept(d)'
  <2>1. /\ writer'[d] = None /\ audio'[d] = "off" /\ gap[d] \subseteq gap'[d]
        /\ writer[d] # None => Len(sent[d]) \in gap'[d]
        /\ pc'[d] = "none" <=> pc[d] = "none"
        /\ pc'[d] # "none" => pc'[d] \in Ended
    BY <1>2 DEF Ended
  <2>2. Placed(d)'
    BY <1>1, <1>2, <2>1, ArchiveAssumption DEF DumpKept, Placed
  <2>3. Numbered(d)'
    <3>1. CASE pc'[d] \in Ended
      BY <3>1 DEF Numbered
    <3>2. CASE pc[d] = "none"
      <4>1. sent[d] = <<>> /\ \A i \in Ids : \A k \in DOMAIN dump[i] : dump[i][k].call # d
        BY <1>1, <3>2, ArchiveAssumption DEF DumpKept, Placed
      <4> QED
        BY <1>2, <4>1 DEF Numbered
    <3> QED
      BY <2>1, <3>1, <3>2
  <2>4. EventsKept(d)' /\ Ordered(d)' /\ Covered(d)'
    BY <1>1, <1>2, <2>1 DEF DumpKept, EventsKept, Ordered, Covered
  <2> QED
    BY <2>2, <2>3, <2>4 DEF DumpKept
<1> QED
  BY <1>3, <1>4


-----------------------------------------------------------------------------
(* The record *)

\* A call that a step does not concern, but for what another call, of the same
\* id or another, adds to memory and the archive.
LEMMA OtherRecord ==
    ASSUME IInv, NEW d \in Calls, NEW c \in Calls \ {d},
           backend' = backend, pc'[d] = pc[d], id'[d] = id[d], outcome'[d] = outcome[d],
           \A e \in Calls : id'[e] = id[e] \/ id[e] = None,
           id[d] # None => archive'[id[d]] = archive[id[d]] \/ id'[c] = id[d],
           memory' = memory \/ memory' = Append(memory, c)
    PROVE  RecordKept(d)'
<1>1. RecordKept(d) /\ memory \in Seq(Calls)
  BY DEF IInv, Typed
<1>2. ArchiveKept(d)'
  BY <1>1 DEF RecordKept, ArchiveKept, Whole
<1>3. MemoryKept(d)'
  <2>1. CASE memory' = memory
    BY <1>1, <2>1 DEF RecordKept, MemoryKept
  <2>2. CASE memory' = Append(memory, c)
    <3>1. /\ DOMAIN memory' = DOMAIN memory \cup {Len(memory) + 1}
          /\ memory'[Len(memory) + 1] = c
          /\ \A i \in DOMAIN memory : memory'[i] = memory[i]
      BY <1>1, <2>2
    <3> QED
      BY <1>1, <3>1 DEF RecordKept, MemoryKept
  <2> QED
    BY <2>1, <2>2
<1> QED
  BY <1>2, <1>3 DEF RecordKept

\* Steps before the record and after it.
LEMMA QuietRecord ==
    ASSUME IInv, NEW c \in Calls,
           \/ Connect(c) \/ Reject(c) \/ ReadCommand(c) \/ NoReply(c) \/ EndCall(c)
           \/ CloseDump(c) \/ CloseConn(c)
           \/ \E who \in {"loop", "audio"} :
                  SendEvent(c, who) \/ SendFails(c, who) \/ DumpEvent(c, who)
    PROVE  Posted' /\ \A d \in Calls : RecordKept(d)'
<1>1. /\ pc \in [Calls -> Points] /\ id \in [Calls -> Ids \cup {None}] /\ Posted
      /\ RecordKept(c) /\ DumpKept(c)
  BY DEF IInv, Typed
<1>2. /\ UNCHANGED <<backend, memory, archive, outcome>>
      /\ \A d \in Calls \ {c} : pc'[d] = pc[d] /\ id'[d] = id[d]
      /\ id'[c] = id[c] \/ (pc[c] = "none" /\ id'[c] \in Ids)
  BY <1>1 DEF Connect, Reject, ReadCommand, NoReply, EndCall, CloseDump, CloseConn, SendEvent,
              SendFails, DumpEvent, Goto, atCall, atDump
<1>3. id'[c] = id[c] \/ id[c] = None
  BY <1>1, <1>2 DEF DumpKept, Placed
<1>4. Posted'
  BY <1>1, <1>2, <1>3, ArchiveAssumption DEF Posted
<1>5. ASSUME NEW d \in Calls \ {c} PROVE RecordKept(d)'
  BY <1>2, <1>3, OtherRecord
<1>6. \/ /\ pc[c] \in {"none", "first", "refused", "reply", "serve"}
         /\ pc'[c] \in {"first", "refused", "reply", "serve", "record", "closeDump"}
      \/ pc'[c] = pc[c]
      \/ pc[c] = "closeDump" /\ pc'[c] = "closeConn"
      \/ pc[c] = "closeConn" /\ pc'[c] = "done"
  <2>1. CASE \E who \in {"loop", "audio"} : DumpEvent(c, who)
    <3>1. PICK who \in {"loop", "audio"} : DumpEvent(c, who)
      BY <2>1
    <3>2. CASE who = "audio"
      BY <3>1, <3>2 DEF DumpEvent
    <3>3. CASE who = "loop"
      <4>1. pc[c] \in {"refused", "reply", "serve"}
        BY <1>1, <3>1, <3>3 DEF DumpEvent, DumpKept, Placed
      <4>2. PICK to \in {"closeDump", "reply", "serve"} : pc' = [pc EXCEPT ![c] = to]
        BY <3>1, <3>3, <4>1 DEF DumpEvent
      <4> QED
        BY <1>1, <4>1, <4>2
    <3> QED
      BY <3>1, <3>2, <3>3
  <2> QED
    BY <1>1, <2>1 DEF Connect, Reject, ReadCommand, NoReply, EndCall, CloseDump, CloseConn,
              SendEvent, SendFails, MaySend, Goto
<1>7. ArchiveKept(c)'
  <2>1. outcome[c] # None => pc[c] \notin {"none", "first", "refused", "reply", "serve"}
    BY <1>1 DEF RecordKept, ArchiveKept, Ended
  <2>2. outcome[c] = "ok" => outcome[c] # None
    BY ArchiveAssumption
  <2> QED
    BY <1>1, <1>2, <1>3, <1>6, <2>1, <2>2 DEF RecordKept, ArchiveKept, Whole, Ended, DumpKept, Placed
<1>8. MemoryKept(c)'
  <2>1. outcome[c] # None => pc[c] \notin {"none", "first", "refused", "reply", "serve"}
    BY <1>1 DEF RecordKept, ArchiveKept, Ended
  <2> QED
    BY <1>1, <1>2, <1>6, <2>1 DEF RecordKept, MemoryKept
<1> QED
  BY <1>4, <1>5, <1>7, <1>8 DEF RecordKept

\* The handler hands its record over, and writes it.
LEMMA RecordStep ==
    ASSUME IInv, NEW c \in Calls,
           \/ KeepRecord(c) \/ CreateFile(c) \/ CreateFails(c) \/ FillFile(c) \/ FillFails(c)
           \/ Send(c) \/ SendRecordFails(c)
    PROVE  Posted' /\ \A d \in Calls : RecordKept(d)'
<1>1. /\ pc \in [Calls -> Points] /\ Posted /\ RecordKept(c)
      /\ memory \in Seq(Calls) /\ archive = [i \in Ids |-> archive[i]]
      /\ outcome \in [Calls -> {"ok", "failed", None}]
  BY DEF IInv, Typed
<1>2. /\ backend' = backend /\ id' = id
      /\ \A d \in Calls \ {c} : pc'[d] = pc[d] /\ outcome'[d] = outcome[d]
      /\ memory' = memory \/ memory' = Append(memory, c)
  BY <1>1 DEF KeepRecord, CreateFile, CreateFails, FillFile, FillFails, Send, SendRecordFails,
              WriterReturns, Goto
<1>3. /\ pc[c] # "none" /\ id[c] \in Ids
      /\ backend \in {"local", "http", "s3"}
  <2>1. pc[c] # "none"
    BY DEF KeepRecord, CreateFile, CreateFails, FillFile, FillFails, Send, SendRecordFails, Goto
  <2> QED
    BY <2>1 DEF IInv, Typed, DumpKept, Placed
<1>4. \A i \in Ids \ {id[c]} : archive'[i] = archive[i]
  BY <1>1 DEF KeepRecord, CreateFile, CreateFails, FillFile, FillFails, Send, SendRecordFails,
              WriterReturns, Stored
<1>5. ASSUME NEW d \in Calls \ {c} PROVE RecordKept(d)'
  <2>1. id[d] # None => id[d] \in Ids
    BY DEF IInv, Typed
  <2> QED
    BY <1>2, <1>4, <2>1, OtherRecord
<1>6. Posted'
  <2> SUFFICES ASSUME backend = "http", NEW i \in Ids, NEW d \in archive'[i]
               PROVE  d \in Calls /\ id[d] = i
    BY <1>2 DEF Posted
  <2>1. pc[c] \notin {"create", "fill"}
    BY <1>1 DEF RecordKept, ArchiveKept
  <2>2. archive'[id[c]] \in {archive[id[c]], archive[id[c]] \cup {c}}
    BY <1>1, <1>3, <2>1
       DEF KeepRecord, CreateFile, CreateFails, FillFile, FillFails, Send, SendRecordFails,
           WriterReturns, Stored, Goto
  <2>3. \A e \in archive[i] : e \in Calls /\ id[e] = i
    BY <1>1 DEF Posted
  <2>4. CASE i # id[c]
    BY <1>4, <2>3, <2>4
  <2>5. CASE i = id[c]
    <3>1. d \in archive[i] \/ d = c
      BY <2>2, <2>5
    <3> QED
      BY <2>3, <2>5, <3>1
  <2> QED
    BY <2>4, <2>5
<1>7. ArchiveKept(c)'
  <2>1. CASE KeepRecord(c) \/ CreateFile(c)
    <3>1. /\ outcome[c] = None /\ outcome' = outcome
          /\ pc'[c] = "create" => backend = "local"
          /\ pc'[c] = "send" => backend # "local"
          /\ pc'[c] \in {"create", "send"}
             \/ (pc'[c] = "fill" /\ backend = "local" /\ archive'[id[c]] = "empty")
      BY <1>1, <1>3, <2>1 DEF KeepRecord, CreateFile, Goto, RecordKept, ArchiveKept, Ended
    <3>2. None # "ok"
      BY ArchiveAssumption
    <3> QED
      BY <1>2, <3>1, <3>2 DEF ArchiveKept
  <2>2. CASE CreateFails(c) \/ FillFails(c) \/ SendRecordFails(c)
    <3>1. pc'[c] = "closeDump" /\ outcome'[c] = "failed"
      BY <1>1, <2>2 DEF CreateFails, FillFails, SendRecordFails, WriterReturns, Goto
    <3> QED
      BY <3>1 DEF ArchiveKept
  <2>3. CASE FillFile(c)
    <3>1. /\ pc'[c] = "closeDump" /\ pc[c] = "fill" /\ backend = "local"
          /\ archive[id[c]] = "empty" => archive'[id[c]] = c
      BY <1>1, <1>3, <2>3 DEF FillFile, Goto, RecordKept, ArchiveKept
    <3>2. id[c] # None /\ (\A d \in Calls \ {c} : id[d] # id[c]) => archive[id[c]] = "empty"
      BY <1>1, <3>1 DEF RecordKept, ArchiveKept
    <3> QED
      BY <1>2, <3>1, <3>2 DEF ArchiveKept, Whole
  <2>4. CASE Send(c)
    <3>1. /\ pc'[c] = "closeDump"
          /\ archive'[id[c]] = IF backend = "http" THEN archive[id[c]] \cup {c} ELSE c
      BY <1>1, <1>3, <2>4 DEF Send, Stored, Goto
    <3>2. backend = "http" /\ (\A d \in Calls \ {c} : id[d] # id[c]) => archive[id[c]] \subseteq {c}
      BY <1>1, <1>3 DEF Posted
    <3> QED
      BY <1>2, <3>1, <3>2 DEF ArchiveKept, Whole
  <2> QED
    BY <2>1, <2>2, <2>3, <2>4
<1>8. MemoryKept(c)'
  <2>1. CASE KeepRecord(c)
    <3>1. \A i \in DOMAIN memory : memory[i] # c
      BY <1>1, <2>1 DEF KeepRecord, Goto, RecordKept, MemoryKept
    <3>2. memory' = Append(memory, c) /\ pc'[c] \in {"create", "send"}
      BY <1>1, <2>1 DEF KeepRecord, Goto
    <3>3. /\ DOMAIN memory' = DOMAIN memory \cup {Len(memory) + 1}
          /\ memory'[Len(memory) + 1] = c
          /\ \A i \in DOMAIN memory : memory'[i] = memory[i]
      BY <1>1, <3>2
    <3> QED
      BY <3>1, <3>2, <3>3 DEF MemoryKept
  <2>2. CASE ~KeepRecord(c)
    <3>1. /\ pc[c] \in {"create", "fill", "send"} /\ pc'[c] \in {"fill", "closeDump"}
          /\ memory' = memory
      BY <1>1, <2>2 DEF CreateFile, CreateFails, FillFile, FillFails, Send, SendRecordFails,
                        WriterReturns, Goto
    <3> QED
      BY <1>1, <3>1 DEF RecordKept, MemoryKept
  <2> QED
    BY <2>1, <2>2
<1> QED
  BY <1>5, <1>6, <1>7, <1>8 DEF RecordKept

LEMMA RestartRecord ==
    ASSUME IInv, Restart
    PROVE  Posted' /\ \A d \in Calls : RecordKept(d)'
<1>1. /\ UNCHANGED <<backend, id, archive, outcome>> /\ memory' = <<>>
      /\ pc' = [c \in Calls |-> IF pc[c] \in {"none", "done"} THEN pc[c] ELSE "gone"]
  BY DEF Restart
<1>2. Posted'
  BY <1>1 DEF IInv, Posted
<1>3. ASSUME NEW d \in Calls PROVE RecordKept(d)'
  <2>1. RecordKept(d)
    BY DEF IInv
  <2>2. pc'[d] \in {"none", "done", "gone"} /\ (pc'[d] = "none" => pc[d] = "none")
    BY <1>1
  <2>3. ArchiveKept(d)'
    BY <1>1, <2>1, <2>2 DEF RecordKept, ArchiveKept, Whole, Ended
  <2>4. MemoryKept(d)'
    BY <1>1, <2>2 DEF MemoryKept
  <2> QED
    BY <2>3, <2>4 DEF RecordKept
<1> QED
  BY <1>2, <1>3

LEMMA StepKeeps ==
    ASSUME IInv, [Next]_vars
    PROVE  IInv'
<1>1. CASE UNCHANGED vars
  <2>1. /\ Typed' /\ Posted'
    BY <1>1 DEF IInv, vars, Typed, Posted
  <2>2. ASSUME NEW d \in Calls PROVE DumpKept(d)' /\ RecordKept(d)'
    <3>1. SameDump(d) /\ dump' = dump
      BY <1>1 DEF vars, SameDump
    <3>2. DumpKept(d)'
      BY <3>1, OtherDump DEF IInv
    <3>3. ArchiveKept(d)' /\ MemoryKept(d)'
      BY <1>1 DEF IInv, vars, RecordKept, ArchiveKept, MemoryKept, Whole
    <3> QED
      BY <3>2, <3>3 DEF RecordKept
  <2> QED
    BY <2>1, <2>2 DEF IInv
<1>2. CASE Restart
  BY <1>2, RestartDump, RestartRecord DEF IInv
<1>3. ASSUME NEW c \in Calls,
             \/ HandlerStep(c)
             \/ \E who \in {"loop", "audio"} :
                    SendEvent(c, who) \/ SendFails(c, who) \/ DumpEvent(c, who)
      PROVE  IInv'
  <2>1. Typed' /\ \A d \in Calls : DumpKept(d)'
    BY <1>3, ConnectDump, QuietDump, ReadDump, SendDump, SendFailsDump, EventDump DEF HandlerStep
  <2>2. Posted' /\ \A d \in Calls : RecordKept(d)'
    BY <1>3, QuietRecord, RecordStep DEF HandlerStep
  <2> QED
    BY <2>1, <2>2 DEF IInv
<1> QED
  BY <1>1, <1>2, <1>3 DEF Next

-----------------------------------------------------------------------------
(* The theorems *)

\* Whatever the calls do and whenever the process ends, every event is sent,
\* dumped and numbered in one order, and a record is somewhere whole.
THEOREM ArchiveInvariant == Spec => []IInv
<1>1. Init => IInv
  BY InitIInv
<1>2. IInv /\ [Next]_vars => IInv'
  BY StepKeeps
<1> QED
  BY <1>1, <1>2, PTL DEF Spec

\* A dump is a transcript, although two goroutines write it, calls may share
\* the file, lines fail and restarts cut it off.
THEOREM DumpsAreTranscripts == Spec => []DumpIsTranscript
<1>1. IInv => DumpIsTranscript
  BY IInvImplies
<1> QED
  BY <1>1, ArchiveInvariant, PTL

\* A record its writer took stays whole, and memory holds each record once.
THEOREM RecordsSurvive == Spec => []RecordSurvives
<1>1. IInv => RecordSurvives
  BY IInvImplies
<1> QED
  BY <1>1, ArchiveInvariant, PTL
=============================================================================
