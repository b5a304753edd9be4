----------------------------- MODULE CallArchive -----------------------------
(***************************************************************************)
(* What a call leaves behind: the dump of its commands and events, written    *)
(* while it lasts by the handler's loop and by a goroutine that brings        *)
(* recognition events, its record, kept in memory and handed to the archive   *)
(* that is configured, and the end of the process, which waits for no call.    *)
(* Files, the archive's service and the network are external and may fail.     *)
(***************************************************************************)
EXTENDS Naturals, Sequences, SequencesExt

CONSTANTS
    Calls, Ids, None,
    Dumped,        \* calls that ask for a dump
    Recognised,    \* calls that ask for recognition
    MaxCommands,   \* bound: commands of each call after the first
    MaxEvents,     \* bound: events each call sends
    MaxLost        \* bound: writes of a call's dump that fail

ASSUME ArchiveAssumption ==
    /\ MaxCommands \in [Calls -> Nat] /\ MaxEvents \in [Calls -> Nat] /\ MaxLost \in Nat
    /\ Dumped \subseteq Calls /\ Recognised \subseteq Calls
    /\ None \notin Calls \cup Ids \cup {"loop", "audio", "ok", "failed"}

VARIABLES
    backend,   \* the writer the configuration chose
    pc,        \* program point of each handler
    id, conn,
    handle,    \* DumpWriter of each call: "off", "open" or "closed"
    writer,    \* holder of the event writer's mutex
    audio,     \* the goroutine that sends events of its own
    commands,  \* commands read
    sent,      \* history: for each event sent, the command it answers, 0 for none
    dump,      \* the dump file of each id: its lines
    gap,       \* history: the lines not written, an event's by its number, 0 for a command's
    memory,    \* Manager.records
    archive,   \* what the archive holds under each id
    outcome    \* history: what the writer returned for each call

vars == <<backend, pc, id, conn, handle, writer, audio, commands, sent, dump, gap,
          memory, archive, outcome>>
atCall == <<backend, id, memory, archive, outcome>>
atDump == <<handle, writer, audio, commands, sent, dump, gap>>

Goto(c, from, to) == pc[c] = from /\ pc' = [pc EXCEPT ![c] = to]

-----------------------------------------------------------------------------
(* The dump *)

\* One Write call on a file opened with O_APPEND: a line is never torn. The error is dropped.
AppendLine(c, line) ==
    \/ /\ handle[c] = "open"
       /\ dump' = [dump EXCEPT ![id[c]] = Append(@, line)] /\ UNCHANGED gap
    \/ /\ handle[c] = "open" => Cardinality(gap[c]) < MaxLost
       /\ gap' = [gap EXCEPT ![c] = @ \cup {IF line.kind = "event" THEN line.n ELSE 0}]
       /\ UNCHANGED dump

Connect(c) ==
    /\ Goto(c, "none", "first")
    /\ \E i \in Ids : id' = [id EXCEPT ![c] = i]
    /\ conn' = [conn EXCEPT ![c] = "open"]
    /\ handle' \in {handle} \cup IF c \in Dumped THEN {[handle EXCEPT ![c] = "open"]} ELSE {}
    /\ UNCHANGED <<backend, writer, audio, commands, sent, dump, gap, memory, archive, outcome>>

\* No first message, or one that is none; a connection without a session leaves no record.
Reject(c) ==
    /\ Goto(c, "first", "closeDump") \/ Goto(c, "first", "refused")
    /\ UNCHANGED <<conn, atCall, atDump>>

\* The first command, which may be refused, or a later one is dumped as it came, before it is
\* answered.
ReadCommand(c) ==
    /\ \/ Goto(c, "first", "refused") /\ UNCHANGED audio
       \/ Goto(c, "first", "reply") /\ audio' = [audio EXCEPT ![c] = IF c \in Recognised THEN "on" ELSE @]
       \/ Goto(c, "serve", "reply") /\ commands[c] <= MaxCommands[c] /\ UNCHANGED audio
    /\ conn[c] = "open" /\ writer[c] # "loop"
    /\ commands' = [commands EXCEPT ![c] = @ + 1]
    /\ AppendLine(c, [call |-> c, kind |-> "command", n |-> commands[c] + 1, for |-> 0])
    /\ UNCHANGED <<conn, atCall, handle, writer, sent>>

\* A candidate, or a command the router does nothing for, is not answered.
NoReply(c) ==
    /\ writer[c] # "loop" /\ Goto(c, "reply", "serve")
    /\ UNCHANGED <<conn, atCall, atDump>>

\* The loop answers a command, refuses a first or a broken one, or tells what came of a frame
\* of audio.
MaySend(c, who) ==
    /\ writer[c] = None
    /\ IF who = "loop" THEN pc[c] \in {"reply", "refused", "serve"} ELSE audio[c] = "on"

\* WriteEvent, under its mutex: first the connection ...
SendEvent(c, who) ==
    /\ MaySend(c, who) /\ conn[c] = "open"
    /\ Len(sent[c]) < MaxEvents[c]
    /\ sent' = [sent EXCEPT ![c] = Append(@, IF who = "loop" THEN commands[c] ELSE 0)]
    /\ writer' = [writer EXCEPT ![c] = who]
    /\ UNCHANGED <<pc, conn, atCall, handle, audio, commands, dump, gap>>

\* A faulty variant: the line is written although the connection refused the event.
SendFailsDumped(c, who) ==
    /\ MaySend(c, who)
    /\ AppendLine(c, [call |-> c, kind |-> "event", n |-> Len(sent[c]) + 1, for |-> 0])
    /\ conn' = [conn EXCEPT ![c] = "closed"]
    /\ IF who = "loop" THEN /\ pc' = [pc EXCEPT ![c] = IF @ = "refused" THEN "closeDump" ELSE "record"]
                         /\ UNCHANGED audio
       ELSE audio' = [audio EXCEPT ![c] = "off"] /\ UNCHANGED pc
    /\ UNCHANGED <<atCall, handle, writer, commands, sent>>

\* ... which may be gone: the loop fails the call, which closes the connection.
SendFails(c, who) ==
    /\ MaySend(c, who)
    /\ conn' = [conn EXCEPT ![c] = "closed"]
    /\ IF who = "loop" THEN /\ pc' = [pc EXCEPT ![c] = IF @ = "refused" THEN "closeDump" ELSE "record"]
                         /\ UNCHANGED audio
       ELSE audio' = [audio EXCEPT ![c] = "off"] /\ UNCHANGED pc
    /\ UNCHANGED <<atCall, handle, writer, commands, sent, dump, gap>>

Line(c, n) == [call |-> c, kind |-> "event", n |-> n, for |-> sent[c][n]]

\* ... then the dump, which an event that was not sent never reaches.
DumpEvent(c, who) ==
    /\ writer[c] = who
    /\ AppendLine(c, Line(c, Len(sent[c])))
    /\ writer' = [writer EXCEPT ![c] = None]
    /\ pc' \in IF who = "audio" THEN {pc}
              ELSE {[pc EXCEPT ![c] = to] :
                      to \in CASE pc[c] = "refused" -> {"closeDump"}
                               [] pc[c] = "reply" -> {"reply", "serve"}
                               [] pc[c] = "serve" -> {"serve"}}
    /\ UNCHANGED <<conn, atCall, handle, audio, commands, sent>>

-----------------------------------------------------------------------------
(* The end of a call: record, dump, connection, in the order of the defers    *)

\* A hangup closes the connection; a read that fails leaves it to the last defer.
EndCall(c) ==
    /\ writer[c] # "loop" /\ Goto(c, "serve", "record")
    /\ conn' = [conn EXCEPT ![c] = "closed"] \/ UNCHANGED conn
    /\ UNCHANGED <<atCall, atDump>>

\* Manager.Write: memory first, under its mutex, then the writer.
KeepRecord(c) ==
    /\ Goto(c, "record", IF backend = "local" THEN "create" ELSE "send")
    /\ memory' = Append(memory, c)
    /\ UNCHANGED <<backend, id, conn, archive, outcome, atDump>>

WriterReturns(c, result) ==
    /\ outcome' = [outcome EXCEPT ![c] = result]
    /\ UNCHANGED <<backend, id, conn, memory, atDump>>

\* LocalWriter: the directory and the file, which is emptied before it is written.
CreateFile(c) ==
    /\ Goto(c, "create", "fill")
    /\ archive' = [archive EXCEPT ![id[c]] = "empty"]
    /\ UNCHANGED <<backend, id, conn, memory, outcome, atDump>>

CreateFails(c) ==
    /\ Goto(c, "create", "closeDump")
    /\ WriterReturns(c, "failed") /\ UNCHANGED archive

\* A faulty variant: the error of the write is not looked at.
FillUnchecked(c) ==
    /\ Goto(c, "fill", "closeDump")
    /\ WriterReturns(c, "ok") /\ UNCHANGED archive

\* Two handlers that emptied the file both write from its start: the longer record's end
\* stays behind the shorter.
FillFile(c) ==
    /\ Goto(c, "fill", "closeDump")
    /\ archive' \in {[archive EXCEPT ![id[c]] = x] :
                       x \in {c} \cup IF archive[id[c]] = "empty" THEN {} ELSE {"torn"}}
    /\ WriterReturns(c, "ok")

FillFails(c) ==
    /\ Goto(c, "fill", "closeDump")
    /\ archive' \in {archive, [archive EXCEPT ![id[c]] = "torn"]} /\ WriterReturns(c, "failed")

\* HTTPWriter and S3Writer: an object of its own for each post, or one for each id.
Stored(c) ==
    IF backend = "http" THEN [archive EXCEPT ![id[c]] = @ \cup {c}] ELSE [archive EXCEPT ![id[c]] = c]

Send(c) ==
    /\ Goto(c, "send", "closeDump")
    /\ archive' = Stored(c) /\ WriterReturns(c, "ok")

\* No answer in time, or a bad one: the record may have been stored all the same.
SendRecordFails(c) ==
    /\ Goto(c, "send", "closeDump")
    /\ archive' \in {archive, Stored(c)} /\ WriterReturns(c, "failed")

CloseDump(c) ==
    /\ Goto(c, "closeDump", "closeConn")
    /\ handle' = [handle EXCEPT ![c] = IF @ = "open" THEN "closed" ELSE @]
    /\ UNCHANGED <<conn, atCall, writer, audio, commands, sent, dump, gap>>

CloseConn(c) ==
    /\ Goto(c, "closeConn", "done")
    /\ conn' = [conn EXCEPT ![c] = "closed"] /\ commands' = [commands EXCEPT ![c] = 0]
    /\ UNCHANGED <<atCall, handle, writer, audio, sent, dump, gap>>

-----------------------------------------------------------------------------
(* The end of the process *)

\* A signal: Shutdown closes the listener, Start returns at once, and main ends by log.Fatal:
\* no defer runs, whatever the calls were doing. A crash does the same. The service is
\* started again over the files it left.
Restart ==
    /\ pc' = [c \in Calls |-> IF pc[c] \in {"none", "done"} THEN pc[c] ELSE "gone"]
    /\ pc' # pc
    /\ conn' = [c \in Calls |-> IF conn[c] = "open" THEN "closed" ELSE conn[c]]
    /\ handle' = [c \in Calls |-> "off"] /\ commands' = [c \in Calls |-> 0]
    /\ audio' = [c \in Calls |-> "off"]
    /\ writer' = [c \in Calls |-> None]
    /\ gap' = [c \in Calls |-> IF writer[c] = None THEN gap[c] ELSE gap[c] \cup {Len(sent[c])}]
    /\ memory' = <<>>
    /\ UNCHANGED <<backend, id, sent, dump, archive, outcome>>

-----------------------------------------------------------------------------
Init ==
    /\ backend \in {"local", "http", "s3"}
    /\ pc = [c \in Calls |-> "none"] /\ id = [c \in Calls |-> None]
    /\ conn = [c \in Calls |-> "none"] /\ handle = [c \in Calls |-> "off"]
    /\ writer = [c \in Calls |-> None] /\ audio = [c \in Calls |-> "off"]
    /\ commands = [c \in Calls |-> 0] /\ sent = [c \in Calls |-> <<>>]
    /\ dump = [i \in Ids |-> <<>>] /\ gap = [c \in Calls |-> {}]
    /\ memory = <<>> /\ outcome = [c \in Calls |-> None]
    /\ archive = [i \in Ids |-> IF backend = "http" THEN {} ELSE None]

HandlerStep(c) ==
    \/ Connect(c) \/ Reject(c) \/ ReadCommand(c) \/ NoReply(c) \/ EndCall(c) \/ KeepRecord(c)
    \/ CreateFile(c) \/ CreateFails(c) \/ FillFile(c) \/ FillFails(c)
    \/ Send(c) \/ SendRecordFails(c) \/ CloseDump(c) \/ CloseConn(c)

Next ==
    \/ \E c \in Calls :
           \/ HandlerStep(c)
           \/ \E who \in {"loop", "audio"} : SendEvent(c, who) \/ SendFails(c, who) \/ DumpEvent(c, who)
    \/ Restart

Spec == Init /\ [][Next]_vars

-----------------------------------------------------------------------------
(* Properties *)

\* Where the lines of a call stand in its file, which it may share.
LinesOf(c) == IF id[c] = None THEN {} ELSE {k \in DOMAIN dump[id[c]] : dump[id[c]][k].call = c}

\* A call's dump is a transcript, although two goroutines write to
\* the file: events stand in the order they went over the wire, none that was not sent, each
\* behind the command it answers, and those that are missing failed, came after the close or
\* were cut off by the end of the process.
DumpIsTranscript ==
    \A c \in Calls :
        LET lines  == LinesOf(c)
            line(k) == dump[id[c]][k]
            events == {k \in lines : line(k).kind = "event"}
            seen   == {line(k).n : k \in events}
        IN  /\ \A j, k \in events : j < k => line(j).n < line(k).n
            /\ seen \subseteq 1..Len(sent[c])
            /\ (1..Len(sent[c])) \ (seen \cup gap[c])
                   \subseteq (IF writer[c] = None THEN {} ELSE {Len(sent[c])})
            /\ \A k \in events, j \in lines \ events : line(k).for = line(j).n => j < k

\* A record that its writer took is there, whole, for as long as no other call has its id:
\* neither a failure, nor the end of the process in the middle of another write, harms it.
\* While a handler writes a record, and until it returns, memory holds it, once.
RecordSurvives ==
    \A c \in Calls :
        /\ outcome[c] = "ok" /\ (\A d \in Calls \ {c} : id[d] # id[c]) =>
               archive[id[c]] = IF backend = "http" THEN {c} ELSE c
        /\ \/ pc[c] \in {"create", "fill", "send"}
           \/ pc[c] \in {"closeDump", "closeConn"} /\ outcome[c] # None
           => \E i \in DOMAIN memory :
                  memory[i] = c /\ \A j \in DOMAIN memory : memory[j] = c => j = i
=============================================================================
