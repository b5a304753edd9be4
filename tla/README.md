# Verification of gopbx

gopbx is a voice session gateway: a client opens a websocket, sends an `invite`
or `accept`, gets an `answer`, and from then on sends audio and commands on the
same connection (or audio over WebRTC) while the gateway sends back events. This
directory holds TLA+ models of the gateway's own logic, TLC configurations that
check them on small instances, and proofs for TLAPS. Paths below are relative to
`src/internal` unless they begin with `src/`.

## 1. The system

| Component | State | Operations | Hard behaviour |
|---|---|---|---|
| Session (`app/session/session.go`) | state, close information, close function and whether it was called, done channel, answer; one mutex | BeginHandshake, MarkActive, RecordAnswer, RequestClose, Fail, BindCloseFunc, Finalize, Snapshot, tracks | handler, kill requests and audio goroutines call it concurrently; the close function and `close(done)` run after the unlock |
| Manager and Cleanup (`app/session/manager.go`, `cleanup.go`) | a map from id to session; one RW mutex | Create, Get, Delete, Kill, List | ids are chosen by clients; Kill uses the session after letting go of the map |
| Call handler (`adapter/inbound/http/call_handler.go`) | local variables of `serveWS`: connection, session, tracks, its own close information | first frame, answer, command loop, deferred clean-up | five ways to end, each racing the others; order of last event, close, record |
| Admin interface (`admin_handler.go`) | none | list, kill | its kill runs beside everything else |
| Command router (`app/session/command_router.go`) | none (the current track is in the session) | one case per command | a synthesis is served to the end before the next command is read |
| ASR processor and providers (`app/media/processor/asr.go`, `adapter/outbound/asr`) | current recognition session, index, silence counter; channels of results and errors | Process, stop, Close, forwardResults, SDK callbacks | a forwarder goroutine per session, channels closed under its feet |
| VAD (`app/media/processor/vad.go`) and scorers (`adapter/outbound/vad`) | four-state segmenter, activity windows, audio buffers, noise floor | Process | windows that must be exactly full, held audio that must be neither lost nor doubled |
| Chain, stream, tracks (`app/media/processor/chain.go`, `stream`, `track`) | closed flag; peer connection and outbound track | Push, Close, BuildAnswer, AddCandidates, PlayTTS | Push racing Close; PlayTTS racing Close |
| TTS providers (`adapter/outbound/tts`) | channel of chunks, error, done channel | Recv, Close, callbacks, waitCompletion | completion, error and chunks come from three goroutines, and the loop may stop reading |
| Codecs (`app/media/codec`) | none | A-law, mu-law, resampling | boundaries of segments, odd payloads |
| Call records, dump, storage (`app/callrecord`, `adapter/outbound/storage`) | records in memory, a file per call and one per record | Write, Close | shared ids, failed writes |
| Shutdown (`src/cmd/gateway/main.go`, `bootstrap`) | none | signal, Shutdown, exit | exit racing the clean-up of open calls |
| ICE, LLM proxy, configuration, wire protocol, middleware, Go SDK | none that outlives a request | | pure I/O, decoding or naming |

How they interact. The handler creates a session in the manager, binds `conn.Close`
as its close function, builds the audio pipeline, answers, and loops. Everything
that wants a call to end calls `RequestClose` on its session: the handler for
hangups and its own failures, `Manager.Kill` for the admin interface, the audio
goroutines for what they cannot deliver. The winner calls the close function, the
closed connection makes the handler's read fail, and the handler's deferred calls
finalise the session, delete it from the manager, write the record and release the
pipeline.

What makes each component correct, in a line each: a session closes once, with the
first cause, and never comes back; the manager shows exactly the calls that are
served; a handler always ends, tells its client what it records, and leaves nothing
behind; a recogniser's results reach the client in order and none of its goroutines
outlives the call; the segmenter hands on every frame at most once and in order,
with one end for every start; a synthesis reports its failure; a codec's decoder
undoes its encoder up to its step size; the dump is a transcript of the call; every call
leaves one record, and an archive that took it keeps it.

## 2. Modules

| Module | Models | |
|---|---|---|
| `SessionOps` | the methods of `Session`, as operators on a record | the part of each method under `s.mu`, and the close information each caller passes |
| `CloseContract` | what a session promises, abstractly | phase, information, and a close function that runs once |
| `SessionClose` | one session shared by goroutines | one action per method, one for each thing done after an unlock |
| `CallHandler` | the calls of a process | `serveWS`, the manager, kill requests, the audio goroutine of each call, the connection |
| `ResultFeed` | what a call's recognition promises its client, abstractly | results produced, results told |
| `AsrPipeline` | the recognition of one call | the ASR processor, mock and cloud sessions, their channels, forwarders and callbacks |
| `UtteranceFeed` | what a segmenter promises the recogniser, abstractly | frames heard, frames and markers handed on, events |
| `Vad` | the segmenter | four states, activity windows, three buffers, the limits |
| `NativeScorer` | the scorer of the VAD that runs in the process | construction, `Score`, `Close`, and every handle C gave out |
| `TtsPlayback` | synthesis in a call | negotiation, the command loop, `PlayTTS`, streams, callbacks, `waitCompletion` |
| `PlaybackClient` | `TtsPlayback` with a client that interrupts | the interrupt waits in the connection until the loop reads it |
| `Codec` | G.711 and resampling | pure operators, and the way of a sample and of a stream of packets through them |
| `CallArchive` | what calls leave behind | dump files, records, three archives that may fail, the end of the process |
| `MC...` | instances for TLC | |
| `SessionOpsProofs` | lemmas about `SessionOps` | what a critical section does to a session, and to a session shared by goroutines (`Orderly`), for both modules that use it |
| `SessionCloseProofs`, `CallHandlerProofs`, `AsrPipelineProofs`, `VadProofs`, `NativeScorerProofs`, `TtsPlaybackProofs`, `CallArchiveProofs` | theorems about the module of that name | each with its inductive invariant |

How they compose. `SessionOps` is shared: `SessionClose` lets any goroutine call any method
at any time, `CallHandler` calls them in the order of the code. The refinement
`SessionsUsedWell` joins the two: seen from one session, the gateway does nothing
`SessionClose` does not allow. It is proved, and so is what `SessionClose` promises; that
every session of the gateway therefore keeps these promises is the reader's last step, since
tlapm does not let a theorem be cited through an INSTANCE with parameters. `SessionClose` in
turn implements `CloseContract`, `AsrPipeline` implements
`ResultFeed`, and `Vad` implements `UtteranceFeed`.

The other modules meet at choices that one makes and another explains. `AudioFails` of
`CallHandler` is a forwarder of `AsrPipeline` failing the session; `Leave` and `CloseAsr` of
`AsrPipeline` are the release of the stream in `CallHandler`; `Speech` and `SegmentEnd` of
`AsrPipeline` are what `Vad` hands on; the scorer's verdict in `Vad` is a `Score` of
`NativeScorer`, failed ones included; `Route` of `CallHandler` is a command of `TtsPlayback`,
and that it returns is `CommandAnswered`; the record of `CallHandler` goes where `CallArchive`
puts it, and the goroutine it calls `audio` is the forwarder again.

### How state and actions correspond to the code

`SessionClose` and `CallHandler`:

* `s` / `sess[c]` is a `Session`: `closeFn` says a function is bound, `done` that the
  channel field is not nil, `answered` that `RecordAnswer` has run. Texts are members
  of the constant `Texts`; only whether a text is empty, and which one it is, matters.
* `record[c]` has the fields of `callrecord.Record` that depend on the course of the call:
  reason, initiator and error, and whether `answer` has an SDP. `buildAnswerSDP` gives one to
  WebRTC calls only (`AnswerHasSDP`).
* A hangup (`Hangups`) carries the client's own reason and initiator, any of the constants
  `HangupReasons` and `HangupInitiators`, which include a kill's.
* `todo[g]` in `SessionClose` is what a method does between its unlock and its return.
* `pc[c]` in `CallHandler` is the place of `serveWS` between two points where another
  goroutine can interfere: a critical section, a read or a write. `closeInfo[c]` is its
  local variable, `closing[c]` the `Close` of the router's result.
* `conn[c]`: `open` until somebody closes it or the peer goes; `lost` once the peer has
  gone, when a write may still succeed; `broken` after a failed write; `closed` once
  the gateway closed it. Reads fail on everything but `open`, and may first deliver
  frames that were already received.
* `audio[c]` is the goroutine beside the handler: the forwarder of recognition results
  of a websocket call, or the reader of a WebRTC track. It fails when it likes, up to
  `MaxFaults` times, and goes on afterwards, as both do. Nothing waits for it, so it may
  fail a session that is closed already.
* `kill[k]` is one request to `/call/kill/:id`: the lookup under the manager's lock, then
  `RequestClose` without it, then the close function.

`AsrPipeline`:

* `reader[r]` is a goroutine that pushes frames: `serveWS` itself for a websocket call,
  one per remote track for WebRTC. `target` is the local variable `session`, `leaving`
  says that it is on its way out. A frame is silent, speech, or the end of a segment.
* `asr` holds the fields of `ASR` under `a.mu`; `recognizer[n]` those of the n-th session
  under its own mutex, which `holder` names while a mock session blocks with it. `open`
  says that the session's channel fields are not nil.
* `forwarder[n]` is `forwardResults`: the two reads of the channel fields, the select, the
  critical section of `emitResult`, the two writes.
* `callback[n]` is a goroutine of the SDK between the check under the mutex and the send.
  The SDK is outside the repository: a start may work, fail, or work unnoticed; it may call
  back while its client runs, and a failed task calls back no more. Its `Shutdown` is not
  assumed to wait for callbacks. A send on a closed channel ends the process (`panicked`),
  and properties speak of runs without it.
* `broken` is set when the connection is lost or closed. `CallHandler` says when the
  gateway closes it; here it may happen at any time, which includes that.

`Vad`:

* A frame is one step, for `Process` holds `v.mu` throughout. Its length, the verdict of the
  energy gate (one bit, instead of RMS values and a noise floor) and that of the scorer
  (speech, silence, failed) are inputs; every combination may come at every frame.
* Buffers and windows are sequences of entries with a length; `Push` drops whole entries, as
  the code does, and an entry of activity carries the gate's bit. Each handler returns the
  new fields, the packets and the events of its `Result`.
* `heard`, `told`, `said` and `contrary` are history.

`NativeScorer`:

* `live` is the set of handles that C has given out and not got back: the scorer's own by
  name, and those of one run of `runChunk`, whose deferred releases are `Unwind`.
* `mu` is the scorer's mutex. `build` counts the eight calls of the constructor, each of
  which may fail and is followed by `Close`.

`TtsPlayback`:

* `loop` is `serveWS` within the command loop: one command at a time, down to the end of its
  synthesis. `verdict[n]` is what the events of command n say.
* `stream[n]` is `aliyunStream`: `buf` and `done` its channels, `closer` who is inside
  `closeOnce`, `client` the SDK's client. `waiter[n]` is the goroutine of `waitCompletion`.
* `sdk[n]` is the SDK's goroutine: between the check and the send of `pushChunk`
  (`pushing`), after the callback for a failure, and what it put on the ready channel.
* `track` is negotiation: nine stages, the second of which creates the peer connection.
* In `PlaybackClient`, `waiting` is the track that was playing when an interrupt reached the
  gateway, which then waits to be read; commands sent before it may be served first.

`Codec`: bytes and samples are their numbers; shifts, masks and XOR are `\div`, `%` and
`Toggle`. A sample goes from `pcm` to `byte` to `heard`; packets of numbered samples go
through the resampler one by one.

`CallArchive`:

* `sent[c]` is the wire: for each event the number of the command it answers; `dump[i]` the
  file of an id. `writer[c]` is the mutex of `lockedEventWriter`, `handle[c]` the open file.
* `archive` is what the configured store has under an id: for the local writer a file that is
  empty, torn or whole; for S3 the last object; for HTTP all that was posted. A failed request
  may have been stored all the same. `outcome[c]` is what the writer returned.
* `Restart` ends the process wherever its goroutines are, which a signal does as well
  (`Start` returns at once, `log.Fatal` runs no defer), and starts it over the same files.

Left out of these modules: timestamps, the offered options, metrics, logging, the list of
commands, and the content of events.

## 3. Runs

| Run | Instance | Shows |
|---|---|---|
| `session_close` | 3 goroutines, 3 texts | types; the close function at most once; no session closing with its connection alive; state agrees with cause; `done` closed once; never revived; information only grows; the contract is kept, so that the close function does run |
| `one_call` | 1 call, 2 kills, 2 frames, 2 faults, hangups with the words of a kill | the record of a WebRTC call has the answer exactly when the client was sent one; it agrees with what ended the call, and a hangup was announced; sessions are used the way `SessionClose` allows; a kill that found the call ends it; a call without a connection ends and leaves its record |
| `two_calls` | 2 calls that choose among 2 ids, 1 kill, 1 frame each | the manager holds a call with an id of its own exactly from Create to Delete, and lists none whose connection was closed; in the end nothing is left behind, whatever the ids |
| `mock_asr` | WebRTC, mock, 2 tracks of 2 and 1 frames, 2 sessions, channels of 1 | no session is lost between two tracks; nobody sends to a closed channel; results in order, each with its own index; a broken connection frees a reader that waits in the pipeline, and ends the forwarders |
| `cloud_asr` | websocket, cloud, segments, 3 frames, 2 sessions, 2 results | sessions and clients released whatever the service did; a full channel drops, but never repeats or reorders; indexes go on over sessions |
| `vad` | 11 frames of 20, 30 or 500 ms, any verdicts | frames reach the recogniser at most once and in order, an utterance loses none between its start and its end, starts and ends alternate; whatever was heard before, regular frames move the segmenter again; only a rejected end prolongs an utterance beyond its maximum |
| `playback` | 2 syntheses of 3 and 1 chunks, buffer of 1 | "completed" means that all of it was played; every command is answered; no client, waiter or callback is left |
| `media` | `NativeScorer` with 2 tracks, 2 closers, 3 windows; beside it, `Codec` with all 65536 samples in both laws and 4 packets of up to 5 samples | no handle used after its release; every path gives back what it took; u-law within half a step; order of samples kept by both laws; no seams between packets |
| `archive` | 2 calls, 2 ids; one of them with 2 commands, 2 events, a dump and 1 failed write; any archive; the process may end | the dump is a transcript: order of the wire, nothing unsent, events behind their command; a record that was taken stays whole |

Three runs end in a counterexample; each shows where the code and its comments part:

| Run | Comment | Code |
|---|---|---|
| `webrtc_stream` | `chain.go:61`: no recognition session is left hanging | the stream of a WebRTC call is never closed |
| `alaw` | `pcma.go:1`: a real conversion between PCM and A-law | the thresholds of the segments are an eighth of what the shifts assume: 32 is heard as 296, everything above 3968 as full scale |
| `interrupt` | `session.go:274`: an interrupt that cuts off a playback clears its track; `command_router_test.go:44-63`: the interruption names it | a synthesis is served to its end before the interrupt is read: the client that interrupts after the first chunk hears the rest, and the interruption names the session |

Why runs may stop. Only `session_close` looks for deadlocks, since a session can always be
asked something more. Elsewhere the calls end, or frames, commands, samples and events are
used up, and then the system rightly stops. Where it must go on, the liveness properties say
so (`KillEndsCall`, `LostConnEndsCall`, `ReaderReturns`, `ForwarderEnds`, `CommandAnswered`,
`StreamReleased`).

### Bounds, and why they are enough

The theorems of section 4 hold for every value of the constants, so that for what they state
no bound matters: goroutines, calls, kills, frames, sessions, sizes of channels and buffers,
chunks, windows, and lengths. The bounds below carry liveness and `Codec`.

* Three goroutines: two can race for the close function or the done channel while a
  third is between its unlock and its return.
* Two kills and two faults: two sources of each kind, beside the handler's own close, so
  that every pair of sources, and every order of three, occurs. `MaxFaults` also lets a
  fault fall after the end of the call.
* Two frames (`MaxCommands` of `CallHandler`): one that starts the audio goroutine and one
  that closes the call, or a command after a candidate; a third adds no new place to be in.
* Two calls: the manager's map relates calls only through equal ids. Calls and ids are
  interchangeable, and `two_calls` uses that symmetry, as `archive` does for ids (the
  properties of both are invariants).
* Channels of one result instead of 16 or 32: full, with a sender waiting or dropping, and
  empty are the only states that differ. `SilenceLimit` is 1 instead of 8: the count only
  decides which silent frame stops the session.
* Two frames of one track and one of the other: two sessions, one stopped while its results
  are on their way, and a stop of one track between two steps of the other's frame. A session
  takes a frame to open and one to stop, so `Sessions` is never used up.
* Two results of cloud sessions (`MaxResults`): one being forwarded, one waiting or
  dropped, or one of each session.
* `vad`: frames of 20 ms are what the gateway's own audio has, 30 ms divides no window, and
  500 ms exceeds every one. Eleven frames are enough to start, reach the end window, hold a
  tail, be rejected or cut, and start again. Padding is shortened, so that decisions come
  after a few frames; the start window and the percentages are the code's.
* `media`: scorer and codec share no state, so a behaviour of the run is one of either
  (`leaf`), and nothing is lost by not interleaving them. Two tracks and two closers, so that each waits for each; three windows, the last
  of which may fail with all the others done. Every 16-bit sample; packets of 1 to 5 samples:
  each parity, in each order.
* `playback`: a chunk beyond the buffer after one was taken needs three; the second synthesis
  meets what the first has left. The second may also find the first's callback waiting.
* `archive`: two commands and two events in every order of two writers. One failed write
  (`MaxLost`) before, between or behind others. The second call only has a record: its
  handler meets the first's at every step of the archive, with the same id or another.

### Fairness, and why the code justifies it

A goroutine that waits for nothing is scheduled (`LocalStep`, `AudioStep`, `KillStep`,
and in `SessionClose` the two steps after an unlock). Reads and writes carry no deadline,
so nothing is assumed of them while the connection is open: a silent peer may hold a
call for ever, and no property says otherwise. Once the connection is lost or closed
they return: a closed socket fails at once, and for a lost one the server's TCP
keep-alive, which Go turns on for every accepted connection, ends the read. In
`AsrPipeline` a forwarder's write likewise returns only once the connection is broken: a
client that does not read may block it, and everything that waits behind it, until then.
The service's answers need no assumption: the code waits 20 s for them (`waitReady`). Nobody has
to kill a call and no audio pipeline has to fail.

In `TtsPlayback` the loop and the goroutine of `waitCompletion` are scheduled, the latter
because its timer of 60 s expires, and so is a callback inside `pushChunk`, which is the
gateway's code. The service owes nothing: it may never send a chunk, an outcome or an error.
Strong fairness is assumed nowhere. `Vad`, `NativeScorer`, `Codec` and `CallArchive` state
safety only and need no fairness.

## 4. Proofs

Every theorem is of the form `Spec => ...` of a module, for all values of its constants that
satisfy the module's assumption; one, `VadFollowsGate`, has a hypothesis besides. A proof
module first states the inductive invariant `IInv`, then lemmas about the operators, then one
lemma or step per action, and ends in the theorems.

| Module | Theorems, and the property each states |
|---|---|
| `SessionCloseProofs` | `TypeCorrect`, `CloseFnOnce`, `NoZombies`, `StateMatchesCause`, `DoneOnce`; the action properties `TerminalForGood`, `FirstCauseWins`; the refinement of `CloseContract`, `ImplementsContract` |
| `CallHandlerProofs` | `CallTyped`, `AnswerIsTold`, `CauseIsTold`, `ListIsRight`, `AllIsCleanedUp`; the refinement of `SessionClose` by every call, `SessionsAreUsedWell`, and what follows from it for every session of the gateway: `SessionsAreSafe`, `SessionsGoOn` |
| `AsrPipelineProofs` | `PipelineTyped`, `NothingOrphaned`, `MockNeverPanics`, `EverythingReleased`; the refinement of `ResultFeed`, `PipelineFeedsResults` |
| `VadProofs` | `VadTyped`, `VadCuts`, `VadFollowsGate`; the refinement of `UtteranceFeed`, `VadFeedsUtterances` |
| `NativeScorerProofs` | `ScorerNeverMisused`, `ScorerLeaksNothing` |
| `TtsPlaybackProofs` | `PlaybackTyped`, `PlaybackComplete`, `PlaybackUninterrupted` |
| `CallArchiveProofs` | `DumpsAreTranscripts`, `RecordsSurvive` |

### Assumptions

Most only give constants their types and keep names apart. Those that say more:

* `TextsAssumption`, `CallsAssumption`: a failure and a kill have texts that are not empty, as
  the literals of the code have.
* `KillsAssumption`: requests, the handler and the audio goroutine are different goroutines.
* `PipelineAssumption`: where the stream is closed there is exactly one reader, `serveWS`
  itself; tracks, of which there may be several, are read where it is not.
* `VadAssumption`: an utterance may be longer than the start window (60 ms; the code reads
  its maximum in seconds). A maximum of 0, which the code takes as none, is left out.
* `FramesFit`, the hypothesis of `VadFollowsGate` alone: frames of 20 ms fill the end window,
  and the padding is longer than one of them. Without the first the property is false, as
  section 5 says; with a padding of one frame or less an end takes a frame longer.

### The arguments

*SessionClose.* `CloseFnAtMostOnce` is not inductive: it does not say why nobody else takes
the function. What does is the flag the code keeps for it. `CallOwed` says that
`closeFnCalled` is set exactly when the function has run or one goroutine owes the call, that
there is at most one such goroutine, and that a bound function and a requested close leave the
flag set. `DoneOwed` says the same of `done = nil`, the closed state and the goroutine about
to close the channel. Both, with `TellsCause`, make a session `Orderly`, a predicate on a
session, its goroutines, what each owes and what was done; that every method and every work
owed keeps it is proved once, in `SessionOpsProofs` (`OrderlyRequest`, `OrderlyFinalize` and
their like). In the refinement each step maps to a step of the contract or to a stutter.

*CallHandler.* A record is right because of what happened long before it is written, so the
invariant ties the place of `serveWS` to the session it shares: until which point nobody can
have closed it, from where its close information may only be its own or a kill's, whether the
answer was written, whether a hangup was announced, and whose call of the close function is
due. A kill may hold a session after the map has let it go, and the audio goroutine one that is
finalised; the lemma `OthersRequest` says what their request does to a call at any place.
`RecordTellsCause` compares the record with what was announced: a reason or initiator that is
not the hangup event's is a kill's, in a place the event left blank, and there is such a kill
(`KillKnown`). It does not say that a record with the words of a kill is of a killed call, since
a client may use them (section 5). For each session, every step of the gateway is one of
`SessionClose` or none (`StepMaps`), with the place of each goroutine telling what it owes; so
every session is `Orderly` for `serveWS`, the audio goroutine and the kills
(`SessionNextKeeps`), and has what `SessionClose` promises: `SessionsAreSafe`, `SessionsGoOn`.

*AsrPipeline.* The invariant follows a session from its reader's hands to its last close. It
has one closer at most, and how far that one has come tells which of the channels are closed;
hence nobody is left without a closer, and the mock never sends to a closed channel. Of the
results: what is told, held by the forwarder, buffered and pending is numbered in that order,
and no two forwarders hold one index. That is `ResultFeed`, for both providers. `NeverPanics`
is a theorem about the mock only: a cloud callback sends after its unlock, and does panic.

*Vad.* The invariant says where the frames are that were heard and not handed on: before a
start in the pre-roll and the start buffer, in order and within the limits; nowhere while speech
is handed on; all of them, none left out, in the tail while an end is possible. Each handler
then does one of four things, which are the actions of `UtteranceFeed`. A buffer is cut to the
longest suffix within its limit, a total is a fold: that such a suffix exists, and what a fold
adds up to, needs induction. The library's theorems for it have an operator as a parameter and
cannot be used; `VadProofs` derives induction over sets from `WFMin` (`LeastExists`, `Induct`)
and from it an unfolding of `FoldLeft` (`FoldExists`, `FoldInduct`), with which
`TotalMsTyped`, `PushIs` and `AppendAllAscends` are proved for buffers of every length.

`VadFollowsGate` needs a second invariant, `Follows`. The count of frames that contradict the
segment, `contrary`, is in the windows: they end with so many such frames, the start window
and start buffer in a candidate start, the speech window while speech is handed on, and in a
candidate end the count is bounded by what the tail holds besides. A push keeps the longest
suffix within the limit, so once enough frames contradict the segment they fill the window
exactly, none of another kind is left in it, its activity is all or nothing, and the segmenter
moves.

*NativeScorer.* At each program point the invariant says what is live: the handles of the
stages built so far, all while the scorer is open, those `Close` has not come to, and, of a
`Score`, what it has made in its window. That two of them do not meet is the mutex (`Excluded`).

*TtsPlayback.* What was played and what is buffered are the chunks delivered, in order, as long
as nothing went wrong and the loop did not close the stream; a stream closed by its waiter
without an error was completed by the service. Success is said only behind both. And whenever
the loop reads a command no track is current, so that no interrupt finds one
(`PlaybackUninterrupted`): what the run `interrupt` shows of one call holds of all.

*CallArchive.* Two goroutines write one transcript and a restart cuts them off anywhere. The
invariant says which event each is in the middle of, that lines of a call are in the order of
the wire, and that a command's line is there, or lost, before the events that answer it. For
records: what an archive that belongs to one call has at each step of its writer.

### Model-checked only

* Liveness: `KillEndsCall`, `LostConnEndsCall`, `ReaderReturns`, `ForwarderEnds`,
  `CommandAnswered`, `StreamReleased`, and the fairness part of `KeepsContract`
  (`ImplementsContract` is about its steps). TLAPS does not prove leads-to from fairness.
* `MuLawWithinHalfStep`, `OrderIsKept` and `Seamless` of `Codec`. For the first two TLC
  goes through all samples there are, which is a proof; the last is checked for the bounds of
  section 3.

## 5. Behaviour that no run checks

* Two calls with the id of one client. `Create` replaces the session under the id, `Delete`
  (`manager.go:55`) removes whatever is there: an active call may vanish from the list, and
  no kill finds it, although `call_handler.go:183` says an active call is listed. It ends with
  its connection all the same, and `NothingLeftBehind` holds. `ServedIsRegistered` is
  therefore stated for calls with an id of their own.
* A call is listed from Create on, not from its answer on (same comment).
* The record of a websocket call never has an answer (`call_handler.go:250-253`, `483`), and
  has no other field for the fact: it does not tell whether the call was answered.
  `RecordTellsAnswer` says just that of websocket calls.
* A client may hang up with the reason "killed" and the initiator "system"
  (`command_router.go:148-160`); its record is that of a killed call. Where a hangup leaves
  reason or initiator blank and a kill comes before the end, the record is filled with the
  kill's (`session.go:155`), and disagrees with the event. `RecordTellsCause` allows both.
* Each handler calls `Finalize` once. That `done` is closed once however many call it
  (`DoneClosedOnce`) is a promise of `Session`, not a race the gateway runs.
* `closeChannels` of the cloud session sets the channel fields to nil, and `forwardResults`
  reads the fields anew in every round (`asr.go:132`): a forwarder that was emitting a result
  meanwhile waits on two nil channels for ever. `ForwarderEnds` is checked for mock sessions;
  with the constants of `CloudAsr.cfg` TLC refutes it.
* When a session closes both channels, select may take the closed error channel while results
  are buffered, and the last results of a segment are lost (`asr.go:137`). `ResultFeed` allows
  it: it forbids repeating and reordering.
* The end of the process leaves no record of the calls that were open (`main.go:36`), and a
  record whose writer failed stays in memory only, for the error is dropped and nothing retries
  (`call_handler.go:103`). `RecordSurvives` is about records that were taken.
* A cloud synthesis that failed after its outcome was signalled would pass for a success
  (`tts/aliyun.go:155`): `TtsPlayback` assumes that the SDK reports a failure before it signals.
* A start that hesitates leaves a gap between the pre-roll and the start buffer
  (`vad.go:316`), and an end that hovers between 20 % and 40 % of activity is held without
  limit (`vad.go:354`).
* A `silencePadding` between 60 and 200 ms that is no multiple of 20 ms makes an end window
  that frames of 20 ms never fill exactly (`vad.go:218`, `vad.go:144`): with 70, say, TLC finds
  no way to the candidate end, and only the maximum length ends the utterance.
  `GateIsFollowed` is checked for a padding of 60, as the tests of the repository use, and
  proved for all others that frames fill.

## 6. Not modelled

* ICE servers and the LLM proxy: one outgoing request per incoming one.
* Configuration, wire names, middleware, metrics, logging: decoding, naming, counting.
* The Go SDK: a client without state of its own beyond its connection.
* `webrtc_track.go:192`, the branch for a track that is not ready: the handler only binds a
  track whose `BuildAnswer` succeeded, so it cannot be taken.
* Pion's ICE, DTLS and RTP, onnxruntime, the cloud's SDK and the object stores, beyond the
  outcomes their callers have to handle.
* Sound as such: loudness, the noise floor, what a scorer finds in a signal.

## 7. Plan

All safety properties that the runs check are theorems, but for the three of `Codec`. What is
left:

1. `Seamless`, from the index each sample of a packet is copied from.
2. Leaves of the proofs that take the provers long (`ZenonT(30)`, `SMTT(30)`) in smaller steps.

## 8. Running

    tlc -config SessionClose.cfg MCSessionClose.tla
    tlc -config OneCall.cfg MCCallHandler.tla        (TwoCalls, WebRTCStream)
    tlc -config MockAsr.cfg MCAsrPipeline.tla        (CloudAsr)
    tlc -config Vad.cfg MCVad.tla
    tlc -config Playback.cfg MCTtsPlayback.tla
    tlc -config Interrupt.cfg MCPlaybackClient.tla
    tlc -config Media.cfg MCMedia.tla
    tlc -config ALaw.cfg MCCodec.tla
    tlc -config Archive.cfg MCCallArchive.tla
    tlapm SessionOpsProofs.tla                       (and the other ...Proofs modules)
