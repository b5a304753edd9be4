----------------------------- MODULE NativeScorer -----------------------------
(***************************************************************************)
(* The scorer of a call's VAD when it runs its model in the process: its      *)
(* construction, any step of which may fail, Score called by the tracks of     *)
(* the call, and Close. What onnxruntime hands out is not counted by Go's      *)
(* collector, so the module follows every handle from its creation to its      *)
(* release. onnxruntime is external: each of its calls may fail with a status. *)
(***************************************************************************)
EXTENDS Naturals, FiniteSets

CONSTANTS
    Callers,    \* goroutines that call Score: the tracks of the call
    Closers,    \* goroutines that close the stream of the call
    MaxChunks,  \* bound: windows of one scored segment
    Nobody

\* Goroutines are told apart: one that scores does not close, and neither builds.
ASSUME ScorerAssumption ==
    /\ MaxChunks \in Nat
    /\ Nobody \notin Callers \cup Closers \cup {"builder"}
    /\ "builder" \notin Callers \cup Closers
    /\ Callers \cap Closers = {}

\* Handles are known by who made them, the scorer or a call of Score, and by name.
Own(names) == {"scorer"} \X names

VARIABLES
    build,    \* how far NewScorer came: its outcome, and the stages of the native one
    live,     \* handles that onnxruntime, or C.CString, gave and has not got back
    closed,
    mu,       \* the holder of the scorer's mutex
    caller,   \* Score of each caller: program point, windows left, step of runChunk
    closer,   \* Close of each closer, and of the builder after a failure
    misused   \* history: a handle was used that is not live

vars == <<build, live, closed, mu, caller, closer, misused>>

-----------------------------------------------------------------------------
(* Construction *)

\* What each stage creates: three of them only set options.
Creates == <<{"env"}, {"options"}, {}, {}, {}, {"strings"}, {"session"}, {"memory"}>>
Stages == 8
StringStage == 6

\* What a stage works with.
Needs == <<{}, {}, {"options"}, {"options"}, {"options"}, {}, {"env", "options", "strings"}, {}>>

\* NewScorer: no scorer for other modes and without a model, an error, the HTTP scorer,
\* which keeps nothing, or the native one.
Select ==
    /\ build.pc = "select"
    /\ build' \in [pc : {"none", "error", "http", "building"}, stage : {1}]
    /\ UNCHANGED <<live, closed, mu, caller, closer, misused>>

BuildStage ==
    /\ build.pc = "building"
    /\ live' = live \cup Own(Creates[build.stage])
    /\ misused' = (misused \/ ~ Own(Needs[build.stage]) \subseteq live)
    /\ build' = IF build.stage = Stages THEN [build EXCEPT !.pc = "ready"]
                ELSE [build EXCEPT !.stage = @ + 1]
    /\ UNCHANGED <<closed, mu, caller, closer>>

\* The status is released by wrapStatus and the scorer closed before the error is returned.
BuildFails ==
    /\ build.pc = "building" /\ build.stage # StringStage
    /\ build' = [build EXCEPT !.pc = "failed"]
    /\ closer' = [closer EXCEPT !["builder"] = "lock"]
    /\ UNCHANGED <<live, closed, mu, caller, misused>>

-----------------------------------------------------------------------------
(* Score *)

\* The context, the rate, the length and an empty payload are refused without the mutex.
Score(c) ==
    /\ build.pc = "ready" /\ caller[c].pc = "idle"
    /\ \E n \in 1..MaxChunks : caller' = [caller EXCEPT ![c] = [pc |-> "lock", chunks |-> n, step |-> 0]]
    /\ UNCHANGED <<build, live, closed, mu, closer, misused>>

Lock(c) ==
    /\ caller[c].pc = "lock" /\ mu = Nobody
    /\ mu' = c
    /\ caller' = [caller EXCEPT ![c].pc = IF closed THEN "unlock" ELSE "window"]
    /\ UNCHANGED <<build, live, closed, closer, misused>>

\* The next window, or none is left, or the context has ended.
Window(c) ==
    /\ caller[c].pc = "window"
    /\ caller' \in {[caller EXCEPT ![c].pc = "unlock"]} \cup
          IF caller[c].chunks = 0 THEN {}
          ELSE {[caller EXCEPT ![c] = [pc |-> "run", chunks |-> @.chunks - 1, step |-> 1]]}
    /\ UNCHANGED <<build, live, closed, mu, closer, misused>>

Unlock(c) ==
    /\ caller[c].pc = "unlock"
    /\ mu' = Nobody
    /\ caller' = [caller EXCEPT ![c].pc = "idle"]
    /\ UNCHANGED <<build, live, closed, closer, misused>>

-----------------------------------------------------------------------------
(* runChunk: three tensors, the run with its two outputs, the outputs' data   *)

Tensors == {"input", "state", "rate"}
Outputs == {"output", "stateN"}
Values(c) == {c} \X (Tensors \cup Outputs \cup {"status"})

\* What a step of c works with, and what it yields.
Uses(c) ==
    CASE caller[c].step \in 1..3 -> Own({"memory"})
      [] caller[c].step = 4 -> Own({"session", "strings"}) \cup ({c} \X Tensors)
      [] caller[c].step = 5 -> {<<c, "output">>}
      [] OTHER -> {<<c, "stateN">>}

Yields(c) ==
    {c} \X CASE caller[c].step = 1 -> {"input"}
             [] caller[c].step = 2 -> {"state"}
             [] caller[c].step = 3 -> {"rate"}
             [] caller[c].step = 4 -> Outputs
             [] OTHER -> {}

Step(c) ==
    /\ caller[c].pc = "run"
    /\ misused' = (misused \/ ~ Uses(c) \subseteq live)
    /\ live' = live \cup Yields(c)
    /\ caller' = IF caller[c].step = 6 THEN [caller EXCEPT ![c].pc = "unwind"]
                 ELSE [caller EXCEPT ![c].step = @ + 1]
    /\ UNCHANGED <<build, closed, mu, closer>>

StepFails(c) ==
    /\ caller[c].pc = "run"
    /\ misused' = (misused \/ ~ Uses(c) \subseteq live)
    /\ live' = live \cup {<<c, "status">>}
    /\ caller' = [caller EXCEPT ![c].pc = "status"]
    /\ UNCHANGED <<build, closed, mu, closer>>

\* wrapStatus; the step number tells the caller's loop that the window failed.
WrapStatus(c) ==
    /\ caller[c].pc = "status"
    /\ misused' = (misused \/ <<c, "status">> \notin live)
    /\ live' = live \ {<<c, "status">>}
    /\ caller' = [caller EXCEPT ![c].pc = "unwind", ![c].step = 0]
    /\ UNCHANGED <<build, closed, mu, closer>>

\* A faulty variant: only a run that succeeds gives its outputs back.
UnwindKeepsOutputs(c) ==
    /\ caller[c].pc = "unwind"
    /\ live' = live \ (IF caller[c].step = 0 THEN {c} \X Tensors ELSE Values(c))
    /\ caller' = [caller EXCEPT ![c].pc = IF caller[c].step = 0 THEN "unlock" ELSE "window"]
    /\ UNCHANGED <<build, closed, mu, closer, misused>>

\* The deferred releases.
Unwind(c) ==
    /\ caller[c].pc = "unwind"
    /\ live' = live \ Values(c)
    /\ caller' = [caller EXCEPT ![c].pc = IF caller[c].step = 0 THEN "unlock" ELSE "window"]
    /\ UNCHANGED <<build, closed, mu, closer, misused>>

-----------------------------------------------------------------------------
(* Close *)

CallClose(k) ==
    /\ build.pc = "ready" /\ closer[k] = "idle"
    /\ closer' = [closer EXCEPT ![k] = "lock"]
    /\ UNCHANGED <<build, live, closed, mu, caller, misused>>

\* A faulty variant: Close does not wait for a Score in progress.
CloseLockUnheld(k) ==
    /\ closer[k] = "lock"
    /\ mu' = mu
    /\ closer' = [closer EXCEPT ![k] = IF closed THEN "done" ELSE "memory"]
    /\ closed' = TRUE
    /\ UNCHANGED <<build, live, caller, misused>>

CloseLock(k) ==
    /\ closer[k] = "lock" /\ mu = Nobody
    /\ mu' = IF closed THEN Nobody ELSE k
    /\ closer' = [closer EXCEPT ![k] = IF closed THEN "done" ELSE "memory"]
    /\ closed' = TRUE
    /\ UNCHANGED <<build, live, caller, misused>>

\* In this order; what was never created is NULL, and the bridge leaves it alone.
Released == [memory |-> "session", session |-> "options", options |-> "env", env |-> "strings"]

Release(k) ==
    /\ closer[k] \in DOMAIN Released
    /\ live' = live \ Own({closer[k]})
    /\ closer' = [closer EXCEPT ![k] = Released[@]]
    /\ UNCHANGED <<build, closed, mu, caller, misused>>

CloseUnlock(k) ==
    /\ closer[k] = "strings"
    /\ live' = live \ Own({"strings"})
    /\ mu' = IF mu = k THEN Nobody ELSE mu
    /\ closer' = [closer EXCEPT ![k] = "done"]
    /\ UNCHANGED <<build, closed, caller, misused>>

-----------------------------------------------------------------------------
Init ==
    /\ build = [pc |-> "select", stage |-> 1]
    /\ live = {} /\ closed = FALSE /\ mu = Nobody /\ misused = FALSE
    /\ caller = [c \in Callers |-> [pc |-> "idle", chunks |-> 0, step |-> 0]]
    /\ closer = [k \in Closers \cup {"builder"} |-> "idle"]

Next ==
    \/ Select \/ BuildStage \/ BuildFails
    \/ \E c \in Callers :
           \/ Score(c) \/ Lock(c) \/ Window(c) \/ Unlock(c)
           \/ Step(c) \/ StepFails(c) \/ WrapStatus(c) \/ Unwind(c)
    \/ \E k \in Closers : CallClose(k)
    \/ \E k \in Closers \cup {"builder"} : CloseLock(k) \/ Release(k) \/ CloseUnlock(k)

Spec == Init /\ [][Next]_vars

-----------------------------------------------------------------------------
(* Properties *)

\* No handle is used after it was released or before it was made, whatever Close and the
\* tracks' Scores do at the same time: a Score that waited for the mutex finds it closed.
NeverMisused == ~misused

\* Nothing is left to onnxruntime: a Score that has returned, on any of its paths, holds no
\* value and no status, and a scorer that is closed, or was never handed out, holds no handle.
NothingLeaked ==
    /\ \A c \in Callers : caller[c].pc \in {"idle", "lock"} => Values(c) \cap live = {}
    /\ closed /\ mu = Nobody => live = {}
    /\ build.pc = "failed" /\ closer["builder"] = "done" => closed
=============================================================================
