-------------------------- MODULE NativeScorerProofs --------------------------
(***************************************************************************)
(* Proofs about NativeScorer, for any number of tracks and streams, and      *)
(* segments of any number of windows.                                        *)
(*                                                                           *)
(* The inductive invariant says what may be live at each program point: the  *)
(* handles of the stages built so far, all of them while the scorer is open, *)
(* those Close has not come to yet, and, of the tracks, only what the one     *)
(* that holds the mutex has made in its current window.                      *)
(***************************************************************************)
EXTENDS NativeScorer, TLAPS

-----------------------------------------------------------------------------
(* Construction *)

Handles == {"env", "options", "strings", "session", "memory"}

\* The handles that the first n stages create.
Built(n) == UNION {Creates[r] : r \in 1..n}

LEMMA NothingBuilt == Built(0) = {}
BY DEF Built

\* A stage adds what it creates.
LEMMA BuiltGrows ==
    ASSUME NEW n \in 1..Stages PROVE Built(n) = Built(n - 1) \cup Creates[n]
BY DEF Built, Stages

\* The stages create all the handles and no other.
LEMMA BuiltAll ==
    /\ Built(Stages) = Handles
    /\ \A n \in 0..Stages : Built(n) \subseteq Handles
<1>1. \A n \in 1..Stages : Creates[n] \subseteq Handles
  BY DEF Creates, Stages, Handles
<1>2. \A n \in 0..Stages : Built(n) \subseteq Handles
  BY <1>1 DEF Built, Stages
<1>3. Handles \subseteq Built(Stages)
  <2>1. "env" \in Creates[1] /\ "options" \in Creates[2] /\ "strings" \in Creates[6]
        /\ "session" \in Creates[7] /\ "memory" \in Creates[8]
    BY DEF Creates
  <2> QED
    BY <2>1 DEF Built, Stages, Handles
<1> QED
  BY <1>2, <1>3 DEF Stages

\* A stage works with what earlier stages made.
LEMMA NeedsBuilt ==
    ASSUME NEW n \in 1..Stages PROVE Needs[n] \subseteq Built(n - 1)
<1>1. "env" \in Creates[1] /\ "options" \in Creates[2] /\ "strings" \in Creates[6]
  BY DEF Creates
<1>2. CASE n \in {1, 2, 6, 8}
  BY <1>2 DEF Needs
<1>3. CASE n \in {3, 4, 5}
  <2>1. Needs[n] = {"options"}
    BY <1>3 DEF Needs
  <2> QED
    BY <2>1, <1>1, <1>3 DEF Built
<1>4. CASE n = 7
  <2>1. Needs[n] = {"env", "options", "strings"}
    BY <1>4 DEF Needs
  <2> QED
    BY <2>1, <1>1, <1>4 DEF Built
<1> QED
  BY <1>2, <1>3, <1>4 DEF Stages

-----------------------------------------------------------------------------
(* The inductive invariant *)

AllClosers == Closers \cup {"builder"}
Scoring == {"window", "run", "status", "unwind"}

ScorerTyped ==
    /\ build \in [pc : {"select", "none", "error", "http", "building", "ready", "failed"},
                  stage : 1..Stages]
    /\ closed \in BOOLEAN
    /\ mu \in Callers \cup AllClosers \cup {Nobody}
    /\ caller \in [Callers -> [pc : {"idle", "lock", "unlock"} \cup Scoring,
                               chunks : Nat, step : 0..6]]
    /\ closer \in [AllClosers -> {"idle", "lock", "done"} \cup Handles]

\* Who is where: nothing is called before the scorer was handed out, the builder closes it
\* only when it never is, and the mutex has at most one holder.
Excluded ==
    /\ \A c \in Callers : /\ caller[c].pc # "idle" => build.pc = "ready"
                          /\ caller[c].pc \in Scoring \cup {"unlock"} <=> mu = c
                          /\ closed => caller[c].pc \notin Scoring
    /\ \A k \in AllClosers : /\ closer[k] \in Handles <=> mu = k
                             /\ closer[k] \in Handles \cup {"done"} => closed
    /\ \A k \in Closers : closer[k] # "idle" => build.pc = "ready"
    /\ closer["builder"] # "idle" <=> build.pc = "failed"

\* The handles that a closer which is about to release h has still to release.
Unreleased(h) ==
    CASE h = "memory"  -> Handles
      [] h = "session" -> Handles \ {"memory"}
      [] h = "options" -> {"env", "options", "strings"}
      [] h = "env"     -> {"env", "strings"}
      [] OTHER         -> {"strings"}

\* The scorer's handles, from the first stage to the last release.
HandlesLive ==
    /\ build.pc \in {"select", "none", "error", "http"} => live = {} /\ ~closed
    /\ build.pc = "building" => live = Own(Built(build.stage - 1)) /\ ~closed
    /\ build.pc = "failed" => live \subseteq Own(Handles)
    /\ build.pc = "ready" /\ ~closed => Own(Handles) \subseteq live
    /\ closed /\ mu \notin AllClosers => live = {}
    /\ closed => \A k \in AllClosers :
                    closer[k] \in Handles => live \subseteq Own(Unreleased(closer[k]))

\* What a Score that has come to a step has made in its current window.
MadeBefore(step) ==
    CASE step \in {0, 1} -> {}
      [] step = 2 -> {"input"}
      [] step = 3 -> {"input", "state"}
      [] step = 4 -> Tensors
      [] OTHER -> Tensors \cup Outputs

ValuesLive ==
    /\ \A h \in live : h \in Own(Handles) \/ \E c \in Callers : h \in Values(c)
    /\ \A c \in Callers :
           /\ caller[c].pc \notin {"run", "status", "unwind"} => Values(c) \cap live = {}
           /\ caller[c].pc = "run" => /\ caller[c].step \in 1..6
                                      /\ {c} \X MadeBefore(caller[c].step) \subseteq live
           /\ caller[c].pc = "status" => <<c, "status">> \in live

IInv == ScorerTyped /\ Excluded /\ HandlesLive /\ ValuesLive /\ ~misused

\* The invariant is strong enough for what the run checks.
LEMMA IInvImplies == IInv => NeverMisused /\ NothingLeaked
<1> SUFFICES ASSUME IInv PROVE NeverMisused /\ NothingLeaked
  OBVIOUS
<1>1. NeverMisused
  BY DEF IInv, NeverMisused
<1>2. ASSUME NEW c \in Callers, caller[c].pc \in {"idle", "lock"}
      PROVE  Values(c) \cap live = {}
  BY <1>2 DEF IInv, ValuesLive
<1>3. ASSUME closed, mu = Nobody PROVE live = {}
  BY <1>3, ScorerAssumption DEF IInv, HandlesLive, AllClosers
<1>4. ASSUME closer["builder"] = "done" PROVE closed
  BY <1>4 DEF IInv, Excluded, AllClosers
<1> QED
  BY <1>1, <1>2, <1>3, <1>4 DEF NothingLeaked

LEMMA InitIInv == Init => IInv
<1> SUFFICES ASSUME Init PROVE IInv
  OBVIOUS
<1>1. ScorerTyped
  <2>1. build \in [pc : {"select", "none", "error", "http", "building", "ready", "failed"},
                    stage : 1..Stages]
    BY DEF Init, Stages
  <2>2. caller \in [Callers -> [pc : {"idle", "lock", "unlock"} \cup Scoring,
                                chunks : Nat, step : 0..6]]
    BY DEF Init
  <2>3. closer \in [AllClosers -> {"idle", "lock", "done"} \cup Handles]
    BY DEF Init, AllClosers
  <2> QED
    BY <2>1, <2>2, <2>3 DEF Init, ScorerTyped
<1>2. Excluded
  BY ScorerAssumption DEF Init, Excluded, Scoring, Handles, AllClosers
<1>3. HandlesLive
  BY DEF Init, HandlesLive
<1>4. ValuesLive
  BY DEF Init, ValuesLive
<1> QED
  BY <1>1, <1>2, <1>3, <1>4 DEF Init, IInv

-----------------------------------------------------------------------------
(* Construction keeps the invariant *)

LEMMA SelectStep == ASSUME IInv, Select PROVE IInv'
<1> USE DEF Select, IInv
<1>1. ScorerTyped'
  BY DEF ScorerTyped, Stages
<1>2. Excluded'
  BY DEF Excluded
<1>3. HandlesLive'
  BY NothingBuilt DEF HandlesLive, Own, ScorerTyped, AllClosers
<1>4. ValuesLive'
  BY DEF ValuesLive
<1> QED
  BY <1>1, <1>2, <1>3, <1>4

LEMMA BuildStageStep == ASSUME IInv, BuildStage PROVE IInv'
<1> USE DEF BuildStage
<1> DEFINE n == build.stage
<1>1. n \in 1..Stages /\ live = Own(Built(n - 1)) /\ ~closed
  BY DEF IInv, ScorerTyped, HandlesLive
<1>2. ScorerTyped'
  BY <1>1 DEF IInv, ScorerTyped, Stages
<1>3. Excluded'
  BY DEF IInv, Excluded, ScorerTyped
<1>4. live' = Own(Built(n))
  BY <1>1, BuiltGrows DEF Own
<1>5. HandlesLive'
  <2>1. CASE n = Stages
    BY <1>1, <1>4, <2>1, BuiltAll DEF IInv, HandlesLive, ScorerTyped, Stages
  <2>2. CASE n # Stages
    BY <1>1, <1>4, <2>2 DEF IInv, HandlesLive, ScorerTyped, Stages
  <2> QED
    BY <2>1, <2>2
<1>6. ValuesLive'
  <2>1. live' \subseteq Own(Handles)
    BY <1>1, <1>4, BuiltAll DEF Own, Stages
  <2>2. \A c \in Callers : caller[c].pc = "idle"
    BY DEF IInv, Excluded
  <2>3. \A c \in Callers : Values(c) \cap live' = {}
    BY <2>1 DEF Own, Handles, Values, Tensors, Outputs
  <2> QED
    BY <2>1, <2>2, <2>3 DEF ValuesLive
<1>7. ~misused'
  BY <1>1, NeedsBuilt DEF IInv, Own
<1> QED
  BY <1>2, <1>3, <1>5, <1>6, <1>7 DEF IInv

LEMMA BuildFailsStep == ASSUME IInv, BuildFails PROVE IInv'
<1> USE DEF BuildFails
<1>1. live \subseteq Own(Handles) /\ ~closed
  BY BuiltAll DEF IInv, ScorerTyped, HandlesLive, Own, Stages
<1>2. ScorerTyped'
  BY DEF IInv, ScorerTyped, AllClosers
<1>3. Excluded'
  BY <1>1, ScorerAssumption DEF IInv, Excluded, ScorerTyped, AllClosers, Handles
<1>4. HandlesLive'
  BY <1>1 DEF IInv, HandlesLive, ScorerTyped
<1>5. ValuesLive'
  BY DEF IInv, ValuesLive
<1> QED
  BY <1>2, <1>3, <1>4, <1>5 DEF IInv

-----------------------------------------------------------------------------
(* Score keeps the invariant *)

\* What belongs to a call of Score is no handle of the scorer, nor of another call.
LEMMA ValuesApart ==
    ASSUME NEW c
    PROVE  /\ Values(c) \cap Own(Handles) = {}
           /\ \A d : d # c => Values(d) \cap Values(c) = {}
           /\ \A step : {c} \X MadeBefore(step) \subseteq Values(c)
<1>1. Values(c) \cap Own(Handles) = {}
  BY DEF Values, Own, Handles, Tensors, Outputs
<1>2. \A d : d # c => Values(d) \cap Values(c) = {}
  BY DEF Values
<1>3. \A step : MadeBefore(step) \subseteq Tensors \cup Outputs
  BY DEF MadeBefore, Tensors
<1> QED
  BY <1>1, <1>2, <1>3 DEF Values

\* The steps that touch no handle.
LEMMA QuietScoreStep ==
    ASSUME IInv, NEW c \in Callers, Score(c) \/ Lock(c) \/ Window(c) \/ Unlock(c)
    PROVE  IInv'
<1> USE DEF IInv
<1>1. UNCHANGED <<build, live, closed, closer, misused>>
  BY DEF Score, Lock, Window, Unlock
<1>2. CASE Score(c)
  <2>1. PICK n \in 1..MaxChunks :
            caller' = [caller EXCEPT ![c] = [pc |-> "lock", chunks |-> n, step |-> 0]]
    BY <1>2 DEF Score
  <2>2. n \in Nat
    BY ScorerAssumption
  <2>3. ScorerTyped'
    BY <1>1, <1>2, <2>1, <2>2 DEF Score, ScorerTyped
  <2>4. Excluded'
    BY <1>1, <1>2, <2>1 DEF Score, ScorerTyped, Excluded, Scoring
  <2>5. HandlesLive'
    BY <1>1, <1>2 DEF Score, HandlesLive
  <2>6. ValuesLive'
    BY <1>1, <1>2, <2>1 DEF Score, ScorerTyped, ValuesLive
  <2> QED
    BY <1>1, <2>3, <2>4, <2>5, <2>6
<1>3. CASE Lock(c)
  <2>1. ScorerTyped'
    BY <1>1, <1>3 DEF Lock, ScorerTyped, Scoring
  <2>2. Excluded'
    BY <1>1, <1>3, ScorerAssumption DEF Lock, ScorerTyped, Excluded, Scoring, AllClosers, Handles
  <2>3. HandlesLive'
    BY <1>1, <1>3, ScorerAssumption DEF Lock, HandlesLive, AllClosers
  <2>4. ValuesLive'
    BY <1>1, <1>3 DEF Lock, ScorerTyped, ValuesLive
  <2> QED
    BY <1>1, <2>1, <2>2, <2>3, <2>4
<1>4. CASE Window(c)
  <2>1. \/ caller' = [caller EXCEPT ![c].pc = "unlock"]
        \/ /\ caller[c].chunks # 0
           /\ caller' = [caller EXCEPT ![c] = [pc |-> "run", chunks |-> caller[c].chunks - 1,
                                              step |-> 1]]
    BY <1>4 DEF Window
  <2>2. ScorerTyped'
    BY <1>1, <1>4, <2>1 DEF Window, ScorerTyped, Scoring
  <2>3. Excluded'
    BY <1>1, <1>4, <2>1 DEF Window, ScorerTyped, Excluded, Scoring
  <2>4. HandlesLive'
    BY <1>1, <1>4 DEF Window, HandlesLive
  <2>5. MadeBefore(1) = {}
    BY DEF MadeBefore
  <2>6. ValuesLive'
    BY <1>1, <1>4, <2>1, <2>5 DEF Window, ScorerTyped, ValuesLive
  <2> QED
    BY <1>1, <2>2, <2>3, <2>4, <2>6
<1>5. CASE Unlock(c)
  <2>1. ScorerTyped'
    BY <1>1, <1>5 DEF Unlock, ScorerTyped
  <2>2. mu = c /\ mu \notin AllClosers
    BY <1>5, ScorerAssumption DEF Unlock, Excluded, AllClosers
  <2>3. Excluded'
    BY <1>1, <1>5, <2>2, ScorerAssumption
    DEF Unlock, ScorerTyped, Excluded, Scoring, AllClosers
  <2>4. HandlesLive'
    BY <1>1, <1>5, <2>2 DEF Unlock, HandlesLive
  <2>5. ValuesLive'
    BY <1>1, <1>5 DEF Unlock, ScorerTyped, ValuesLive
  <2> QED
    BY <1>1, <2>1, <2>3, <2>4, <2>5
<1> QED
  BY <1>2, <1>3, <1>4, <1>5

\* While a caller scores, the scorer is open and no other call has anything live.
LEMMA ScoringAlone ==
    ASSUME IInv, NEW c \in Callers, caller[c].pc \in Scoring
    PROVE  /\ mu = c /\ ~closed /\ build.pc = "ready"
           /\ Own(Handles) \subseteq live
           /\ \A d \in Callers : d # c => caller[d].pc \notin Scoring
<1>1. mu = c /\ ~closed /\ build.pc = "ready"
  BY DEF IInv, Excluded, Scoring
<1>2. Own(Handles) \subseteq live
  BY <1>1 DEF IInv, HandlesLive
<1>3. \A d \in Callers : d # c => caller[d].pc \notin Scoring
  BY <1>1 DEF IInv, Excluded
<1> QED
  BY <1>1, <1>2, <1>3

\* A step of the call that scores, which changes its program point and what it has live.
LEMMA HandleScoreStep ==
    ASSUME IInv, NEW c \in Callers, caller[c].pc \in Scoring,
           UNCHANGED <<build, closed, mu, closer>>,
           caller' = [caller EXCEPT ![c] = caller'[c]],
           caller'[c] \in [pc : Scoring \cup {"unlock"}, chunks : Nat, step : 0..6],
           live \ Values(c) = live' \ Values(c),
           caller'[c].pc \notin {"run", "status", "unwind"} => Values(c) \cap live' = {},
           caller'[c].pc = "run" => /\ caller'[c].step \in 1..6
                                    /\ {c} \X MadeBefore(caller'[c].step) \subseteq live',
           caller'[c].pc = "status" => <<c, "status">> \in live',
           ~misused'
    PROVE  IInv'
<1>1. ScorerTyped'
  BY DEF IInv, ScorerTyped
<1>2. Excluded'
  BY ScoringAlone DEF IInv, ScorerTyped, Excluded, Scoring
<1>3. HandlesLive'
  BY ScoringAlone, ValuesApart DEF IInv, HandlesLive
<1>4. ValuesLive'
  <2>1. \A h \in live' : h \in Own(Handles) \/ \E d \in Callers : h \in Values(d)
    BY DEF IInv, ValuesLive
  <2>2. ASSUME NEW d \in Callers, d # c
        PROVE  /\ caller'[d] = caller[d]
               /\ caller[d].pc \notin {"run", "status", "unwind"}
               /\ Values(d) \cap live' = {}
    <3>1. caller'[d] = caller[d] /\ caller[d].pc \notin {"run", "status", "unwind"}
      BY <2>2, ScoringAlone DEF IInv, ScorerTyped, Scoring
    <3>2. Values(d) \cap live = {} /\ Values(d) \cap Values(c) = {}
      BY <2>2, <3>1, ValuesApart DEF IInv, ValuesLive
    <3> QED
      BY <3>1, <3>2
  <2>3. \A d \in Callers : d # c =>
            /\ caller'[d].pc \notin {"run", "status", "unwind"}
            /\ Values(d) \cap live' = {}
    BY <2>2
  <2> QED
    BY <2>1, <2>3 DEF ValuesLive
<1> QED
  BY <1>1, <1>2, <1>3, <1>4 DEF IInv

\* What a step works with is live: a Score in progress keeps Close out.
LEMMA UsesLive ==
    ASSUME IInv, NEW c \in Callers, caller[c].pc = "run"
    PROVE  Uses(c) \subseteq live
<1> DEFINE n == caller[c].step
<1>1. n \in 1..6 /\ {c} \X MadeBefore(n) \subseteq live
  BY DEF IInv, ScorerTyped, ValuesLive
<1>2. Own(Handles) \subseteq live
  BY ScoringAlone DEF Scoring, IInv
<1>3. CASE n \in 1..3
  <2>1. Uses(c) = Own({"memory"})
    BY <1>3 DEF Uses
  <2> QED
    BY <2>1, <1>2 DEF Own, Handles
<1>4. CASE n = 4
  <2>1. Uses(c) = Own({"session", "strings"}) \cup ({c} \X Tensors)
    BY <1>4 DEF Uses
  <2>2. {c} \X Tensors \subseteq live
    BY <1>4, <1>1 DEF MadeBefore
  <2> QED
    BY <2>1, <2>2, <1>2 DEF Own, Handles
<1>5. CASE n \in {5, 6}
  <2>1. Uses(c) \subseteq {c} \X Outputs
    BY <1>5 DEF Uses, Outputs
  <2>2. {c} \X Outputs \subseteq live
    BY <1>5, <1>1 DEF MadeBefore
  <2> QED
    BY <2>1, <2>2
<1> QED
  BY <1>1, <1>3, <1>4, <1>5

LEMMA StepStep == ASSUME IInv, NEW c \in Callers, Step(c) PROVE IInv'
<1> DEFINE n == caller[c].step
<1>1. /\ caller[c].pc = "run" /\ caller[c].pc \in Scoring
      /\ n \in 1..6 /\ {c} \X MadeBefore(n) \subseteq live
      /\ caller[c] \in [pc : {"idle", "lock", "unlock"} \cup Scoring, chunks : Nat, step : 0..6]
      /\ DOMAIN caller = Callers
  BY DEF Step, IInv, ScorerTyped, ValuesLive, Scoring
<1>2. ~misused'
  BY <1>1, UsesLive DEF Step, IInv
<1>3. /\ live' = live \cup Yields(c)
      /\ live \ Values(c) = live' \ Values(c)
  BY DEF Step, Yields, Values, Tensors
<1>4. CASE n = 6
  <2>1. caller' = [caller EXCEPT ![c].pc = "unwind"]
    BY <1>4 DEF Step
  <2>2. caller'[c] = [caller[c] EXCEPT !.pc = "unwind"]
    BY <1>1, <2>1
  <2>3. /\ caller' = [caller EXCEPT ![c] = caller'[c]]
        /\ caller'[c] \in [pc : Scoring \cup {"unlock"}, chunks : Nat, step : 0..6]
        /\ caller'[c].pc = "unwind"
    BY <1>1, <2>1, <2>2 DEF Scoring
  <2> QED
    BY <1>1, <1>2, <1>3, <2>3, HandleScoreStep DEF Step
<1>5. CASE n # 6
  <2>1. caller' = [caller EXCEPT ![c].step = n + 1] /\ n + 1 \in 1..6
    BY <1>1, <1>5 DEF Step
  <2>2. caller'[c] = [caller[c] EXCEPT !.step = n + 1]
    BY <1>1, <2>1
  <2>3. /\ caller' = [caller EXCEPT ![c] = caller'[c]]
        /\ caller'[c] \in [pc : Scoring \cup {"unlock"}, chunks : Nat, step : 0..6]
        /\ caller'[c].pc = "run" /\ caller'[c].step = n + 1
    BY <1>1, <2>1, <2>2 DEF Scoring
  <2>4. {c} \X MadeBefore(n + 1) \subseteq live'
    <3>1. MadeBefore(n + 1) \subseteq MadeBefore(n) \cup
              CASE n = 1 -> {"input"}
                [] n = 2 -> {"state"}
                [] n = 3 -> {"rate"}
                [] n = 4 -> Outputs
                [] OTHER -> {}
      BY <1>1, <1>5 DEF MadeBefore, Tensors
    <3>2. {c} \X MadeBefore(n + 1) \subseteq ({c} \X MadeBefore(n)) \cup Yields(c)
      BY <3>1 DEF Yields
    <3> QED
      BY <3>2, <1>1, <1>3
  <2> QED
    BY <1>1, <1>2, <1>3, <2>1, <2>3, <2>4, HandleScoreStep DEF Step
<1> QED
  BY <1>4, <1>5

LEMMA StepFailsStep == ASSUME IInv, NEW c \in Callers, StepFails(c) PROVE IInv'
<1>1. /\ caller[c].pc = "run" /\ caller[c].pc \in Scoring
      /\ caller[c] \in [pc : {"idle", "lock", "unlock"} \cup Scoring, chunks : Nat, step : 0..6]
      /\ DOMAIN caller = Callers
  BY DEF StepFails, IInv, ScorerTyped, Scoring
<1>2. ~misused'
  BY <1>1, UsesLive DEF StepFails, IInv
<1>3. live \ Values(c) = live' \ Values(c) /\ <<c, "status">> \in live'
  BY DEF StepFails, Values
<1>4. /\ caller' = [caller EXCEPT ![c] = caller'[c]]
      /\ caller'[c] \in [pc : Scoring \cup {"unlock"}, chunks : Nat, step : 0..6]
      /\ caller'[c].pc = "status"
  BY <1>1 DEF StepFails, Scoring
<1> QED
  BY <1>1, <1>2, <1>3, <1>4, HandleScoreStep DEF StepFails

LEMMA WrapStatusStep == ASSUME IInv, NEW c \in Callers, WrapStatus(c) PROVE IInv'
<1>1. /\ caller[c].pc = "status" /\ caller[c].pc \in Scoring /\ <<c, "status">> \in live
      /\ caller[c] \in [pc : {"idle", "lock", "unlock"} \cup Scoring, chunks : Nat, step : 0..6]
      /\ DOMAIN caller = Callers
  BY DEF WrapStatus, IInv, ScorerTyped, ValuesLive, Scoring
<1>2. ~misused'
  BY <1>1 DEF WrapStatus, IInv
<1>3. live \ Values(c) = live' \ Values(c)
  BY DEF WrapStatus, Values
<1>4. /\ caller' = [caller EXCEPT ![c] = caller'[c]]
      /\ caller'[c] \in [pc : Scoring \cup {"unlock"}, chunks : Nat, step : 0..6]
      /\ caller'[c].pc = "unwind"
  <2> DEFINE T == [pc : Scoring \cup {"unlock"}, chunks : Nat, step : 0..6]
             r == [caller[c] EXCEPT !.pc = "unwind"]
             u == [r EXCEPT !.step = 0]
  <2>1. caller' = [caller EXCEPT ![c] = u]
    BY DEF WrapStatus
  <2>2. r \in T /\ r.pc = "unwind"
    BY <1>1 DEF Scoring
  <2> HIDE DEF r
  <2>3. u \in T /\ u.pc = "unwind"
    BY <2>2
  <2> HIDE DEF u
  <2> QED
    BY <1>1, <2>1, <2>3
<1> QED
  BY <1>1, <1>2, <1>3, <1>4, HandleScoreStep DEF WrapStatus

LEMMA UnwindStep == ASSUME IInv, NEW c \in Callers, Unwind(c) PROVE IInv'
<1>1. /\ caller[c].pc = "unwind" /\ caller[c].pc \in Scoring
      /\ caller[c] \in [pc : {"idle", "lock", "unlock"} \cup Scoring, chunks : Nat, step : 0..6]
      /\ DOMAIN caller = Callers
  BY DEF Unwind, IInv, ScorerTyped, Scoring
<1>2. live \ Values(c) = live' \ Values(c) /\ Values(c) \cap live' = {} /\ ~misused'
  BY DEF Unwind, IInv
<1>3. /\ caller' = [caller EXCEPT ![c] = caller'[c]]
      /\ caller'[c] \in [pc : Scoring \cup {"unlock"}, chunks : Nat, step : 0..6]
      /\ caller'[c].pc \in {"unlock", "window"}
  BY <1>1 DEF Unwind, Scoring
<1> QED
  BY <1>1, <1>2, <1>3, HandleScoreStep DEF Unwind

-----------------------------------------------------------------------------
(* Close keeps the invariant *)

LEMMA CallCloseStep == ASSUME IInv, NEW k \in Closers, CallClose(k) PROVE IInv'
<1> USE DEF CallClose, IInv
<1>1. ScorerTyped'
  BY DEF ScorerTyped, AllClosers
<1>2. Excluded'
  BY ScorerAssumption DEF Excluded, ScorerTyped, AllClosers, Handles
<1>3. HandlesLive'
  BY DEF HandlesLive, ScorerTyped, AllClosers, Handles
<1>4. ValuesLive'
  BY DEF ValuesLive
<1> QED
  BY <1>1, <1>2, <1>3, <1>4

\* A closer that has something to do was let in by a scorer that is handed out, or failed.
LEMMA CloserEntitled ==
    ASSUME IInv, NEW k \in AllClosers, closer[k] # "idle"
    PROVE  build.pc \in {"ready", "failed"} /\ (k = "builder" <=> build.pc = "failed")
BY ScorerAssumption DEF IInv, Excluded, AllClosers

LEMMA CloseLockStep == ASSUME IInv, NEW k \in AllClosers, CloseLock(k) PROVE IInv'
<1>1. ScorerTyped'
  BY DEF CloseLock, IInv, ScorerTyped, Handles
<1>2. \A c \in Callers : caller[c].pc \notin Scoring \cup {"unlock"}
  BY ScorerAssumption DEF CloseLock, IInv, Excluded
<1>3. \A j \in AllClosers : closer[j] \notin Handles
  BY ScorerAssumption DEF CloseLock, IInv, Excluded, AllClosers
<1>4. live \subseteq Own(Handles)
  BY <1>2 DEF IInv, ValuesLive, Scoring
<1>5. Nobody \notin AllClosers /\ k \notin Callers /\ Nobody \notin Callers
  BY ScorerAssumption DEF AllClosers
<1>6. k = "builder" \/ k \in Closers
  BY DEF AllClosers
<1>7. Excluded'
  BY <1>2, <1>3, <1>5, CloserEntitled DEF CloseLock, IInv, ScorerTyped, Excluded, Handles, AllClosers, Scoring
<1>8. HandlesLive'
  <2>1. CASE closed
    BY <2>1, <1>3, <1>5 DEF CloseLock, IInv, ScorerTyped, HandlesLive, Handles
  <2>2. CASE ~closed
    <3>1. closer' = [closer EXCEPT ![k] = "memory"] /\ mu' = k /\ closed'
      BY <2>2 DEF CloseLock
    <3>2. Unreleased("memory") = Handles
      BY DEF Unreleased
    <3>3. build.pc \in {"ready", "failed"}
      BY CloserEntitled DEF CloseLock
    <3> QED
      BY <3>1, <3>2, <3>3, <1>3, <1>4 DEF CloseLock, IInv, ScorerTyped, HandlesLive
  <2> QED
    BY <2>1, <2>2
<1>9. ValuesLive'
  BY DEF CloseLock, IInv, ValuesLive
<1> QED
  BY <1>1, <1>7, <1>8, <1>9 DEF CloseLock, IInv

\* One who releases is alone: no track scores and no other closer releases.
LEMMA ReleasingAlone ==
    ASSUME IInv, NEW k \in AllClosers, closer[k] \in Handles
    PROVE  /\ mu = k /\ closed /\ k \notin Callers
           /\ build.pc \in {"ready", "failed"}
           /\ live \subseteq Own(Unreleased(closer[k]))
           /\ \A c \in Callers : caller[c].pc \notin Scoring
           /\ \A j \in AllClosers : j # k => closer[j] \notin Handles
<1>1. mu = k /\ closed /\ \A c \in Callers : caller[c].pc \notin Scoring
  BY DEF IInv, Excluded
<1>2. k \notin Callers
  BY ScorerAssumption DEF AllClosers
<1>3. build.pc \in {"ready", "failed"}
  BY CloserEntitled DEF Handles
<1>4. live \subseteq Own(Unreleased(closer[k]))
  BY <1>1 DEF IInv, HandlesLive
<1>5. \A j \in AllClosers : j # k => closer[j] \notin Handles
  BY <1>1 DEF IInv, Excluded
<1> QED
  BY <1>1, <1>2, <1>3, <1>4, <1>5

LEMMA ReleaseStep == ASSUME IInv, NEW k \in AllClosers, Release(k) PROVE IInv'
<1> DEFINE h == closer[k]
           next == Released[h]
<1>1. h \in {"memory", "session", "options", "env"} /\ h \in Handles /\ next \in Handles
  BY DEF Release, Released, Handles
<1>2. Unreleased(h) \ {h} \subseteq Unreleased(next)
  BY <1>1 DEF Released, Unreleased, Handles
<1>3. closer' = [closer EXCEPT ![k] = next] /\ UNCHANGED <<build, closed, mu, caller, misused>>
  BY DEF Release
<1>4. live' = live \ Own({h})
  BY DEF Release
<1> HIDE DEF next
<1>5. closer \in [AllClosers -> {"idle", "lock", "done"} \cup Handles] /\ closer'[k] = next
      /\ h \notin {"idle", "lock", "done"} /\ next \notin {"idle", "lock", "done"}
  BY <1>1, <1>3 DEF IInv, ScorerTyped, Handles
<1>6. ScorerTyped'
  BY <1>1, <1>3 DEF IInv, ScorerTyped
<1>7. Excluded'
  BY <1>1, <1>3, <1>5 DEF IInv, Excluded, AllClosers
<1>8. HandlesLive'
  <2>1. live' \subseteq Own(Unreleased(next))
    BY <1>1, <1>2, <1>4, ReleasingAlone DEF Own
  <2>2. mu' \in AllClosers /\ closed'
    BY <1>1, <1>3, ReleasingAlone
  <2>3. \A j \in AllClosers : closer'[j] \in Handles => j = k
    BY <1>1, <1>3, <1>5, ReleasingAlone
  <2>4. live' \subseteq Own(Handles)
    BY <2>1 DEF Unreleased, Own, Handles
  <2> QED
    BY <1>1, <1>3, <1>5, <2>1, <2>2, <2>3, <2>4, ReleasingAlone DEF HandlesLive
<1>9. ValuesLive'
  BY <1>1, <1>3, <1>4, ReleasingAlone DEF IInv, ValuesLive, Scoring
<1> QED
  BY <1>3, <1>6, <1>7, <1>8, <1>9 DEF IInv

LEMMA CloseUnlockStep == ASSUME IInv, NEW k \in AllClosers, CloseUnlock(k) PROVE IInv'
<1>1. closer[k] = "strings" /\ closer[k] \in Handles
  BY DEF CloseUnlock, Handles
<1>2. live' = {}
  BY <1>1, ReleasingAlone DEF CloseUnlock, Unreleased, Own
<1>3. /\ mu' = Nobody /\ closer' = [closer EXCEPT ![k] = "done"]
      /\ UNCHANGED <<build, closed, caller, misused>>
  BY <1>1, ReleasingAlone DEF CloseUnlock
<1>4. closer \in [AllClosers -> {"idle", "lock", "done"} \cup Handles] /\ closer'[k] = "done"
      /\ "done" \notin Handles
  BY <1>3 DEF IInv, ScorerTyped, Handles
<1>5. ScorerTyped'
  BY <1>3 DEF IInv, ScorerTyped
<1>6. Excluded'
  BY <1>1, <1>3, <1>4, ReleasingAlone, ScorerAssumption DEF IInv, Excluded, AllClosers, Scoring
<1>7. HandlesLive'
  <2>1. \A j \in AllClosers : closer'[j] \notin Handles
    BY <1>1, <1>3, <1>4, ReleasingAlone
  <2> QED
    BY <1>1, <1>2, <1>3, <2>1, ReleasingAlone DEF HandlesLive
<1>8. ValuesLive'
  BY <1>1, <1>2, <1>3, ReleasingAlone DEF IInv, ValuesLive, Scoring
<1> QED
  BY <1>3, <1>5, <1>6, <1>7, <1>8 DEF IInv

-----------------------------------------------------------------------------
(* The theorems *)

LEMMA NextIInv == IInv /\ [Next]_vars => IInv'
<1> SUFFICES ASSUME IInv, [Next]_vars PROVE IInv'
  OBVIOUS
<1>1. CASE Select \/ BuildStage \/ BuildFails
  BY <1>1, SelectStep, BuildStageStep, BuildFailsStep
<1>2. CASE \E c \in Callers : Score(c) \/ Lock(c) \/ Window(c) \/ Unlock(c)
  BY <1>2, QuietScoreStep
<1>3. CASE \E c \in Callers : Step(c) \/ StepFails(c) \/ WrapStatus(c) \/ Unwind(c)
  BY <1>3, StepStep, StepFailsStep, WrapStatusStep, UnwindStep
<1>4. CASE \E k \in Closers : CallClose(k)
  BY <1>4, CallCloseStep
<1>5. CASE \E k \in AllClosers : CloseLock(k) \/ Release(k) \/ CloseUnlock(k)
  BY <1>5, CloseLockStep, ReleaseStep, CloseUnlockStep
<1>6. CASE UNCHANGED vars
  BY <1>6 DEF vars, IInv, ScorerTyped, Excluded, HandlesLive, ValuesLive, Values
<1> QED
  BY <1>1, <1>2, <1>3, <1>4, <1>5, <1>6 DEF Next, AllClosers

\* What is live, and who holds the mutex, is at each program point what the inductive
\* invariant says, in every reachable state.
THEOREM ScorerInvariant == Spec => []IInv
BY InitIInv, NextIInv, PTL DEF Spec

\* runChunk and the constructor never hand onnxruntime a handle that was released or not
\* made yet, whatever Close does meanwhile (native_linux.go, Score and Close).
THEOREM ScorerNeverMisused == Spec => []NeverMisused
BY ScorerInvariant, IInvImplies, PTL

\* A Score that has returned holds no value and no status, and a scorer that was closed, or
\* never handed out, no handle, on every error path.
THEOREM ScorerLeaksNothing == Spec => []NothingLeaked
BY ScorerInvariant, IInvImplies, PTL
=============================================================================
