----------------------------- MODULE ResultFeed -----------------------------
(***************************************************************************)
(* What the recognition side of a call promises its client: results may be *)
(* lost, but those of one recognition session arrive in the order in which *)
(* they were produced, each at most once, and every one carries an index   *)
(* of its own that grows within its session.                               *)
(***************************************************************************)
EXTENDS Naturals

CONSTANT Sessions

VARIABLES
    produced,   \* produced[n]: how many results session n has produced
    told        \* the results the client has been told of

vars == <<produced, told>>

Results == [session: Sessions, number: Nat, index: Nat]

TypeOK == produced \in [Sessions -> Nat] /\ told \subseteq Results

Init == produced = [n \in Sessions |-> 0] /\ told = {}

Produce(n) == produced' = [produced EXCEPT ![n] = @ + 1] /\ UNCHANGED told

Tell ==
    \E result \in told' :
        /\ result.number <= produced[result.session]
        /\ \A other \in told :
            /\ other.index # result.index
            /\ other.session = result.session =>
                  other.number < result.number /\ other.index < result.index
        /\ told' = told \cup {result}
        /\ UNCHANGED produced

Next == (\E n \in Sessions : Produce(n)) \/ Tell

Spec == Init /\ [][Next]_vars
=============================================================================
