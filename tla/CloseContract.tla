--------------------------- MODULE CloseContract ---------------------------
(***************************************************************************)
(* What a session promises about its close, without saying how: it is live *)
(* until somebody asks for it to close, it is closed for good once it has  *)
(* been finalised, what it knows about the reason only ever grows, and the *)
(* close function bound to it runs at most once, and does run when a close *)
(* was asked for.                                                          *)
(***************************************************************************)
EXTENDS Naturals, SessionOps

VARIABLES
    phase,      \* "live", "closing" or "closed"
    info,       \* the close information on record
    bound,      \* a close function has been bound
    runs        \* how many times it has been called

vars == <<phase, info, bound, runs>>

TypeOK ==
    /\ phase \in {"live", "closing", "closed"}
    /\ info \in CloseInfo
    /\ bound \in BOOLEAN
    /\ runs \in {0, 1}

Init == phase = "live" /\ info = NoCloseInfo /\ bound = FALSE /\ runs = 0

\* The information grows and names a cause.
Amended == info' \in CloseInfo /\ Extends(info', info) /\ info'.cause # ""

Bind == ~bound /\ bound' = TRUE /\ UNCHANGED <<phase, info, runs>>

Ask == phase # "closed" /\ phase' = "closing" /\ Amended /\ UNCHANGED <<bound, runs>>

Finish == phase # "closed" /\ phase' = "closed" /\ Amended /\ UNCHANGED <<bound, runs>>

\* A request that comes after the end still fills blank fields.
AskLate == phase = "closed" /\ Amended /\ UNCHANGED <<phase, bound, runs>>

Run == phase # "live" /\ bound /\ runs = 0 /\ runs' = 1 /\ UNCHANGED <<phase, info, bound>>

Next == Bind \/ Ask \/ Finish \/ AskLate \/ Run

Spec == Init /\ [][Next]_vars /\ WF_vars(phase = "closing" /\ Run)
=============================================================================
