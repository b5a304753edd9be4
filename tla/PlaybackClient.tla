---------------------------- MODULE PlaybackClient ----------------------------
(***************************************************************************)
(* A client that interrupts what it hears. Its interrupt reaches the gateway   *)
(* while a command is being played and waits in the connection until the loop  *)
(* reads it; commands that the client sent before it may be served first. The  *)
(* client is external. All else is TtsPlayback, whose Interrupt also stands     *)
(* for the interrupts that come at other times.                                *)
(***************************************************************************)
EXTENDS TtsPlayback

VARIABLE waiting  \* the track that the waiting interrupt is meant for, 0 when none waits

clientVars == <<vars, waiting>>

\* The client heard part of the current track, and the loop has chunks of it still to take.
InterruptArrives ==
    /\ waiting = 0
    /\ loop.pc = "recv" /\ track.peer = "open"
    /\ played[loop.n] # <<>> /\ stream[loop.n].buf # <<>>
    /\ waiting' = current
    /\ UNCHANGED vars

InterruptServed ==
    /\ waiting # 0 /\ waiting' = 0
    /\ Interrupt

ClientInit == Init /\ waiting = 0

ClientNext ==
    \/ InterruptArrives \/ InterruptServed
    \/ Next /\ UNCHANGED waiting

ClientSpec == ClientInit /\ [][ClientNext]_clientVars

-----------------------------------------------------------------------------
(* Properties *)

\* ClearTrack clears the current track when an interrupt cuts it off (session.go:274), and
\* the router's test has the interruption name that track (command_router_test.go:44-63):
\* the interrupt of a track that did not fail finds it still current.
InterruptNamesTrack ==
    [][InterruptServed /\ verdict[waiting] # "error" => current = waiting]_clientVars
=============================================================================
