----------------------------- MODULE PowerModes -----------------------------
(***************************************************************************)
(* What the power board promises about its modes to the control board:     *)
(* the vocabulary of the datapoints 'm' and 'S', without the reasons for   *)
(* which the board changes by itself.  PowerBoard.tla implements it.       *)
(***************************************************************************)

VARIABLES
    mode,    \* emergency, stopping or const_duty
    latched  \* an error has stopped the board until it is reset

vars == <<mode, latched>>

Modes == {"emergency", "stopping", "const_duty"}
Commands == Modes \cup {"start"}

Init ==
    /\ mode = "emergency"
    /\ latched \in BOOLEAN

\* The emergency mode is always obeyed, the others only where they lead
\* somewhere; const_duty may be refused (over-voltage).
Accept(m) ==
    /\ ~latched /\ UNCHANGED latched
    /\ \/ m = "emergency" /\ mode' = "emergency"
       \/ m = "start" /\ mode = "emergency" /\ mode' = "const_duty"
       \/ m = "stopping" /\ mode = "const_duty" /\ mode' = "stopping"
       \/ m = "const_duty" /\ mode = "stopping" /\ mode' = "const_duty"

Obeys(m) == m = "emergency" \/ (m = "start" /\ mode = "emergency")
                            \/ (m = "stopping" /\ mode = "const_duty")

Command(m) ==
    \/ Accept(m)
    \/ (latched \/ ~Obeys(m)) /\ UNCHANGED vars

\* Disabled or over-voltage: the turbine is braked, and loaded again after.
Brake == mode = "const_duty" /\ mode' = "stopping" /\ UNCHANGED latched
Load == mode = "stopping" /\ mode' = "const_duty" /\ UNCHANGED latched

\* An error, silence of the control board, the end of an over-voltage that
\* began in mode_emergency, or a reset, which alone clears `latched'.
Disconnect == mode' = "emergency" /\ latched' \in BOOLEAN

OnItsOwn == Brake \/ Load \/ Disconnect

Next == (\E m \in Commands : Command(m)) \/ OnItsOwn

Spec == Init /\ [][Next]_vars
=============================================================================
