--------------------------- MODULE ControlSystem ----------------------------
(***************************************************************************)
(* The two boards together: Control on one side, the modes of PowerModes   *)
(* on the other, and between them a serial line that loses and damages     *)
(* what it carries.  Mode commands and reports are messages here;          *)
(* UartLink.tla looks at their bytes.                                      *)
(***************************************************************************)
EXTENDS Control

CONSTANTS
    MaxCommands,  \* bound: mode commands on the line; a full line blocks its sender
    MaxReports    \* bound: reports on the line

ASSUME SystemAssumption ==
    /\ MaxCommands \in Nat \ {0, 1, 2}
    /\ MaxReports \in Nat \ {0}

VARIABLES
    to_board,    \* commands on their way to the power board
    from_board,  \* modes in the reports on their way back
    mode,        \* of the power board
    latched

Board == INSTANCE PowerModes

systemVars == <<vars, to_board, from_board, mode, latched>>

SystemInit ==
    /\ Init
    /\ Board!Init
    /\ to_board = ctl.sent
    /\ from_board = <<>>

-----------------------------------------------------------------------------
(* The control board: its steps put what they send on the line *)

Sends ==
    /\ to_board' = to_board \o ctl'.sent
    /\ Len(to_board') <= MaxCommands
    /\ UNCHANGED <<mode, latched>>

\* Users are slow: they leave room for the two commands of one pass.
UserActs ==
    /\ UserStep /\ Sends
    /\ Len(to_board') <= MaxCommands - 2
    /\ UNCHANGED from_board

\* Steps of the main loop; a part of a report may have come in already.
LoopActs ==
    /\ \/ OwnStep \/ no_line(rx)
       \/ from_board # <<>> /\ no_line(Head(from_board))
    /\ Sends
    /\ UNCHANGED from_board

ReadReport ==
    /\ from_board # <<>>
    /\ report_line(Head(from_board))
    /\ from_board' = Tail(from_board)
    /\ Sends

ReadDamaged ==
    /\ from_board # <<>>
    /\ \E m \in ModeCodes : report_line(m)
    /\ from_board' = Tail(from_board)
    /\ Sends

ReadText == text_line /\ Sends /\ UNCHANGED from_board

Restart == Reboot /\ Sends /\ UNCHANGED from_board

-----------------------------------------------------------------------------
(* The power board and the line *)

\* A report that is lost altogether is a report not made.
Report ==
    /\ Len(from_board) < MaxReports
    /\ from_board' = Append(from_board, mode)
    /\ UNCHANGED <<vars, to_board, mode, latched>>

Obey(m) ==
    /\ to_board # <<>> /\ Head(to_board) = m
    /\ Board!Command(m)
    /\ to_board' = Tail(to_board)
    /\ UNCHANGED <<vars, from_board>>

LoseCommand ==
    /\ to_board # <<>>
    /\ to_board' = Tail(to_board)
    /\ UNCHANGED <<vars, from_board, mode, latched>>

BoardActs ==
    /\ Board!OnItsOwn
    /\ UNCHANGED <<vars, to_board, from_board>>

SystemNext ==
    \/ UserActs \/ LoopActs \/ ReadReport \/ ReadDamaged \/ ReadText \/ Restart
    \/ Report \/ LoseCommand \/ BoardActs
    \/ \E m \in Commands : Obey(m)

\* Both main loops run, and the line does not spoil every report and every
\* command of a kind.
SystemFairness ==
    /\ WF_systemVars(LoopActs)
    /\ WF_systemVars(Report)
    /\ WF_systemVars(LoseCommand \/ \E m \in Commands : Obey(m))
    /\ SF_systemVars(ReadReport)
    /\ \A m \in Commands : SF_systemVars(Obey(m))

SystemSpec == SystemInit /\ [][SystemNext]_systemVars /\ SystemFairness
-----------------------------------------------------------------------------
(* Properties *)

\* control_emergency stops the power board over any such line, although a mode
\* command is sent once: the reports make control_new_state send it again, and
\* no start command of a user, no text message and no damaged report keeps the
\* board running (control_new_state, control_set_strategy).
EmergencyStopsBoard ==
    ctl.strategy = "emergency" ~>
        (mode = "emergency" \/ ctl.strategy # "emergency")
=============================================================================
