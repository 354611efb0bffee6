------------------------------ MODULE Control -------------------------------
(***************************************************************************)
(* The control board's supervision of the turbine: control.cpp with the    *)
(* part of uart_power.cpp, power_board.cpp and mqtt.cpp it depends on, in  *)
(* the order of the main loop.  A pass is                                  *)
(*   buttons -> uart (status, control_new_state, its script)               *)
(*           -> control_loop -> CLI -> MQTT                                *)
(* where "MQTT" are the callbacks of MQTT_loop and what comes after it.    *)
(* Time passes where the loop can be held up: in the buttons' scripts, in  *)
(* the script of a new status, and in CLI_loop and MQTT_loop before the    *)
(* callbacks.  Whatever calls the HAL (buttons, scripts, CLI, MQTT) is a   *)
(* user here.                                                              *)
(*                                                                         *)
(* Ages are kept as in PowerBoard.tla: now - prev_millis, capped at the    *)
(* value the code compares it with; the status has an age only while it is *)
(* valid.  Definitions named _fault... are no part of the model, see       *)
(* there.                                                                  *)
(***************************************************************************)
EXTENDS Integers, Sequences

CONSTANTS
    PassTimes,      \* how long a part of loop() can last
    StatusTimeout,  \* a status older than this is not valid (2 s)
    MqttTimeout,    \* strategy control_MQTT without a command (30 s)
    EstopDelay,     \* time for the contactor to close (500 ms)
    Debounce,       \* settings.contactor_debounce_min
    UserModes       \* the modes users ask the power board for

ASSUME ControlAssumption ==
    /\ PassTimes \subseteq Nat
    /\ StatusTimeout \in Nat \ {0} /\ MqttTimeout \in Nat
    /\ EstopDelay \in Nat \ {0} /\ Debounce \in Nat
    /\ UserModes \subseteq {"emergency", "stopping", "const_duty", "start"}

VARIABLES
    pc,       \* part of loop() that runs: buttons, uart, lisp, control, CLI, MQTT
    ctl,      \* statics of control.cpp, outputs, messages just sent
    status,   \* power_board_status
    rx,       \* RX_datapoints: the value of 'm'
    watch     \* history, see Watch

vars == <<pc, ctl, status, rx, watch>>

Strategies == {"emergency", "manual", "MQTT", "lisp"}
BoardModes == {"emergency", "stopping", "const_duty"}
Commands == BoardModes \cup {"start"}
ModeCodes == BoardModes \cup {"garbled"}  \* of a damaged report

Ctl ==
    [strategy : Strategies, contactor_state : BOOLEAN, prev_estop : BOOLEAN,
     PIN_EMERGENCY : BOOLEAN,
     contactor_age : 0 .. Debounce,    \* of contactor_prev_millis
     estop_age : 0 .. EstopDelay,      \* of estop_millis
     MQTT_age : 0 .. MqttTimeout,      \* of MQTT_last_command_ms
     sent : Seq(Commands)]             \* modes sent to the power board in this step

Status == [valid : BOOLEAN, mode : ModeCodes, age : Nat]

\* open: how long every control_loop has found the contactor open that should
\* be closed; mute: how long, with a valid status, control_MQTT has lasted
\* without a command.  NotSince stands for "not at all".  unchecked: since the
\* loop looked after the status; reported: a report has been read since boot.
NotSince == -1
Watch ==
    [open : {NotSince} \cup (0 .. EstopDelay),
     mute : {NotSince} \cup Nat,
     unchecked : Nat,
     reported : BOOLEAN]

Earlier(a, b) == IF a <= b THEN a ELSE b
Age(age, dt, cap) == Earlier(age + dt, cap)
AgeSince(age, dt, cap) == IF age = NotSince THEN NotSince ELSE Age(age, dt, cap)
AgeWhile(valid, age, dt) == IF valid /\ age # NotSince THEN age + dt ELSE age

-----------------------------------------------------------------------------
(* control.cpp and power_board.cpp *)

Quiet(c) == [c EXCEPT !.sent = <<>>]

power_board_set_mode(c, m) == [c EXCEPT !.sent = Append(@, m)]

SetStrategy_faultPinLater(c, s) ==
    IF s = "emergency"
    THEN [power_board_set_mode(c, s) EXCEPT
            !.contactor_state = FALSE, !.strategy = s]
    ELSE [c EXCEPT !.strategy = s]

\* Also sends duty 0 and software enable off, and switches the pump off.
SetStrategy(c, s) ==
    IF s = "emergency"
    THEN [power_board_set_mode(c, s) EXCEPT
            !.contactor_state = FALSE, !.PIN_EMERGENCY = FALSE, !.strategy = s]
    ELSE [c EXCEPT !.strategy = s]

LostStatus_faultBypass(c, valid) ==
    IF ~valid THEN [c EXCEPT !.strategy = "emergency"] ELSE c

\* control_new_state up to and without lisp's (ctrl).
LostStatus(c, valid) ==
    IF ~valid /\ c.strategy # "emergency" THEN SetStrategy(c, "emergency") ELSE c

MqttExpired_faultStrict(c) == c.strategy = "MQTT" /\ c.MQTT_age > MqttTimeout
MqttExpired(c) == c.strategy = "MQTT" /\ c.MQTT_age >= MqttTimeout

NewState_faultSentOnce(c, st) ==
    LET known == LostStatus(c, st.valid)
    IN  IF MqttExpired(known) THEN SetStrategy(known, "emergency") ELSE known

NewState(c, st) ==
    LET known == LostStatus(c, st.valid)
    IN  CASE known.strategy = "emergency" ->
               IF st.mode # "emergency"
               THEN power_board_set_mode(known, "emergency") ELSE known
          [] MqttExpired(known) -> SetStrategy(known, "emergency")
          [] OTHER -> known

ContactorHeld_faultForever(c) == c.contactor_state
ContactorHeld(c) == c.contactor_state /\ c.contactor_age < Debounce

\* The contactor is open where it should be closed.
Estop(c, mode, sense) ==
    /\ c.strategy # "emergency"
    /\ mode \notin {"emergency", "stopping"}
    /\ c.contactor_state
    /\ ~sense

EstopAge_faultRestarts(c, estop) == IF estop THEN 0 ELSE c.estop_age
EstopAge(c, estop) == IF estop /\ ~c.prev_estop THEN 0 ELSE c.estop_age

\* control_loop with the contactor's auxiliary contact reading `sense'.
Controlled(c, mode, sense) ==
    LET held    == ContactorHeld(c)
        driven  == [c EXCEPT !.contactor_state = held,
                             !.PIN_EMERGENCY = held /\ c.strategy # "emergency"]
        estop   == Estop(driven, mode, sense)
        tripped == IF c.prev_estop /\ c.estop_age >= EstopDelay
                   THEN SetStrategy(driven, "emergency") ELSE driven
    IN  [tripped EXCEPT !.prev_estop = estop, !.estop_age = EstopAge(c, estop)]

-----------------------------------------------------------------------------
(* The main loop *)

\* The history variable after a step that leads to c.
Mute(c, since) ==
    IF c.strategy = "MQTT" /\ c.MQTT_age >= MqttTimeout
    THEN IF since = NotSince THEN 0 ELSE since
    ELSE NotSince

\* After setup(): control_init has switched to control_emergency.
BootCtl ==
    [strategy |-> "emergency", contactor_state |-> FALSE, prev_estop |-> FALSE,
     PIN_EMERGENCY |-> FALSE, contactor_age |-> 0, estop_age |-> 0,
     MQTT_age |-> 0, sent |-> <<"emergency">>]
BootStatus == [valid |-> FALSE, mode |-> "emergency", age |-> 0]
BootWatch ==
    [open |-> NotSince, mute |-> NotSince, unchecked |-> 0, reported |-> FALSE]

Init ==
    /\ pc = "buttons"
    /\ ctl = BootCtl
    /\ status = BootStatus
    /\ rx = "emergency"
    /\ watch = BootWatch

UserRuns == pc \in {"buttons", "lisp", "CLI", "MQTT"}

ChangeCtl(c) ==
    /\ ctl' = c
    /\ watch' = [watch EXCEPT !.mute = Mute(c, @)]

control_set_strategy(s) ==
    /\ UserRuns
    /\ ChangeCtl(SetStrategy(Quiet(ctl), s))
    /\ UNCHANGED <<pc, status, rx>>

pwr_set_mode(m) ==
    /\ UserRuns
    /\ ChangeCtl(power_board_set_mode(Quiet(ctl), m))
    /\ UNCHANGED <<pc, status, rx>>

control_contactor_set ==
    /\ UserRuns
    /\ ChangeCtl([Quiet(ctl) EXCEPT !.contactor_age = 0, !.contactor_state = TRUE])
    /\ UNCHANGED <<pc, status, rx>>

\* MQTTcallback: any message of power_board/ or control/strategy counts as a
\* command, whether or not it has an effect.
MQTT_command(c) ==
    /\ pc = "MQTT"
    /\ ChangeCtl([c EXCEPT !.MQTT_age = 0])
    /\ UNCHANGED <<pc, status, rx>>

\* A script or a call that takes dt has left ctl at c.
TimePasses(c, dt) ==
    /\ ctl' = [c EXCEPT !.contactor_age = Age(@, dt, Debounce),
                        !.estop_age = Age(@, dt, EstopDelay),
                        !.MQTT_age = Age(@, dt, MqttTimeout)]
    /\ status' = [status EXCEPT !.age = AgeWhile(status.valid, @, dt)]
    /\ watch' = [watch EXCEPT
                   !.open = AgeSince(@, dt, EstopDelay),
                   !.mute = Mute(ctl', AgeWhile(status.valid, @, dt)),
                   !.unchecked = @ + dt]
    /\ UNCHANGED rx

ButtonsDone(dt) ==
    /\ pc = "buttons"
    /\ pc' = "uart"
    /\ TimePasses(Quiet(ctl), dt)

\* A new status st: control_new_state, which runs (ctrl) last.
TakeStatus(st, report) ==
    /\ status' = st
    /\ ctl' = NewState(Quiet(ctl), st)
    /\ watch' = [watch EXCEPT !.mute = Mute(ctl', @), !.unchecked = 0,
                              !.reported = @ \/ report]
    /\ pc' = IF ctl'.strategy = "lisp" THEN "lisp" ELSE "control"

\* A report line is complete; what it says of 'm' may have suffered on the way.
report_line(m) ==
    /\ pc = "uart"
    /\ rx' = m
    /\ TakeStatus([valid |-> TRUE, mode |-> m, age |-> 0], TRUE)

\* The end of a text message completes a status as well.
text_line ==
    /\ pc = "uart"
    /\ TakeStatus([valid |-> TRUE, mode |-> rx, age |-> 0], FALSE)
    /\ UNCHANGED rx

StatusExpired_faultStrict(st) == st.valid /\ st.age > StatusTimeout
StatusExpired(st) == st.valid /\ st.age >= StatusTimeout

status_timeout ==
    /\ pc = "uart"
    /\ StatusExpired(status)
    /\ TakeStatus([status EXCEPT !.valid = FALSE], FALSE)
    /\ UNCHANGED rx

\* No line is complete, but the 'm' of the next report may have been read.
no_line(m) ==
    /\ pc = "uart"
    /\ ~StatusExpired(status)
    /\ rx' = m
    /\ ctl' = Quiet(ctl)
    /\ watch' = [watch EXCEPT !.unchecked = 0]
    /\ pc' = "control"
    /\ UNCHANGED status

\* (ctrl) has returned; an error in it ends the strategy.
lisp_done(success, dt) ==
    /\ pc = "lisp"
    /\ TimePasses(IF success THEN Quiet(ctl)
                  ELSE SetStrategy(Quiet(ctl), "emergency"), dt)
    /\ pc' = "control"

control_loop(sense) ==
    LET c == Controlled(Quiet(ctl), status.mode, sense)
    IN  /\ pc = "control"
        /\ ctl' = c
        /\ watch' =
             [watch EXCEPT
                !.open = IF ~Estop(c, status.mode, sense) THEN NotSince
                         ELSE IF @ = NotSince THEN 0 ELSE @,
                !.mute = Mute(c, @)]
        /\ pc' = "CLI"
        /\ UNCHANGED <<status, rx>>

\* CLI_loop is done and MQTT_loop has come to its callbacks.
MQTT_begin(dt) ==
    /\ pc = "CLI"
    /\ pc' = "MQTT"
    /\ TimePasses(Quiet(ctl), dt)

PassDone ==
    /\ pc = "MQTT"
    /\ pc' = "buttons"
    /\ ctl' = Quiet(ctl)
    /\ UNCHANGED <<status, rx, watch>>

\* The watchdog, a brown-out or an update.
Reboot ==
    /\ pc' = "buttons"
    /\ ctl' = BootCtl
    /\ status' = BootStatus
    /\ rx' = "emergency"
    /\ watch' = BootWatch

UserStep ==
    \/ \E s \in Strategies : control_set_strategy(s)
    \/ \E m \in UserModes : pwr_set_mode(m)
    \/ control_contactor_set
    \/ MQTT_command(Quiet(ctl))
    \/ \E s \in Strategies : MQTT_command(SetStrategy(Quiet(ctl), s))
    \/ \E m \in UserModes : MQTT_command(power_board_set_mode(Quiet(ctl), m))

OwnStep ==
    \/ status_timeout \/ PassDone
    \/ \E sense \in BOOLEAN : control_loop(sense)
    \/ \E dt \in PassTimes :
         \/ ButtonsDone(dt) \/ MQTT_begin(dt)
         \/ \E success \in BOOLEAN : lisp_done(success, dt)

Next ==
    \/ UserStep
    \/ OwnStep
    \/ \E m \in ModeCodes : report_line(m) \/ no_line(m)
    \/ text_line
    \/ Reboot

Spec == Init /\ [][Next]_vars
-----------------------------------------------------------------------------
(* Properties *)

TypeOK ==
    /\ pc \in {"buttons", "uart", "lisp", "control", "CLI", "MQTT"}
    /\ ctl \in Ctl
    /\ status \in Status
    /\ rx \in ModeCodes
    /\ watch \in Watch

\* In control_emergency the contactor is never driven, not even between a
\* switch to it by a user and the next control_loop, and it is driven only for
\* a request that still stands (control_set_strategy, control_loop).
EmergencyDisconnects ==
    /\ ctl.strategy = "emergency" => ~ctl.PIN_EMERGENCY
    /\ ctl.PIN_EMERGENCY => ctl.contactor_state

\* After control_loop the contactor is driven only if somebody asked for it less
\* than contactor_debounce_min ago (control_contactor_set).
ContactorExpires ==
    pc = "CLI" /\ ctl.PIN_EMERGENCY => ctl.contactor_age < Debounce

\* A status that is called valid is older than two seconds by no more than the
\* time since the loop looked after it: control_new_state never works with an
\* older one, and whoever runs later in the pass, or in the next pass before the
\* next look (the button scripts), adds only what held the loop up since (loop).
StatusFresh == status.valid => status.age < StatusTimeout + watch.unchecked

\* When the status is lost the turbine is stopped, whatever strategy and
\* contactor were doing, and the power board is told so unless it was stopped
\* by the last that is known of it (control_new_state).
LossStops ==
    [][status.valid /\ ~status'.valid =>
         ctl'.strategy = "emergency" /\ ~ctl'.PIN_EMERGENCY
         /\ (ctl.strategy # "emergency" \/ status.mode # "emergency" =>
               "emergency" \in {ctl'.sent[i] : i \in 1 .. Len(ctl'.sent)})]_vars

\* A contactor that every pass finds open where it should be closed is not
\* tolerated for EstopDelay: the pass that sees it that long ends the strategy,
\* also when strategies and requests came and went before (control_loop).
OpenContactorTrips == pc = "CLI" => watch.open < EstopDelay

\* control_MQTT without commands is noticed although the check runs only when
\* a status comes: a silence is never older than the status, to which StatusFresh
\* sets a bound (control_new_state).
MqttMuteStops == status.valid => watch.mute <= status.age

\* wt_hal.h: valid is false before the first status report is received.
ValidMeansReported == status.valid => watch.reported
=============================================================================
