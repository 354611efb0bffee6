----------------------------- MODULE PowerBoard -----------------------------
(***************************************************************************)
(* The mode logic of the power board (vetrnik-power): one cooperative main *)
(* loop  ADC_loop -> uart_loop -> enable input and stopping mode,          *)
(* around the globals every part of it shares.  The C globals and the      *)
(* output registers are the fields of `board'; a C function that changes   *)
(* them is an operator from the old record to the new one, so a handler is *)
(* the composition of its calls in the order of the code.                  *)
(*                                                                         *)
(* Time is counted in units; every timer is kept as its age (now - prev),  *)
(* capped at the only value the code compares it with.  A pass of the main *)
(* loop lasts dt \in PassTimes; within a pass time stands still.           *)
(*                                                                         *)
(* An error matters here by its weight only (10 or more stops the board);  *)
(* how error records are kept is in Errm.tla.                              *)
(*                                                                         *)
(* A definition whose name ends in _fault... is not part of the model: it  *)
(* is a plausible mistake in the definition that follows it, kept to show  *)
(* that the properties notice it.                                          *)
(***************************************************************************)
EXTENDS Integers

CONSTANTS
    Top,             \* largest uint8_t (255)
    HbridgeDutyMax,  \* Hbridge_duty_max (247)
    MinDuty,         \* settings[kMinDuty]
    StoppingStep,    \* stopping_step (20)
    OcpStep,         \* increment of OCP_max_duty (5)
    StoppingPeriod,  \* stopping_period (150 ms), in time units
    StoppingTime,    \* stopping_time (20 s)
    RefreshInterval, \* refresh_interval of the datapoint 'd' (5.1 s)
    AdcPeriod,       \* period of ADC_loop (100 ms)
    PassTimes,       \* how long a pass of loop() can last (WDT: below 1 s)
    OVPStart,        \* settings[kOVPStart]: at or below it OVP_stop is released
    OVPStop,         \* settings[kOVPStop]: at or above it the turbine is stopped
    OVP_DISCONNECT,  \* at or above it the generator is disconnected
    Voltages,        \* the voltage readings
    CommandDuties    \* the duties the control board sends

Byte == 0 .. Top

ASSUME PowerBoardAssumption ==
    /\ Top \in Nat
    /\ HbridgeDutyMax \in Byte /\ MinDuty \in Byte
    /\ StoppingStep \in 1 .. Top /\ OcpStep \in 1 .. Top
    /\ StoppingPeriod \in Nat /\ StoppingTime \in Nat
    /\ RefreshInterval \in Nat /\ AdcPeriod \in Nat
    /\ PassTimes \subseteq Nat
    /\ OVPStart \in Nat /\ OVPStop \in Nat
    /\ OVP_DISCONNECT \in Nat \ {0}
    /\ OVPStart < OVPStop
    /\ Voltages \subseteq Nat /\ CommandDuties \subseteq Byte

VARIABLES
    pc,       \* what the processor runs: a part of loop() or an endless loop
    board,    \* globals, module statics and output registers, see Board
    enabled,  \* enabled_t: the enable pin as last read, the 'e' command
    timers,   \* ages of last_updated ('d'), stopping_prev_ms, prev_ms (ADC)
    marker    \* EEPROM_RESET_ADDRESS holds EEPROM_RESET_VALUE

vars == <<pc, board, enabled, timers, marker>>

Modes == {"emergency", "stopping", "const_duty"}
OcrReset == Top + 1  \* OCR1A and OCR1B as reset leaves them, both 0

Board ==
    [mode : Modes, emergency : BOOLEAN,
     OVP_stop : BOOLEAN, OVP_mode : Modes, voltage : Nat,
     duty : Byte, stopping_duty : Byte, requested_duty : Byte,
     OCP_max_duty : Byte,
     OCR : Byte \cup {OcrReset},  \* duty the compare registers stand for
     SD : BOOLEAN,                \* bridge drivers on
     contactor : BOOLEAN,         \* pin_EMERGENCY high: generator connected
     mode_age : 0 .. StoppingTime]

Earlier(a, b) == IF a <= b THEN a ELSE b
Age(age, dt, cap) == Earlier(age + dt, cap)

-----------------------------------------------------------------------------
(* Hbridge.cpp *)

\* The duty that reaches the timer when d is requested under the OCP limit.
PwmDuty(d, limit) ==
    LET clamped == Earlier(Earlier(d, limit), HbridgeDutyMax)
    IN  IF clamped < MinDuty THEN 0 ELSE clamped

HbridgeSetDuty(b, d) ==
    [b EXCEPT !.requested_duty = d, !.OCR = PwmDuty(d, b.OCP_max_duty)]

\* OCP_max_duty after a current reading: halved from OCP_H on, raised below
\* OCP_L with the uint8_t wraparound turned into saturation.
OcpLimit(limit, amps) ==
    CASE amps = "high"   -> limit \div 2
      [] amps = "low"    -> LET sum == (limit + OcpStep) % (Top + 1)
                            IN  IF sum < limit THEN Top ELSE sum
      [] amps = "normal" -> limit

HbridgeOCP_faultNotApplied(b, amps) ==
    [b EXCEPT !.OCP_max_duty = OcpLimit(b.OCP_max_duty, amps)]

HbridgeOCP(b, amps) ==
    LET limit == OcpLimit(b.OCP_max_duty, amps)
    IN  IF limit = b.OCP_max_duty THEN b
        ELSE HbridgeSetDuty([b EXCEPT !.OCP_max_duty = limit],
                            b.requested_duty)

-----------------------------------------------------------------------------
(* main.cpp and globals.cpp *)

\* The conditions under which set_mode returns true, apart from the latch.
Allowed_faultAnyToConst(b, m) ==
    CASE m = "emergency"  -> TRUE
      [] m = "stopping"   -> b.mode = "const_duty"
      [] m = "const_duty" -> ~b.OVP_stop
      [] m = "start"      -> b.mode = "emergency"

Allowed_faultIgnoresOvp(b, m) ==
    CASE m = "emergency"  -> TRUE
      [] m = "stopping"   -> b.mode = "const_duty"
      [] m = "const_duty" -> b.mode = "stopping"
      [] m = "start"      -> b.mode = "emergency"

Allowed(b, m) ==
    CASE m = "emergency"  -> TRUE
      [] m = "stopping"   -> b.mode = "const_duty"
      [] m = "const_duty" -> b.mode = "stopping" /\ ~b.OVP_stop
      [] m = "start"      -> b.mode = "emergency"

EnterEmergency(b) ==
    [b EXCEPT !.contactor = FALSE, !.SD = FALSE, !.mode = "emergency"]

EnterStopping_faultOldTimer(b) ==
    [b EXCEPT !.stopping_duty = b.duty, !.mode = "stopping"]

\* duty is kept, to be restored when the enable input goes back up.
EnterStopping(b) ==
    [b EXCEPT !.stopping_duty = b.duty, !.mode_age = 0, !.mode = "stopping"]

EnterConstDuty_faultContactorOpen(b) ==
    HbridgeSetDuty([b EXCEPT !.mode = "const_duty"], b.duty)

\* The stopping mode may have opened the contactor.
EnterConstDuty(b) ==
    HbridgeSetDuty([b EXCEPT !.contactor = TRUE, !.mode = "const_duty"], b.duty)

Start(b) ==
    HbridgeSetDuty([b EXCEPT !.duty = 0, !.SD = TRUE, !.contactor = TRUE,
                             !.mode = "const_duty"], 0)

Enter(b, m) ==
    CASE m = "emergency"  -> EnterEmergency(b)
      [] m = "stopping"   -> EnterStopping(b)
      [] m = "const_duty" -> EnterConstDuty(b)
      [] m = "start"      -> Start(b)

SetMode_faultUnlatched(b, m) == IF Allowed(b, m) THEN Enter(b, m) ELSE b

SetMode(b, m) == IF ~b.emergency /\ Allowed(b, m) THEN Enter(b, m) ELSE b

SetDuty_faultNotApplied(b, d) == [b EXCEPT !.duty = d]

SetDuty(b, d) ==
    LET stored == [b EXCEPT !.duty = d]
    IN  IF d # b.duty /\ b.mode = "const_duty"
        THEN HbridgeSetDuty(stored, d) ELSE stored

EmergencyStop(b) == [SetMode(b, "emergency") EXCEPT !.emergency = TRUE]

\* errm_add of an error of weight 10, through error_create_callback.
SevereError(b) == IF b.emergency THEN b ELSE EmergencyStop(b)

-----------------------------------------------------------------------------
(* adc.cpp *)

Release_faultNotWhenLatched(b) ==
    IF b.voltage <= OVPStart /\ b.OVP_stop /\ ~b.emergency
    THEN SetMode([b EXCEPT !.OVP_stop = FALSE], b.OVP_mode) ELSE b

Release(b) ==
    IF b.voltage <= OVPStart /\ b.OVP_stop
    THEN SetMode([b EXCEPT !.OVP_stop = FALSE], b.OVP_mode) ELSE b

Trip(b) ==
    IF b.voltage >= OVPStop /\ ~b.OVP_stop /\ ~b.emergency
    THEN SetMode([b EXCEPT !.OVP_stop = TRUE, !.OVP_mode = b.mode], "stopping")
    ELSE b

Disconnect(b) == IF b.voltage >= OVP_DISCONNECT THEN SevereError(b) ELSE b

OVP(b) == Disconnect(Trip(Release(b)))

\* A temperature out of range; the code looks every eighth time only.
Overheat(b, hot) == IF hot THEN SevereError(b) ELSE b

-----------------------------------------------------------------------------
(* The main loop *)

\* State after setup(); `fault' is an error of weight 10 raised on the way
\* (settings_reset, WDT_reset).
Globals ==
    [mode |-> "emergency", emergency |-> FALSE, OVP_stop |-> FALSE,
     OVP_mode |-> "emergency", voltage |-> 0, duty |-> 0, stopping_duty |-> 0,
     requested_duty |-> 0, OCP_max_duty |-> Top, OCR |-> OcrReset,
     SD |-> FALSE, contactor |-> FALSE, mode_age |-> 0]

Booted(fault) == IF fault THEN SevereError(Globals) ELSE Globals
DisabledAtBoot == [hardware |-> FALSE, software |-> FALSE]
\* setup() waits 110 ms: longer than the ADC period, shorter than the others.
FreshTimers == [duty |-> 0, ramp |-> 0, adc |-> AdcPeriod]

Init ==
    /\ pc = "adc"
    /\ \E fault \in BOOLEAN : board = Booted(fault)
    /\ enabled = DisabledAtBoot
    /\ timers = FreshTimers
    /\ marker = FALSE

ADC_sample(v, amps, hot) ==
    /\ pc = "adc"
    /\ timers.adc >= AdcPeriod
    /\ board' = Overheat(HbridgeOCP(OVP([board EXCEPT !.voltage = v]), amps), hot)
    /\ timers' = [timers EXCEPT !.adc = 0]
    /\ pc' = "uart"
    /\ UNCHANGED <<enabled, marker>>

ADC_skip ==
    /\ pc = "adc"
    /\ timers.adc < AdcPeriod
    /\ pc' = "uart"
    /\ UNCHANGED <<board, enabled, timers, marker>>

\* uart_loop handles any number of messages before its timeout check.
cmnd_duty(d) ==
    /\ pc = "uart"
    /\ board' = SetDuty(board, d)
    /\ timers' = [timers EXCEPT !.duty = 0]
    /\ UNCHANGED <<pc, enabled, marker>>

cmnd_mode(m) ==
    /\ pc = "uart"
    /\ board' = SetMode(board, m)
    /\ UNCHANGED <<pc, enabled, timers, marker>>

cmnd_enable(on) ==
    /\ pc = "uart"
    /\ enabled' = [enabled EXCEPT !.software = on]
    /\ UNCHANGED <<pc, board, timers, marker>>

\* COMMAND_RESET leaves its mark in the EEPROM and falls through to
\* COMMAND_WDT_TEST: stop, then spin until the watchdog bites.
cmnd_command(value) ==
    /\ pc = "uart"
    /\ marker' = (value = "RESET" \/ marker)
    /\ board' = EmergencyStop(board)
    /\ pc' = IF value = "RESET" THEN "reset_loop" ELSE "test_loop"
    /\ UNCHANGED <<enabled, timers>>

CommsTimeout_faultOnlyConst(b, age) ==
    IF b.mode = "const_duty" /\ age >= RefreshInterval THEN SevereError(b) ELSE b

CommsTimeout_faultStrict(b, age) ==
    IF b.mode # "emergency" /\ age > RefreshInterval THEN SevereError(b) ELSE b

CommsTimeout(b, age) ==
    IF b.mode # "emergency" /\ age >= RefreshInterval THEN SevereError(b) ELSE b

uart_loop_end ==
    /\ pc = "uart"
    /\ board' = CommsTimeout(board, timers.duty)
    /\ pc' = "tail"
    /\ UNCHANGED <<enabled, timers, marker>>

FollowEnable_faultNeverBrakes(b, on) ==
    IF on /\ b.mode = "stopping" THEN SetMode(b, "const_duty") ELSE b

FollowEnable(b, on) ==
    LET braked == IF ~on /\ b.mode = "const_duty" THEN SetMode(b, "stopping") ELSE b
    IN  IF on /\ braked.mode = "stopping" THEN SetMode(braked, "const_duty")
        ELSE braked

NextStoppingDuty_faultUnbounded(d) == d + StoppingStep
NextStoppingDuty_faultWraps(d) == (d + StoppingStep) % (Top + 1)
NextStoppingDuty_faultStuck(d) ==
    LET tmp == (d + StoppingStep) % (Top + 1) IN IF tmp > d THEN tmp ELSE d

\* stopping_duty + stopping_step in a uint8_t, saturated.
NextStoppingDuty(d) ==
    LET tmp == (d + StoppingStep) % (Top + 1) IN IF tmp > d THEN tmp ELSE Top

Ramp(b) ==
    LET d == NextStoppingDuty(b.stopping_duty)
    IN  HbridgeSetDuty([b EXCEPT !.stopping_duty = d], d)

\* `fast': RPM >= settings[kStoppingRPM].
StopByContactor(b, fast) ==
    IF b.mode_age >= StoppingTime /\ fast THEN [b EXCEPT !.contactor = FALSE]
    ELSE b

RampDue(b) == b.mode = "stopping" /\ timers.ramp >= StoppingPeriod

Stopping(b, fast) ==
    IF b.mode = "stopping"
    THEN StopByContactor(IF RampDue(b) THEN Ramp(b) ELSE b, fast)
    ELSE b

\* The rest of loop() after uart_loop; the pass it ends has lasted dt.
loop_tail(pin, fast, dt) ==
    LET now     == [enabled EXCEPT !.hardware = pin]
        decided == FollowEnable(board, now.hardware /\ now.software)
        stopped == Stopping(decided, fast)
    IN  /\ pc = "tail"
        /\ enabled' = now
        /\ board' = [stopped EXCEPT
                        !.mode_age = Age(stopped.mode_age, dt, StoppingTime)]
        /\ timers' =
             [duty |-> Age(timers.duty, dt, RefreshInterval),
              ramp |-> Age(IF RampDue(decided) THEN 0 ELSE timers.ramp,
                           dt, StoppingPeriod),
              adc  |-> Age(timers.adc, dt, AdcPeriod)]
        /\ pc' = "adc"
        /\ UNCHANGED marker

Boot(fault) ==
    /\ pc' = "adc"
    /\ board' = Booted(fault)
    /\ enabled' = DisabledAtBoot
    /\ timers' = FreshTimers

\* WDRF is set: a marked reset was commanded, any other one is an error.
WatchdogReset ==
    /\ pc \in {"reset_loop", "test_loop"}
    /\ marker' = FALSE
    /\ \E settings_lost \in BOOLEAN : Boot(~marker \/ settings_lost)

PowerCycle ==
    /\ \E settings_lost \in BOOLEAN : Boot(settings_lost)
    /\ UNCHANGED marker

Next ==
    \/ \E v \in Voltages, amps \in {"low", "normal", "high"}, hot \in BOOLEAN :
          ADC_sample(v, amps, hot)
    \/ ADC_skip
    \/ \E d \in CommandDuties : cmnd_duty(d)
    \/ \E m \in Modes \cup {"start"} : cmnd_mode(m)
    \/ \E on \in BOOLEAN : cmnd_enable(on)
    \/ \E value \in {"RESET", "WDT_TEST"} : cmnd_command(value)
    \/ uart_loop_end
    \/ \E pin, fast \in BOOLEAN, dt \in PassTimes : loop_tail(pin, fast, dt)
    \/ WatchdogReset
    \/ PowerCycle

Spec == Init /\ [][Next]_vars

\* The processor keeps running the main loop and a hung one is reset.  Nothing
\* is assumed of the control board, the supply or the sensors.
Fairness ==
    /\ WF_vars(ADC_skip \/ \E v \in Voltages, amps \in {"low", "normal", "high"},
                              hot \in BOOLEAN : ADC_sample(v, amps, hot))
    /\ WF_vars(uart_loop_end)
    /\ WF_vars(\E pin, fast \in BOOLEAN, dt \in PassTimes :
                  loop_tail(pin, fast, dt))
    /\ WF_vars(WatchdogReset)

FairSpec == Spec /\ Fairness
-----------------------------------------------------------------------------
(* Properties *)

\* The globals, registers and timers keep their types; in particular no duty
\* leaves the uint8_t range whatever ramp, OCP and commands do to it.
TypeOK ==
    /\ pc \in {"adc", "uart", "tail", "reset_loop", "test_loop"}
    /\ board \in Board
    /\ enabled \in [hardware : BOOLEAN, software : BOOLEAN]
    /\ timers \in [duty : 0 .. RefreshInterval, ramp : 0 .. StoppingPeriod,
                   adc : 0 .. AdcPeriod]
    /\ marker \in BOOLEAN

\* Once an error of weight 10 has latched `emergency', no command, OVP release
\* or enable edge finds a way back: mode_emergency, drivers off, generator
\* disconnected (set_mode, emergency_stop).
EmergencySafe ==
    board.emergency => board.mode = "emergency" /\ ~board.SD /\ ~board.contactor

\* The outputs agree with the mode whatever path led to it: the drivers are on
\* exactly outside mode_emergency, a loaded turbine is connected, and the
\* contactor is never closed in mode_emergency (set_mode).
OutputsMatchMode ==
    /\ board.SD <=> board.mode # "emergency"
    /\ board.mode = "const_duty" => board.contactor
    /\ board.contactor => board.mode # "emergency"

\* What the bridge was asked for is what the mode stands for: the commanded
\* duty, or the ramp of the stopping mode, also after set_duty in the wrong
\* mode, after OVP or the enable input restored const_duty, after OCP.
DutyMatchesMode ==
    /\ board.mode = "const_duty" => board.requested_duty = board.duty
    /\ board.mode = "stopping" => board.requested_duty = board.stopping_duty

\* While the drivers are on, the compare registers have been initialised and
\* hold the request under the present OCP limit: an OCP step or a request is
\* never left unapplied (Hbridge_set_duty, Hbridge_OCP).
PwmApplied ==
    board.SD => board.OCR = PwmDuty(board.requested_duty, board.OCP_max_duty)

\* At the start of a pass the enable logic has settled: a turbine that is not
\* enabled is not loaded at constant duty, one that is enabled brakes only for
\* over-voltage (loop, OVP).
EnableSettled ==
    pc = "adc" =>
      /\ board.mode = "const_duty" => enabled.hardware /\ enabled.software
      /\ board.mode = "stopping" /\ enabled.hardware /\ enabled.software
            => board.OVP_stop

\* OVP_stop is a hysteresis of the voltage last read, and no over-voltage is
\* left without an answer (OVP).
OvpTracksVoltage ==
    /\ board.OVP_stop => board.voltage > OVPStart
    /\ board.voltage >= OVPStop => board.OVP_stop \/ board.emergency
    /\ board.voltage >= OVP_DISCONNECT => board.emergency

\* The contactor opens under a braking turbine only after the whole
\* stopping_time of this stop, and by then the bridge brakes at full duty:
\* restarts of the stop, OVP and slow passes included (loop).
ContactorIsLastResort ==
    board.mode = "stopping" /\ ~board.contactor =>
        board.mode_age = StoppingTime /\ board.requested_duty = Top

\* After uart_loop a board that still drives the turbine has a duty younger
\* than refresh_interval (uart_loop's timeout check).
CommsFresh ==
    pc = "tail" /\ board.mode # "emergency" => timers.duty < RefreshInterval

\* The board leaves mode_emergency only on the start command and from duty 0:
\* no OVP release, enable edge or stale duty reconnects the generator by itself
\* (set_mode).
RestartFromZero ==
    [][board.mode = "emergency" /\ board'.mode # "emergency" =>
         /\ pc = "uart" /\ ~board.emergency
         /\ board'.duty = 0 /\ board'.OCR = 0]_vars

\* While a stop lasts, the requested duty never decreases: no uint8_t
\* wraparound, no duty command or restored limit releases the brake (loop).
BrakeNeverReleased ==
    [][board.mode = "stopping" /\ board'.mode = "stopping" =>
         board'.requested_duty >= board.requested_duty]_vars

\* While OVP_stop is in force nothing ends the stop it asked for: neither the
\* enable logic nor an m2 command (set_mode's comment on OVP_stop).
OvpHoldsStop ==
    [][board.OVP_stop /\ board'.OVP_stop /\ board.mode = "stopping" =>
         board'.mode # "const_duty"]_vars

\* To the control board this is the mode machine of PowerModes: the same modes
\* and latch, and every mode command has the effect it has there (set_mode).
Machine == INSTANCE PowerModes WITH mode <- board.mode, latched <- board.emergency
ModesImplemented ==
    /\ Machine!Spec
    /\ [][\A m \in Machine!Commands : cmnd_mode(m) => Machine!Command(m)]_vars

\* Under fairness a stop reaches the full braking duty unless it ends.
StopReachesFullBrake ==
    board.mode = "stopping" ~>
        (board.mode # "stopping" \/ board.requested_duty = Top)

\* A board that hears no duty any more disconnects the generator (refresh
\* interval of 'd', error callback).
SilenceDisconnects ==
    board.mode # "emergency" ~>
        (board.mode = "emergency" \/ (pc = "uart" /\ timers.duty = 0))

\* main.cpp: a watchdog reset that no reset command asked for is unexpected and
\* is reported by an error of weight 10, which stops the board.
UnexpectedResetReported ==
    [][WatchdogReset /\ pc = "test_loop" => board'.emergency]_vars
=============================================================================
