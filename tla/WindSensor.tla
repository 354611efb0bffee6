----------------------------- MODULE WindSensor -----------------------------
(***************************************************************************)
(* sensor_wind.cpp: a Modbus request over a half-duplex line, whose driver *)
(* DE the program switches, and the answer, which counts until the next one*)
(* or until none comes.  Time is in characters of the line, one pass of the*)
(* main loop takes a time of WindPasses.                                   *)
(*                                                                         *)
(* External: the UART sends one buffered character per unit; bytes, an     *)
(* answer of now or of an earlier request, or noise, arrive at any moment. *)
(*                                                                         *)
(* Definitions named _fault... are no part of the model, see README.md.    *)
(***************************************************************************)
EXTENDS Integers

CONSTANTS
    WindPasses,                \* how long a pass of loop() may take
    SamplingInterval,
    SENSOR_WIND_DE_WAIT,
    SENSOR_WIND_READ_TIMEOUT,
    RequestLength              \* sizeof read_cmd

ASSUME WindAssumption ==
    /\ WindPasses \subseteq Nat \ {0}
    /\ \E d \in WindPasses : \A e \in WindPasses : e <= d
    /\ SamplingInterval \in Nat \ {0}
    /\ SENSOR_WIND_DE_WAIT \in Nat \ {0}
    /\ SENSOR_WIND_READ_TIMEOUT \in Nat
    /\ RequestLength \in Nat \ {0}

AnswerLength == 7

VARIABLES
    wind_state,   \* idle, wait_DE_h, request, wait_DE_l, read
    waited,       \* now - prev_millis
    DE,
    to_send,      \* characters of the request the line has not carried yet
    received,     \* bytes in the UART's receive buffer
    received_age, \* age of the oldest of them
    vwind_valid,  \* vwind is a number
    vwind_age     \* how long ago its first byte arrived

windVars == <<wind_state, waited, DE, to_send, received, received_age,
              vwind_valid, vwind_age>>

\* The last character may still be in the shift register.
SERIAL_TX_waiting == IF to_send > 1 THEN to_send - 1 ELSE 0

-----------------------------------------------------------------------------
\* What happens during a pass that takes d.
LongestPass == CHOOSE d \in WindPasses : \A e \in WindPasses : e <= d

\* From one answer to the next one, or to giving up on it: the interval, the
\* two waits for the driver, the request, the answer, and a pass lost on each.
Cycle == SamplingInterval + 2 * SENSOR_WIND_DE_WAIT + RequestLength
         + SENSOR_WIND_READ_TIMEOUT + 6 * LongestPass

\* Bound: no age beyond this one matters.
Old == 2 * Cycle + 1
Aged(age, d) == IF age + d > Old THEN Old ELSE age + d

Pass(d) ==
    /\ to_send' = IF to_send > d THEN to_send - d ELSE 0
    /\ received_age' = Aged(received_age, d)

KeepReading(d) == vwind_age' = Aged(vwind_age, d) /\ UNCHANGED vwind_valid
NoReading(d) == vwind_valid' = FALSE /\ UNCHANGED vwind_age

\* A timer restarts by setting prev_millis to the time of this pass.
Restarted == 0

-----------------------------------------------------------------------------
(* sensor_wind_loop *)

wind_idle(d) ==
    /\ wind_state = "idle"
    /\ received' = 0
    /\ IF Aged(waited, d) >= SamplingInterval
         THEN wind_state' = "wait_DE_h" /\ DE' = TRUE /\ waited' = Restarted
         ELSE waited' = Aged(waited, d) /\ UNCHANGED <<wind_state, DE>>
    /\ Pass(d) /\ KeepReading(d)

wind_wait_DE_h(d) ==
    /\ wind_state = "wait_DE_h"
    /\ IF Aged(waited, d) >= SENSOR_WIND_DE_WAIT
         THEN wind_state' = "request" /\ waited' = Restarted
         ELSE waited' = Aged(waited, d) /\ UNCHANGED wind_state
    /\ Pass(d) /\ KeepReading(d)
    /\ UNCHANGED <<DE, received>>

wind_request(d) ==
    /\ wind_state = "request"
    /\ wind_state' = "wait_DE_l"
    /\ to_send' = RequestLength
    /\ received_age' = Aged(received_age, d)
    /\ waited' = Aged(waited, d)
    /\ KeepReading(d)
    /\ UNCHANGED <<DE, received>>

SinceSent(d, waiting) == IF waiting > 0 THEN Restarted ELSE Aged(waited, d)

wind_wait_DE_l(d) ==
    LET since == SinceSent(d, SERIAL_TX_waiting')
    IN  /\ wind_state = "wait_DE_l"
        /\ Pass(d) /\ KeepReading(d)
        /\ IF since >= SENSOR_WIND_DE_WAIT
             THEN DE' = FALSE /\ waited' = Restarted /\ wind_state' = "read"
             ELSE waited' = since /\ UNCHANGED <<DE, wind_state>>
        /\ UNCHANGED received

\* Seven bytes are there.  More, a wrong start or a wrong checksum void them.
wind_answer(d, good) ==
    /\ wind_state = "read"
    /\ received >= AnswerLength
    /\ received' = received - AnswerLength
    /\ IF good /\ received = AnswerLength
         THEN vwind_valid' = TRUE /\ vwind_age' = Aged(received_age, d)
         ELSE NoReading(d)
    /\ wind_state' = "idle"
    /\ waited' = IF good \/ received > AnswerLength THEN Restarted ELSE Aged(waited, d)
    /\ Pass(d)
    /\ UNCHANGED DE

GivenUp_faultKeepsReading(d) == KeepReading(d)
GivenUp(d) == NoReading(d)

wind_wait_answer(d) ==
    /\ wind_state = "read"
    /\ received < AnswerLength
    /\ IF Aged(waited, d) >= SENSOR_WIND_READ_TIMEOUT
         THEN wind_state' = "idle" /\ GivenUp(d)
         ELSE UNCHANGED wind_state /\ KeepReading(d)
    /\ waited' = Aged(waited, d)
    /\ Pass(d)
    /\ UNCHANGED <<DE, received>>

-----------------------------------------------------------------------------
\* Bound: the buffer never holds more than a byte too many.
BytesArrive(n) ==
    /\ received + n <= AnswerLength + 1
    /\ received' = received + n
    /\ received_age' = IF received = 0 THEN 0 ELSE received_age
    /\ UNCHANGED <<wind_state, waited, DE, to_send, vwind_valid, vwind_age>>

WindInit ==
    /\ wind_state = "idle"
    /\ waited = 0
    /\ DE = FALSE
    /\ to_send = 0
    /\ received = 0 /\ received_age = 0
    /\ vwind_valid = FALSE /\ vwind_age = 0

WindNext ==
    \/ \E d \in WindPasses :
          \/ wind_idle(d) \/ wind_wait_DE_h(d) \/ wind_request(d)
          \/ wind_wait_DE_l(d) \/ wind_wait_answer(d)
          \/ \E good \in BOOLEAN : wind_answer(d, good)
    \/ \E n \in {1, AnswerLength} : BytesArrive(n)

WindSpec == WindInit /\ [][WindNext]_windVars

-----------------------------------------------------------------------------
(* Properties *)

WindTypeOK ==
    /\ wind_state \in {"idle", "wait_DE_h", "request", "wait_DE_l", "read"}
    /\ waited \in 0 .. Old
    /\ DE \in BOOLEAN
    /\ to_send \in 0 .. RequestLength
    /\ received \in 0 .. AnswerLength + 1
    /\ received_age \in 0 .. Old
    /\ vwind_valid \in BOOLEAN
    /\ vwind_age \in 0 .. Old

\* A sensor that stops answering is not reported with its last wind for ever:
\* the reading is at most two cycles old, one for an answer that came too late
\* and was taken for the next request's (sensor_wind.cpp:79-123).
WindIsFresh == vwind_valid => vwind_age <= 2 * Cycle

\* "This needs to be long enough to ensure the last byte is sent, as the timer
\* is started as soon as it enters the transmit buffer" (sensor_wind.h:5-11): the
\* driver is on as long as the request is on the line.
RequestNotCut == to_send > 0 => DE
=============================================================================
