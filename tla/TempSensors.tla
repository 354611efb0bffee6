---------------------------- MODULE TempSensors ----------------------------
(***************************************************************************)
(* sensor_DS18B20.cpp: a round reads every enabled sensor once, then again *)
(* those that failed, up to SENSOR_DS18B20_RETRIES times, and publishes    *)
(* what it has.  The passes that only wait, for the sampling interval or   *)
(* for the conversion, change nothing and are stutters.                    *)
(*                                                                         *)
(* External: the bus.  A read gives a temperature or 0, which stands for a *)
(* sensor that does not answer, a temperature below 0.01 or 120 and more.  *)
(*                                                                         *)
(* Definitions named _fault... are no part of the model, see README.md.    *)
(***************************************************************************)
EXTENDS Integers, Sequences

CONSTANTS SENSOR_DS18B20_COUNT, SENSOR_DS18B20_RETRIES

ASSUME TempAssumption ==
    SENSOR_DS18B20_COUNT \in Nat /\ SENSOR_DS18B20_RETRIES \in Nat

VARIABLES
    temp_state,     \* idle, request, waiting_for_read, read, done
    enabled,        \* settings.DS18B20s[id].name is not empty
    sensor_id,
    readings_buff,
    readings,       \* sensor_DS18B20_readings
    error,
    retry,
    results         \* history: what the reads of each sensor in this round gave

tempVars == <<temp_state, enabled, sensor_id, readings_buff, readings, error,
              retry, results>>

Ids == 0 .. SENSOR_DS18B20_COUNT - 1
NoReadings == [id \in Ids |-> 0]

sensor_DS18B20_enabled(id) == id \in Ids /\ enabled[id]

\* The result of sensor_DS18B20_read.
sensor_DS18B20_read == {0, 1}

temp_idle ==
    /\ temp_state = "idle"
    /\ readings_buff' = NoReadings
    /\ temp_state' = "request"
    /\ retry' = 0
    /\ results' = [id \in Ids |-> <<>>]
    /\ UNCHANGED <<enabled, sensor_id, readings, error>>

temp_request ==
    /\ temp_state = "request"
    /\ temp_state' = "waiting_for_read"
    /\ error' = FALSE
    /\ UNCHANGED <<enabled, sensor_id, readings_buff, readings, retry, results>>

temp_waiting_for_read ==
    /\ temp_state = "waiting_for_read"
    /\ temp_state' = "read"
    /\ sensor_id' = 0
    /\ UNCHANGED <<enabled, readings_buff, readings, error, retry, results>>

Failed_faultLastOnly(reading) == reading = 0
Failed(reading) == error \/ reading = 0

\* One sensor a pass; one that has been read in this round is left alone.
temp_read(reading) ==
    /\ temp_state = "read"
    /\ sensor_id \in Ids
    /\ IF sensor_DS18B20_enabled(sensor_id) /\ readings_buff[sensor_id] = 0
         THEN /\ readings_buff' = [readings_buff EXCEPT ![sensor_id] = reading]
              /\ error' = Failed(reading)
              /\ results' = [results EXCEPT ![sensor_id] = Append(@, reading)]
         ELSE UNCHANGED <<readings_buff, error, results>>
    /\ sensor_id' = sensor_id + 1
    /\ UNCHANGED <<temp_state, enabled, readings, retry>>

temp_all_read ==
    /\ temp_state = "read"
    /\ sensor_id \notin Ids
    /\ IF error /\ retry < SENSOR_DS18B20_RETRIES
         THEN retry' = retry + 1 /\ temp_state' = "request"
         ELSE temp_state' = "done" /\ UNCHANGED retry
    /\ UNCHANGED <<enabled, sensor_id, readings_buff, readings, error, results>>

temp_done ==
    /\ temp_state = "done"
    /\ readings' = readings_buff
    /\ temp_state' = "idle"
    /\ UNCHANGED <<enabled, sensor_id, readings_buff, error, retry, results>>

TempInit ==
    /\ temp_state = "idle"
    /\ enabled \in [Ids -> BOOLEAN]
    /\ sensor_id = 0
    /\ readings_buff = NoReadings
    /\ readings = NoReadings
    /\ error = FALSE
    /\ retry = 0
    /\ results = [id \in Ids |-> <<>>]

TempNext ==
    \/ temp_idle \/ temp_request \/ temp_waiting_for_read
    \/ \E reading \in sensor_DS18B20_read : temp_read(reading)
    \/ temp_all_read \/ temp_done

TempSpec == TempInit /\ [][TempNext]_tempVars

-----------------------------------------------------------------------------
(* Properties *)

TempTypeOK ==
    /\ temp_state \in {"idle", "request", "waiting_for_read", "read", "done"}
    /\ enabled \in [Ids -> BOOLEAN]
    /\ sensor_id \in 0 .. SENSOR_DS18B20_COUNT
    /\ readings_buff \in [Ids -> sensor_DS18B20_read]
    /\ readings \in [Ids -> sensor_DS18B20_read]
    /\ error \in BOOLEAN
    /\ retry \in 0 .. SENSOR_DS18B20_RETRIES
    /\ results \in [Ids -> Seq(sensor_DS18B20_read)]

\* settings.h:47: a temperature is published as missing after exactly
\* SENSOR_DS18B20_RETRIES + 1 reads, whichever other sensors failed in between;
\* one that was read is not read again, and a disabled one never
\* (sensor_DS18B20.cpp:72-129).
MissingMeansRetried ==
    temp_state = "done" =>
        \A id \in Ids :
            LET n == Len(results[id])
            IN  /\ ~enabled[id] => n = 0 /\ readings_buff[id] = 0
                /\ enabled[id] =>
                       /\ n > 0
                       /\ readings_buff[id] = results[id][n]
                       /\ \A k \in 1 .. n - 1 : results[id][k] = 0
                       /\ results[id][n] = 0 => n = SENSOR_DS18B20_RETRIES + 1
=============================================================================
