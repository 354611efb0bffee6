---------------------------- MODULE MCComponents ----------------------------
(***************************************************************************)
(* The components that share nothing with one another, in one instance.    *)
(* part says which of them a behaviour is about; the others stay in an     *)
(* initial state of theirs, so the states add up and do not multiply.      *)
(***************************************************************************)
EXTENDS LogRing, PowerEeprom, TempSensors, WindSensor, RpmMeter,
        SettingsFile, CliEditor, Mqtt, HalSil, UartLink, Fan, Stats

VARIABLE part

allVars == <<logVars, eepromVars, tempVars, windVars, rpmVars, fileVars, edVars,
             mqttVars, halVars, linkVars, fanVars, statsVars>>

Parts == {"log", "eeprom", "temp", "wind", "rpm", "file", "editor", "mqtt",
          "hal", "link", "fan", "stats"}

\* The parts with more than one initial state start in one of them when
\* another part runs.
MCInit ==
    /\ part \in Parts
    /\ LogInit
    /\ part = "log" \/ (write_index = 0 /\ read_index = 0 /\ ~log_magic
                        /\ reset_flags = CHOOSE r \in PowerLosses : TRUE)
    /\ EepromInit
    /\ part = "eeprom" \/ (stored = Unloaded /\ magic = CHOOSE w \in [start : Word, end : Word] : TRUE)
    /\ TempInit
    /\ part = "temp" \/ enabled = [id \in Ids |-> TRUE]
    /\ WindInit /\ RpmInit /\ FileInit /\ EdInit
    /\ MqttInit
    /\ part = "mqtt" \/ (net_up /\ raw.value = 0 /\ status = 0 /\ prev = 0 /\ eth.ip
                         /\ broker = [raw |-> 0, status |-> 0] /\ report_raw)
    /\ HalInit /\ LinkInit /\ StatsInit
    /\ FanInit
    /\ part = "fan" \/ temp_full = 305

MCNext ==
    /\ UNCHANGED part
    /\ \/ part = "log" /\ LogNext
          /\ UNCHANGED <<eepromVars, tempVars, windVars, rpmVars, fileVars, edVars,
                         mqttVars, halVars, linkVars, fanVars, statsVars>>
       \/ part = "eeprom" /\ EepromNext
          /\ UNCHANGED <<logVars, tempVars, windVars, rpmVars, fileVars, edVars,
                         mqttVars, halVars, linkVars, fanVars, statsVars>>
       \/ part = "temp" /\ TempNext
          /\ UNCHANGED <<logVars, eepromVars, windVars, rpmVars, fileVars, edVars,
                         mqttVars, halVars, linkVars, fanVars, statsVars>>
       \/ part = "wind" /\ WindNext
          /\ UNCHANGED <<logVars, eepromVars, tempVars, rpmVars, fileVars, edVars,
                         mqttVars, halVars, linkVars, fanVars, statsVars>>
       \/ part = "rpm" /\ RpmNext
          /\ UNCHANGED <<logVars, eepromVars, tempVars, windVars, fileVars, edVars,
                         mqttVars, halVars, linkVars, fanVars, statsVars>>
       \/ part = "file" /\ FileNext
          /\ UNCHANGED <<logVars, eepromVars, tempVars, windVars, rpmVars, edVars,
                         mqttVars, halVars, linkVars, fanVars, statsVars>>
       \/ part = "editor" /\ EdNext
          /\ UNCHANGED <<logVars, eepromVars, tempVars, windVars, rpmVars, fileVars,
                         mqttVars, halVars, linkVars, fanVars, statsVars>>
       \/ part = "mqtt" /\ MqttNext
          /\ UNCHANGED <<logVars, eepromVars, tempVars, windVars, rpmVars, fileVars,
                         edVars, halVars, linkVars, fanVars, statsVars>>
       \/ part = "hal" /\ HalNext
          /\ UNCHANGED <<logVars, eepromVars, tempVars, windVars, rpmVars, fileVars,
                         edVars, mqttVars, linkVars, fanVars, statsVars>>
       \/ part = "link" /\ LinkNext
          /\ UNCHANGED <<logVars, eepromVars, tempVars, windVars, rpmVars, fileVars,
                         edVars, mqttVars, halVars, fanVars, statsVars>>
       \/ part = "fan" /\ FanNext
          /\ UNCHANGED <<logVars, eepromVars, tempVars, windVars, rpmVars, fileVars,
                         edVars, mqttVars, halVars, linkVars, statsVars>>
       \/ part = "stats" /\ StatsNext
          /\ UNCHANGED <<logVars, eepromVars, tempVars, windVars, rpmVars, fileVars,
                         edVars, mqttVars, halVars, linkVars, fanVars>>

MCSpec == MCInit /\ [][MCNext]_<<part, allVars>>
=============================================================================
