-------------------------- MODULE PowerBoardProofs --------------------------
(***************************************************************************)
(* Proofs about PowerBoard for all values of its constants.  Each C        *)
(* function is an operator on the record of the board, so the inductive    *)
(* invariant is stated of such a record (Sound) and shown to be preserved  *)
(* function by function; an action then composes those lemmas in the order *)
(* of its calls.                                                           *)
(***************************************************************************)
EXTENDS PowerBoard, TLAPS

USE PowerBoardAssumption DEF Byte

Latched(b) == b.emergency => b.mode = "emergency" /\ ~b.SD /\ ~b.contactor

Outputs(b) ==
    /\ b.SD <=> b.mode # "emergency"
    /\ b.mode = "const_duty" => b.contactor
    /\ b.contactor => b.mode # "emergency"

Requested(b) ==
    /\ b.mode = "const_duty" => b.requested_duty = b.duty
    /\ b.mode = "stopping" => b.requested_duty = b.stopping_duty

Applied(b) == b.SD => b.OCR = PwmDuty(b.requested_duty, b.OCP_max_duty)

\* The conditions on a board that every C function below preserves.
Sound(b) == b \in Board /\ Latched(b) /\ Outputs(b) /\ Requested(b) /\ Applied(b)

-----------------------------------------------------------------------------
(* Hbridge.cpp *)

\* The clamped duty is a uint8_t (Hbridge_set_duty).
LEMMA PwmDutyType ==
    ASSUME NEW d \in Byte, NEW limit \in Byte
    PROVE  PwmDuty(d, limit) \in Byte
BY DEF PwmDuty, Earlier

\* Halving and the saturated increment keep the limit a uint8_t (Hbridge_OCP).
LEMMA OcpLimitType ==
    ASSUME NEW limit \in Byte, NEW amps \in {"low", "normal", "high"}
    PROVE  OcpLimit(limit, amps) \in Byte
BY DEF OcpLimit

\* The ramp's increment saturates: it never wraps below the old duty (loop).
LEMMA NextStoppingDutyType ==
    ASSUME NEW d \in Byte
    PROVE  NextStoppingDuty(d) \in Byte /\ NextStoppingDuty(d) >= d
BY DEF NextStoppingDuty

\* Requesting a duty keeps the record's type (Hbridge_set_duty).
LEMMA HbridgeSetDutyType ==
    ASSUME NEW b \in Board, NEW d \in Byte
    PROVE  HbridgeSetDuty(b, d) \in Board
<1>1. PwmDuty(d, b.OCP_max_duty) \in Byte
  BY PwmDutyType DEF Board
<1> QED
  BY <1>1 DEF HbridgeSetDuty, Board

\* An OCP step keeps the board sound (Hbridge_OCP).
LEMMA HbridgeOCPSound ==
    ASSUME NEW b, Sound(b), NEW amps \in {"low", "normal", "high"}
    PROVE  Sound(HbridgeOCP(b, amps))
<1> DEFINE limit == OcpLimit(b.OCP_max_duty, amps)
<1>1. limit \in Byte
  BY OcpLimitType DEF Sound, Board
<1>2. CASE limit = b.OCP_max_duty
  BY <1>2 DEF HbridgeOCP
<1>3. CASE limit # b.OCP_max_duty
  <2> DEFINE c == [b EXCEPT !.OCP_max_duty = limit]
             r == HbridgeSetDuty(c, b.requested_duty)
  <2> HIDE DEF limit
  <2>1. b \in Board /\ c \in Board /\ b.requested_duty \in Byte
    BY <1>1 DEF Sound, Board
  <2>2. r \in Board
    BY <2>1, HbridgeSetDutyType
  <2>3. /\ r.mode = b.mode /\ r.emergency = b.emergency
        /\ r.SD = b.SD /\ r.contactor = b.contactor
        /\ r.duty = b.duty /\ r.stopping_duty = b.stopping_duty
        /\ r.requested_duty = b.requested_duty
        /\ r.OCR = PwmDuty(r.requested_duty, r.OCP_max_duty)
    BY <2>1 DEF HbridgeSetDuty, Board
  <2>4. Sound(r)
    BY <2>2, <2>3 DEF Sound, Latched, Outputs, Requested, Applied
  <2>5. HbridgeOCP(b, amps) = r
    BY <1>3 DEF HbridgeOCP, limit
  <2> QED
    BY <2>4, <2>5
<1> QED
  BY <1>2, <1>3

-----------------------------------------------------------------------------
(* main.cpp and globals.cpp *)

\* set_mode's case mode_emergency keeps the board sound.
LEMMA EnterEmergencySound ==
    ASSUME NEW b, Sound(b)
    PROVE  Sound(EnterEmergency(b))
BY DEF EnterEmergency, Sound, Latched, Outputs, Requested, Applied, Board, Modes

\* set_mode's case mode_stopping keeps the board sound: the ramp starts at
\* the duty that is applied.
LEMMA EnterStoppingSound ==
    ASSUME NEW b, Sound(b), b.mode = "const_duty"
    PROVE  Sound(EnterStopping(b))
<1> DEFINE r == EnterStopping(b)
<1>1. b \in Board /\ b.duty \in Byte /\ 0 \in 0 .. StoppingTime
  BY DEF Sound, Board
<1>2. r \in Board
  BY <1>1 DEF EnterStopping, Board, Modes
<1>3. /\ r.mode = "stopping" /\ r.emergency = b.emergency
      /\ r.SD = b.SD /\ r.contactor = b.contactor
      /\ r.stopping_duty = b.duty /\ r.requested_duty = b.requested_duty
      /\ r.OCR = b.OCR /\ r.OCP_max_duty = b.OCP_max_duty
  BY <1>1 DEF EnterStopping, Board
<1> QED
  BY <1>2, <1>3 DEF Sound, Latched, Outputs, Requested, Applied

\* set_mode's case mode_const_duty keeps a board with its drivers on sound.
LEMMA EnterConstDutySound ==
    ASSUME NEW b, Sound(b), b.mode = "stopping", ~b.emergency
    PROVE  Sound(EnterConstDuty(b))
<1> DEFINE c == [b EXCEPT !.contactor = TRUE, !.mode = "const_duty"]
           r == HbridgeSetDuty(c, b.duty)
<1>1. b \in Board /\ c \in Board /\ b.duty \in Byte
  BY DEF Sound, Board, Modes
<1>2. r \in Board
  BY <1>1, HbridgeSetDutyType
<1>3. /\ r.mode = "const_duty" /\ r.emergency = b.emergency
      /\ r.SD = b.SD /\ r.contactor
      /\ r.duty = b.duty /\ r.requested_duty = b.duty
      /\ r.OCR = PwmDuty(r.requested_duty, r.OCP_max_duty)
  BY <1>1 DEF HbridgeSetDuty, Board
<1>4. r = EnterConstDuty(b)
  BY DEF EnterConstDuty
<1> QED
  BY <1>2, <1>3, <1>4 DEF Sound, Latched, Outputs, Requested, Applied

\* set_mode's case mode_start makes a sound board of one that is not latched.
LEMMA StartSound ==
    ASSUME NEW b, Sound(b), ~b.emergency
    PROVE  Sound(Start(b))
<1> DEFINE c == [b EXCEPT !.duty = 0, !.SD = TRUE, !.contactor = TRUE,
                          !.mode = "const_duty"]
           r == HbridgeSetDuty(c, 0)
<1>1. b \in Board /\ 0 \in Byte
  BY DEF Sound
<1>2. c \in Board
  BY <1>1 DEF Board, Modes
<1>3. r \in Board
  BY <1>1, <1>2, HbridgeSetDutyType
<1>4. /\ r.mode = "const_duty" /\ r.emergency = b.emergency
      /\ r.SD /\ r.contactor
      /\ r.duty = 0 /\ r.requested_duty = 0
      /\ r.OCR = PwmDuty(r.requested_duty, r.OCP_max_duty)
  BY <1>1, <1>2 DEF HbridgeSetDuty, Board
<1>5. r = Start(b)
  BY DEF Start
<1> QED
  BY <1>3, <1>4, <1>5 DEF Sound, Latched, Outputs, Requested, Applied

\* set_mode keeps the board sound in every mode and for every request.
LEMMA SetModeSound ==
    ASSUME NEW b, Sound(b), NEW m \in Modes \cup {"start"}
    PROVE  Sound(SetMode(b, m))
<1>1. CASE b.emergency \/ ~Allowed(b, m)
  BY <1>1 DEF SetMode
<1>2. CASE ~b.emergency /\ Allowed(b, m)
  <2>1. SetMode(b, m) = Enter(b, m)
    BY <1>2 DEF SetMode
  <2>2. CASE m = "emergency"
    BY <2>1, <2>2, EnterEmergencySound DEF Enter
  <2>3. CASE m = "stopping"
    BY <1>2, <2>1, <2>3, EnterStoppingSound DEF Enter, Allowed
  <2>4. CASE m = "const_duty"
    BY <1>2, <2>1, <2>4, EnterConstDutySound DEF Enter, Allowed
  <2>5. CASE m = "start"
    BY <1>2, <2>1, <2>5, StartSound DEF Enter, Allowed
  <2> QED
    BY <2>2, <2>3, <2>4, <2>5 DEF Modes
<1> QED
  BY <1>1, <1>2

\* set_duty keeps the board sound in every mode (globals.cpp).
LEMMA SetDutySound ==
    ASSUME NEW b, Sound(b), NEW d \in Byte
    PROVE  Sound(SetDuty(b, d))
<1> DEFINE stored == [b EXCEPT !.duty = d]
           r == HbridgeSetDuty(stored, d)
<1>1. b \in Board /\ stored \in Board
  BY DEF Sound, Board
<1>2. CASE d # b.duty /\ b.mode = "const_duty"
  <2>1. r \in Board
    BY <1>1, HbridgeSetDutyType
  <2>2. /\ r.mode = b.mode /\ r.emergency = b.emergency
        /\ r.SD = b.SD /\ r.contactor = b.contactor
        /\ r.duty = d /\ r.requested_duty = d
        /\ r.OCR = PwmDuty(r.requested_duty, r.OCP_max_duty)
    BY <1>1 DEF HbridgeSetDuty, Board
  <2>3. r = SetDuty(b, d)
    BY <1>2 DEF SetDuty
  <2> QED
    BY <1>2, <2>1, <2>2, <2>3
    DEF Sound, Latched, Outputs, Requested, Applied
<1>3. CASE d = b.duty \/ b.mode # "const_duty"
  BY <1>1, <1>3
  DEF SetDuty, Sound, Latched, Outputs, Requested, Applied, Board
<1> QED
  BY <1>2, <1>3

\* emergency_stop() always ends in mode_emergency: a board that was latched
\* before is there already.
LEMMA EmergencyStopSound ==
    ASSUME NEW b, Sound(b)
    PROVE  /\ Sound(EmergencyStop(b)) /\ EmergencyStop(b).emergency
           /\ EmergencyStop(b).mode = "emergency"
<1> DEFINE c == SetMode(b, "emergency")
<1>1. Sound(c)
  BY SetModeSound DEF Modes
<1>2. c.mode = "emergency" /\ ~c.SD /\ ~c.contactor
  BY DEF SetMode, Allowed, Enter, EnterEmergency, Sound, Latched, Board
<1>3. EmergencyStop(b) = [c EXCEPT !.emergency = TRUE]
  BY DEF EmergencyStop
<1> HIDE DEF c
<1> QED
  BY <1>1, <1>2, <1>3
  DEF Sound, Latched, Outputs, Requested, Applied, Board

\* An error of weight 10 keeps the board sound and leaves it latched
\* (error_create_callback).
LEMMA SevereErrorSound ==
    ASSUME NEW b, Sound(b)
    PROVE  /\ Sound(SevereError(b)) /\ SevereError(b).emergency
           /\ SevereError(b).mode = "emergency"
BY EmergencyStopSound DEF SevereError, Sound, Latched

-----------------------------------------------------------------------------
(* What the functions above leave alone: the voltage and OVP_stop change in *)
(* OVP only, and emergency is never cleared.                                *)

Keeps(b, c) ==
    /\ c.voltage = b.voltage /\ c.OVP_stop = b.OVP_stop
    /\ b.emergency => c.emergency

\* An OCP step leaves the voltage and the OVP flag alone.
LEMMA HbridgeOCPKeeps ==
    ASSUME NEW b \in Board, NEW amps
    PROVE  Keeps(b, HbridgeOCP(b, amps))
BY DEF HbridgeOCP, HbridgeSetDuty, Keeps, Board

\* set_mode leaves the voltage, the OVP flag and the latch alone.
LEMMA SetModeKeeps ==
    ASSUME NEW b \in Board, NEW m \in Modes \cup {"start"}
    PROVE  Keeps(b, SetMode(b, m))
<1>1. Keeps(b, EnterEmergency(b)) /\ Keeps(b, EnterStopping(b))
  BY DEF EnterEmergency, EnterStopping, Keeps, Board
<1>2. Keeps(b, EnterConstDuty(b))
  BY DEF EnterConstDuty, HbridgeSetDuty, Keeps, Board
<1>3. Keeps(b, Start(b))
  BY DEF Start, HbridgeSetDuty, Keeps, Board
<1>4. Keeps(b, Enter(b, m))
  BY <1>1, <1>2, <1>3 DEF Enter, Modes
<1>5. Keeps(b, b)
  BY DEF Keeps
<1> QED
  BY <1>4, <1>5 DEF SetMode

\* set_duty leaves the voltage, the OVP flag and the latch alone.
LEMMA SetDutyKeeps ==
    ASSUME NEW b \in Board, NEW d
    PROVE  Keeps(b, SetDuty(b, d))
BY DEF SetDuty, HbridgeSetDuty, Keeps, Board

\* A severe error leaves the voltage and the OVP flag alone.
LEMMA SevereErrorKeeps ==
    ASSUME NEW b, Sound(b)
    PROVE  Keeps(b, EmergencyStop(b)) /\ Keeps(b, SevereError(b))
<1> DEFINE c == SetMode(b, "emergency")
<1>1. c \in Board /\ Keeps(b, c)
  BY SetModeSound, SetModeKeeps DEF Modes, Sound
<1> HIDE DEF c
<1>2. Keeps(b, [c EXCEPT !.emergency = TRUE])
  BY <1>1 DEF Keeps, Board
<1>3. EmergencyStop(b) = [c EXCEPT !.emergency = TRUE]
  BY DEF EmergencyStop, c
<1>4. Keeps(b, b)
  BY DEF Keeps
<1> QED
  BY <1>2, <1>3, <1>4 DEF SevereError

-----------------------------------------------------------------------------
(* adc.cpp *)

OvpAnswered(b) ==
    /\ b.OVP_stop => b.voltage > OVPStart
    /\ b.voltage >= OVPStop => b.OVP_stop \/ b.emergency
    /\ b.voltage >= OVP_DISCONNECT => b.emergency

\* What keeps voltage, OVP flag and latch keeps the answer to over-voltage.
LEMMA KeepsOvpAnswered ==
    ASSUME NEW b, NEW c, Keeps(b, c), OvpAnswered(b)
    PROVE  OvpAnswered(c)
BY DEF Keeps, OvpAnswered

\* Release and Trip change OVP_stop and OVP_mode, then call set_mode.
LEMMA OvpFieldsSound ==
    ASSUME NEW b, Sound(b), NEW stop \in BOOLEAN, NEW om \in Modes
    PROVE  Sound([b EXCEPT !.OVP_stop = stop, !.OVP_mode = om])
<1> DEFINE r == [b EXCEPT !.OVP_stop = stop, !.OVP_mode = om]
<1>1. b \in Board
  BY DEF Sound
<1>2. r \in Board
  BY <1>1 DEF Board
<1>3. /\ r.mode = b.mode /\ r.emergency = b.emergency /\ r.SD = b.SD
      /\ r.contactor = b.contactor /\ r.duty = b.duty
      /\ r.stopping_duty = b.stopping_duty
      /\ r.requested_duty = b.requested_duty
      /\ r.OCR = b.OCR /\ r.OCP_max_duty = b.OCP_max_duty
  BY <1>1 DEF Board
<1> QED
  BY <1>2, <1>3 DEF Sound, Latched, Outputs, Requested, Applied

\* Releasing OVP keeps the board sound, and afterwards a set flag means that
\* the voltage is above OVPStart (OVP).
LEMMA ReleaseSound ==
    ASSUME NEW b, Sound(b)
    PROVE  /\ Sound(Release(b))
           /\ Release(b).voltage = b.voltage
           /\ b.emergency => Release(b).emergency
           /\ Release(b).OVP_stop => b.voltage > OVPStart
<1> DEFINE c == [b EXCEPT !.OVP_stop = FALSE]
<1>1. b \in Board /\ b.OVP_mode \in Modes /\ b.voltage \in Nat
  BY DEF Sound, Board
<1>2. c = [b EXCEPT !.OVP_stop = FALSE, !.OVP_mode = b.OVP_mode]
  BY <1>1 DEF Board
<1>3. Sound(c)
  BY <1>1, <1>2, OvpFieldsSound
<1>4. c.voltage = b.voltage /\ c.emergency = b.emergency /\ ~c.OVP_stop
  BY <1>1 DEF Board
<1>5. CASE b.voltage <= OVPStart /\ b.OVP_stop
  <2>1. Release(b) = SetMode(c, b.OVP_mode)
    BY <1>5 DEF Release
  <2>2. Sound(SetMode(c, b.OVP_mode)) /\ Keeps(c, SetMode(c, b.OVP_mode))
    BY <1>1, <1>3, SetModeSound, SetModeKeeps DEF Sound
  <2> QED
    BY <1>4, <2>1, <2>2 DEF Keeps
<1>6. CASE ~(b.voltage <= OVPStart /\ b.OVP_stop)
  BY <1>1, <1>6 DEF Release
<1> QED
  BY <1>5, <1>6

\* Tripping OVP keeps the board sound and answers the voltage (OVP).
LEMMA TripSound ==
    ASSUME NEW b, Sound(b), b.OVP_stop => b.voltage > OVPStart
    PROVE  /\ Sound(Trip(b))
           /\ Trip(b).voltage = b.voltage
           /\ b.emergency => Trip(b).emergency
           /\ Trip(b).OVP_stop => b.voltage > OVPStart
           /\ b.voltage >= OVPStop => Trip(b).OVP_stop \/ Trip(b).emergency
<1> DEFINE c == [b EXCEPT !.OVP_stop = TRUE, !.OVP_mode = b.mode]
<1>1. b \in Board /\ b.mode \in Modes /\ b.voltage \in Nat
  BY DEF Sound, Board
<1>2. Sound(c)
  BY <1>1, OvpFieldsSound
<1>3. c.voltage = b.voltage /\ c.emergency = b.emergency /\ c.OVP_stop
  BY <1>1 DEF Board
<1>4. CASE b.voltage >= OVPStop /\ ~b.OVP_stop /\ ~b.emergency
  <2>1. Trip(b) = SetMode(c, "stopping")
    BY <1>4 DEF Trip
  <2>2. Sound(SetMode(c, "stopping")) /\ Keeps(c, SetMode(c, "stopping"))
    BY <1>2, SetModeSound, SetModeKeeps DEF Sound, Modes
  <2>3. b.voltage > OVPStart
    BY <1>1, <1>4
  <2> QED
    BY <1>3, <1>4, <2>1, <2>2, <2>3 DEF Keeps
<1>5. CASE ~(b.voltage >= OVPStop /\ ~b.OVP_stop /\ ~b.emergency)
  BY <1>1, <1>5 DEF Trip
<1> QED
  BY <1>4, <1>5

\* Disconnect's record is the one passed in, or that of a severe error.
LEMMA DisconnectSound ==
    ASSUME NEW b, Sound(b),
           b.OVP_stop => b.voltage > OVPStart,
           b.voltage >= OVPStop => b.OVP_stop \/ b.emergency
    PROVE  Sound(Disconnect(b)) /\ OvpAnswered(Disconnect(b))
<1>1. CASE b.voltage >= OVP_DISCONNECT
  <2> DEFINE c == SevereError(b)
  <2>1. Sound(c) /\ c.emergency /\ Keeps(b, c)
    BY SevereErrorSound, SevereErrorKeeps
  <2>2. Disconnect(b) = c
    BY <1>1 DEF Disconnect
  <2> QED
    BY <2>1, <2>2 DEF OvpAnswered, Keeps
<1>2. CASE ~(b.voltage >= OVP_DISCONNECT)
  BY <1>2 DEF Disconnect, OvpAnswered
<1> QED
  BY <1>1, <1>2

\* OVP() as a whole: a sound board whose over-voltage is answered.
LEMMA OVPSound ==
    ASSUME NEW b, Sound(b)
    PROVE  Sound(OVP(b)) /\ OvpAnswered(OVP(b))
<1> DEFINE r == Release(b)
           t == Trip(r)
<1>1. Sound(r) /\ (r.OVP_stop => r.voltage > OVPStart)
  BY ReleaseSound
<1> HIDE DEF r
<1>2. /\ Sound(t)
      /\ t.OVP_stop => t.voltage > OVPStart
      /\ t.voltage >= OVPStop => t.OVP_stop \/ t.emergency
  BY <1>1, TripSound
<1> HIDE DEF t
<1>3. Sound(Disconnect(t)) /\ OvpAnswered(Disconnect(t))
  BY <1>2, DisconnectSound
<1> QED
  BY <1>3 DEF OVP, r, t

\* A fresh reading of the voltage is the only change before OVP() looks at it.
LEMMA ReadingSound ==
    ASSUME NEW b, Sound(b), NEW v \in Nat
    PROVE  Sound([b EXCEPT !.voltage = v])
<1> DEFINE r == [b EXCEPT !.voltage = v]
<1>1. b \in Board
  BY DEF Sound
<1>2. r \in Board
  BY <1>1 DEF Board
<1>3. /\ r.mode = b.mode /\ r.emergency = b.emergency /\ r.SD = b.SD
      /\ r.contactor = b.contactor /\ r.duty = b.duty
      /\ r.stopping_duty = b.stopping_duty
      /\ r.requested_duty = b.requested_duty
      /\ r.OCR = b.OCR /\ r.OCP_max_duty = b.OCP_max_duty
  BY <1>1 DEF Board
<1> QED
  BY <1>2, <1>3 DEF Sound, Latched, Outputs, Requested, Applied

\* One sample: OVP(), then Hbridge_OCP(), then the temperatures.
LEMMA SampleSound ==
    ASSUME NEW b, Sound(b), NEW v \in Nat, NEW hot \in BOOLEAN,
           NEW amps \in {"low", "normal", "high"}
    PROVE  LET r == Overheat(HbridgeOCP(OVP([b EXCEPT !.voltage = v]), amps), hot)
           IN  Sound(r) /\ OvpAnswered(r)
<1> DEFINE o == OVP([b EXCEPT !.voltage = v])
           h == HbridgeOCP(o, amps)
<1>1. Sound(o) /\ OvpAnswered(o)
  BY ReadingSound, OVPSound
<1> HIDE DEF o
<1>2. Sound(h) /\ OvpAnswered(h)
  BY <1>1, HbridgeOCPSound, HbridgeOCPKeeps, KeepsOvpAnswered DEF Sound
<1> HIDE DEF h
<1>3. Sound(SevereError(h)) /\ OvpAnswered(SevereError(h))
  BY <1>2, SevereErrorSound, SevereErrorKeeps, KeepsOvpAnswered
<1>4. Sound(Overheat(h, hot)) /\ OvpAnswered(Overheat(h, hot))
  BY <1>2, <1>3 DEF Overheat
<1> QED
  BY <1>4 DEF o, h

-----------------------------------------------------------------------------
(* The parts of loop() *)

\* After the timeout check the board is in mode_emergency or its duty is
\* fresh (uart_loop).
LEMMA CommsTimeoutSound ==
    ASSUME NEW b, Sound(b), OvpAnswered(b), NEW age \in Nat
    PROVE  LET r == CommsTimeout(b, age)
           IN  /\ Sound(r) /\ OvpAnswered(r)
               /\ r.mode # "emergency" => age < RefreshInterval
<1>1. /\ Sound(SevereError(b)) /\ OvpAnswered(SevereError(b))
      /\ SevereError(b).mode = "emergency"
  BY SevereErrorSound, SevereErrorKeeps, KeepsOvpAnswered
<1> QED
  BY <1>1 DEF CommsTimeout

\* The end of the enable logic, as EnableSettled wants it.
Settled(b, on) ==
    /\ b.mode = "const_duty" => on
    /\ b.mode = "stopping" /\ on => b.OVP_stop

\* The enable logic keeps the board sound and settles it (loop).
LEMMA FollowEnableSound ==
    ASSUME NEW b, Sound(b), OvpAnswered(b), NEW on \in BOOLEAN
    PROVE  LET r == FollowEnable(b, on)
           IN  Sound(r) /\ OvpAnswered(r) /\ Settled(r, on)
<1> DEFINE braked == IF ~on /\ b.mode = "const_duty" THEN SetMode(b, "stopping")
                     ELSE b
<1>1. CASE ~on
  <2>1. FollowEnable(b, on) = braked
    BY <1>1 DEF FollowEnable
  <2>2. Sound(braked) /\ OvpAnswered(braked)
    BY SetModeSound, SetModeKeeps, KeepsOvpAnswered DEF Sound, Modes
  <2>3. b.mode = "const_duty" => SetMode(b, "stopping").mode = "stopping"
    BY DEF SetMode, Allowed, Enter, EnterStopping, Sound, Latched, Board
  <2>4. braked.mode # "const_duty"
    BY <1>1, <2>3
  <2> QED
    BY <1>1, <2>1, <2>2, <2>4 DEF Settled
<1>2. CASE on
  <2> DEFINE r == SetMode(b, "const_duty")
  <2>1. FollowEnable(b, on) = IF b.mode = "stopping" THEN r ELSE b
    BY <1>2 DEF FollowEnable
  <2>2. Sound(r) /\ OvpAnswered(r)
    BY SetModeSound, SetModeKeeps, KeepsOvpAnswered DEF Sound, Modes
  <2>3. b.mode = "stopping" /\ ~b.OVP_stop => r.mode = "const_duty"
    BY DEF SetMode, Allowed, Enter, EnterConstDuty, HbridgeSetDuty,
           Sound, Latched, Board
  <2>4. b.OVP_stop => r.OVP_stop
    BY SetModeKeeps DEF Sound, Modes, Keeps
  <2> QED
    BY <1>2, <2>1, <2>2, <2>3, <2>4 DEF Settled
<1> QED
  BY <1>1, <1>2

\* A step of the braking ramp keeps the board sound (loop).
LEMMA RampSound ==
    ASSUME NEW b, Sound(b), b.mode = "stopping"
    PROVE  LET r == Ramp(b)
           IN  /\ Sound(r) /\ Keeps(b, r)
               /\ r.mode = "stopping" /\ r.OVP_stop = b.OVP_stop
               /\ r.requested_duty >= b.requested_duty
<1> DEFINE d == NextStoppingDuty(b.stopping_duty)
           c == [b EXCEPT !.stopping_duty = d]
           r == HbridgeSetDuty(c, d)
<1>1. b \in Board /\ b.stopping_duty \in Byte
  BY DEF Sound, Board
<1>2. d \in Byte /\ d >= b.stopping_duty
  BY <1>1, NextStoppingDutyType
<1> HIDE DEF d
<1>3. c \in Board
  BY <1>1, <1>2 DEF Board
<1>4. r \in Board
  BY <1>2, <1>3, HbridgeSetDutyType
<1>5. /\ r.mode = b.mode /\ r.emergency = b.emergency /\ r.SD = b.SD
      /\ r.contactor = b.contactor /\ r.voltage = b.voltage
      /\ r.OVP_stop = b.OVP_stop
      /\ r.stopping_duty = d /\ r.requested_duty = d
      /\ r.OCR = PwmDuty(r.requested_duty, r.OCP_max_duty)
  BY <1>1, <1>2 DEF HbridgeSetDuty, Board
<1>6. Sound(r)
  BY <1>4, <1>5 DEF Sound, Latched, Outputs, Requested, Applied
<1>7. b.requested_duty = b.stopping_duty
  BY DEF Sound, Requested
<1>8. r = Ramp(b)
  BY DEF Ramp, d
<1> QED
  BY <1>2, <1>5, <1>6, <1>7, <1>8 DEF Keeps

\* The age of the stop is no part of the other conditions.
LEMMA AgeSound ==
    ASSUME NEW b, Sound(b), NEW a \in 0 .. StoppingTime
    PROVE  LET r == [b EXCEPT !.mode_age = a]
           IN  /\ Sound(r) /\ Keeps(b, r)
               /\ r.mode = b.mode /\ r.OVP_stop = b.OVP_stop
               /\ r.requested_duty = b.requested_duty
<1> DEFINE r == [b EXCEPT !.mode_age = a]
<1>1. b \in Board
  BY DEF Sound
<1>2. r \in Board
  BY <1>1 DEF Board
<1>3. /\ r.mode = b.mode /\ r.emergency = b.emergency /\ r.SD = b.SD
      /\ r.contactor = b.contactor /\ r.duty = b.duty
      /\ r.stopping_duty = b.stopping_duty
      /\ r.requested_duty = b.requested_duty
      /\ r.OCR = b.OCR /\ r.OCP_max_duty = b.OCP_max_duty
      /\ r.voltage = b.voltage /\ r.OVP_stop = b.OVP_stop
  BY <1>1 DEF Board
<1>4. Sound(r)
  BY <1>2, <1>3 DEF Sound, Latched, Outputs, Requested, Applied
<1> QED
  BY <1>3, <1>4 DEF Keeps

\* Opening the contactor in the stopping mode.
LEMMA StopByContactorSound ==
    ASSUME NEW b, Sound(b), b.mode = "stopping", NEW fast \in BOOLEAN
    PROVE  LET r == StopByContactor(b, fast)
           IN  /\ Sound(r) /\ Keeps(b, r)
               /\ r.mode = b.mode /\ r.OVP_stop = b.OVP_stop
               /\ r.requested_duty = b.requested_duty
<1> DEFINE r == [b EXCEPT !.contactor = FALSE]
<1>1. b \in Board
  BY DEF Sound
<1>2. r \in Board
  BY <1>1 DEF Board
<1>3. /\ r.mode = b.mode /\ r.emergency = b.emergency /\ r.SD = b.SD
      /\ ~r.contactor /\ r.duty = b.duty
      /\ r.stopping_duty = b.stopping_duty
      /\ r.requested_duty = b.requested_duty
      /\ r.OCR = b.OCR /\ r.OCP_max_duty = b.OCP_max_duty
      /\ r.voltage = b.voltage /\ r.OVP_stop = b.OVP_stop
  BY <1>1 DEF Board
<1>4. Sound(r)
  BY <1>2, <1>3 DEF Sound, Latched, Outputs, Requested, Applied
<1>5. Keeps(b, r) /\ Keeps(b, b)
  BY <1>3 DEF Keeps
<1> HIDE DEF r
<1>6. StopByContactor(b, fast) \in {r, b}
  BY DEF StopByContactor, r
<1> QED
  BY <1>3, <1>4, <1>5, <1>6

\* The stopping mode's part of loop().
LEMMA StoppingSound ==
    ASSUME NEW b, Sound(b), NEW fast \in BOOLEAN
    PROVE  LET r == Stopping(b, fast)
           IN  /\ Sound(r) /\ Keeps(b, r)
               /\ r.mode = b.mode /\ r.OVP_stop = b.OVP_stop
               /\ r.requested_duty >= b.requested_duty
<1> DEFINE p == IF RampDue(b) THEN Ramp(b) ELSE b
           r == StopByContactor(p, fast)
<1>1. b \in Board /\ b.requested_duty \in Byte
  BY DEF Sound, Board
<1>2. CASE b.mode = "stopping"
  <2>1. /\ Sound(p) /\ Keeps(b, p) /\ p.mode = "stopping"
        /\ p.OVP_stop = b.OVP_stop
        /\ p.requested_duty >= b.requested_duty
    BY <1>1, <1>2, RampSound DEF Keeps
  <2> HIDE DEF p
  <2>2. /\ Sound(r) /\ Keeps(p, r) /\ r.mode = p.mode
        /\ r.OVP_stop = p.OVP_stop /\ r.requested_duty = p.requested_duty
    BY <2>1, StopByContactorSound
  <2>3. Stopping(b, fast) = r
    BY <1>2 DEF Stopping, p
  <2> HIDE DEF r
  <2> QED
    BY <1>2, <2>1, <2>2, <2>3 DEF Keeps
<1>3. CASE b.mode # "stopping"
  BY <1>1, <1>3 DEF Stopping, Keeps
<1> QED
  BY <1>2, <1>3

-----------------------------------------------------------------------------
(* The inductive invariant *)

\* The conditions on the board, the types of the other variables, and the two
\* facts that hold at one point of the loop only.
IInv ==
    /\ Sound(board) /\ OvpAnswered(board)
    /\ pc \in {"adc", "uart", "tail", "reset_loop", "test_loop"}
    /\ enabled \in [hardware : BOOLEAN, software : BOOLEAN]
    /\ timers \in [duty : 0 .. RefreshInterval, ramp : 0 .. StoppingPeriod,
                   adc : 0 .. AdcPeriod]
    /\ marker \in BOOLEAN
    /\ pc = "adc" => Settled(board, enabled.hardware /\ enabled.software)
    /\ pc = "tail" /\ board.mode # "emergency" => timers.duty < RefreshInterval

\* The state setup() starts from is sound.
LEMMA GlobalsSound == Sound(Globals) /\ OvpAnswered(Globals)
<1>1. Globals \in Board
  BY DEF Globals, Board, Modes, OcrReset
<1>2. /\ Globals.mode = "emergency" /\ ~Globals.emergency /\ ~Globals.SD
      /\ ~Globals.contactor /\ ~Globals.OVP_stop /\ Globals.voltage = 0
  BY DEF Globals
<1>3. Sound(Globals)
  BY <1>1, <1>2 DEF Sound, Latched, Outputs, Requested, Applied
<1>4. OvpAnswered(Globals)
  BY <1>2 DEF OvpAnswered
<1> QED
  BY <1>3, <1>4

\* So is the state it ends in, with an error on the way or without.
LEMMA BootedSound ==
    ASSUME NEW fault \in BOOLEAN
    PROVE  /\ Sound(Booted(fault)) /\ OvpAnswered(Booted(fault))
           /\ Booted(fault).mode = "emergency"
<1>1. Globals.mode = "emergency"
  BY DEF Globals
<1>2. LET r == SevereError(Globals)
      IN  Sound(r) /\ OvpAnswered(r) /\ r.mode = "emergency"
  BY GlobalsSound, SevereErrorSound, SevereErrorKeeps, KeepsOvpAnswered
<1> QED
  BY <1>1, <1>2, GlobalsSound DEF Booted

\* setup() leaves timers and enable flags of the right type.
LEMMA TimersReset ==
    /\ DisabledAtBoot \in [hardware : BOOLEAN, software : BOOLEAN]
    /\ FreshTimers \in [duty : 0 .. RefreshInterval, ramp : 0 .. StoppingPeriod,
                        adc : 0 .. AdcPeriod]
BY DEF DisabledAtBoot, FreshTimers

\* The inductive invariant holds after setup().
LEMMA InitIInv == Init => IInv
<1> SUFFICES ASSUME Init PROVE IInv
  OBVIOUS
<1>1. PICK fault \in BOOLEAN : board = Booted(fault)
  BY DEF Init
<1> QED
  BY <1>1, BootedSound, TimersReset DEF Init, IInv, Settled

\* A timer stays below the cap it is compared with.
LEMMA AgeType ==
    ASSUME NEW cap \in Nat, NEW age \in 0 .. cap, NEW dt \in Nat
    PROVE  Age(age, dt, cap) \in 0 .. cap
BY DEF Age, Earlier

\* The rest of loop() preserves the inductive invariant.
LEMMA TailIInv ==
    ASSUME IInv, NEW pin \in BOOLEAN, NEW fast \in BOOLEAN, NEW dt \in PassTimes,
           loop_tail(pin, fast, dt)
    PROVE  IInv'
<1> DEFINE now     == [enabled EXCEPT !.hardware = pin]
           on      == now.hardware /\ now.software
           decided == FollowEnable(board, on)
           stopped == Stopping(decided, fast)
           age     == Age(stopped.mode_age, dt, StoppingTime)
           aged    == [stopped EXCEPT !.mode_age = age]
<1>1. now \in [hardware : BOOLEAN, software : BOOLEAN] /\ on \in BOOLEAN /\ dt \in Nat
  BY DEF IInv
<1>2. Sound(decided) /\ OvpAnswered(decided) /\ Settled(decided, on)
  BY <1>1, FollowEnableSound DEF IInv
<1>3. /\ enabled' = now /\ board' = aged /\ pc' = "adc" /\ marker' = marker
      /\ timers' = [duty |-> Age(timers.duty, dt, RefreshInterval),
                    ramp |-> Age(IF RampDue(decided) THEN 0 ELSE timers.ramp,
                                 dt, StoppingPeriod),
                    adc  |-> Age(timers.adc, dt, AdcPeriod)]
  BY DEF loop_tail
<1> HIDE DEF decided
<1>4. /\ Sound(stopped) /\ Keeps(decided, stopped)
      /\ stopped.mode = decided.mode /\ stopped.OVP_stop = decided.OVP_stop
  BY <1>2, StoppingSound
<1> HIDE DEF stopped
<1>5. age \in 0 .. StoppingTime
  BY <1>1, <1>4, AgeType DEF Sound, Board
<1> HIDE DEF age
<1>6. /\ Sound(aged) /\ Keeps(stopped, aged)
      /\ aged.mode = stopped.mode /\ aged.OVP_stop = stopped.OVP_stop
  BY <1>4, <1>5, AgeSound
<1> HIDE DEF aged
<1>7. OvpAnswered(aged)
  BY <1>2, <1>4, <1>6, KeepsOvpAnswered
<1>8. Settled(aged, on)
  BY <1>2, <1>4, <1>6 DEF Settled
<1>9. timers' \in [duty : 0 .. RefreshInterval, ramp : 0 .. StoppingPeriod,
                   adc : 0 .. AdcPeriod]
  <2>1. /\ Age(timers.duty, dt, RefreshInterval) \in 0 .. RefreshInterval
        /\ Age(timers.adc, dt, AdcPeriod) \in 0 .. AdcPeriod
    BY <1>1, AgeType DEF IInv
  <2>2. Age(IF RampDue(decided) THEN 0 ELSE timers.ramp, dt, StoppingPeriod)
           \in 0 .. StoppingPeriod
    BY <1>1, AgeType DEF IInv
  <2> QED
    BY <1>3, <2>1, <2>2
<1> QED
  BY <1>1, <1>3, <1>6, <1>7, <1>8, <1>9 DEF IInv

\* Every step preserves the inductive invariant.
LEMMA NextIInv ==
    ASSUME IInv, [Next]_vars
    PROVE  IInv'
<1>1. ASSUME NEW v \in Voltages, NEW amps \in {"low", "normal", "high"},
             NEW hot \in BOOLEAN, ADC_sample(v, amps, hot)
      PROVE  IInv'
  <2>1. Sound(board') /\ OvpAnswered(board')
    BY <1>1, SampleSound DEF ADC_sample, IInv
  <2> QED
    BY <1>1, <2>1 DEF ADC_sample, IInv
<1>2. CASE ADC_skip
  BY <1>2 DEF ADC_skip, IInv
<1>3. ASSUME NEW d \in CommandDuties, cmnd_duty(d)
      PROVE  IInv'
  <2>1. Sound(board') /\ OvpAnswered(board')
    BY <1>3, SetDutySound, SetDutyKeeps, KeepsOvpAnswered
    DEF cmnd_duty, IInv, Sound
  <2> QED
    BY <1>3, <2>1 DEF cmnd_duty, IInv
<1>4. ASSUME NEW m \in Modes \cup {"start"}, cmnd_mode(m)
      PROVE  IInv'
  <2>1. Sound(board') /\ OvpAnswered(board')
    BY <1>4, SetModeSound, SetModeKeeps, KeepsOvpAnswered
    DEF cmnd_mode, IInv, Sound
  <2> QED
    BY <1>4, <2>1 DEF cmnd_mode, IInv
<1>5. ASSUME NEW on \in BOOLEAN, cmnd_enable(on)
      PROVE  IInv'
  BY <1>5 DEF cmnd_enable, IInv
<1>6. ASSUME NEW value \in {"RESET", "WDT_TEST"}, cmnd_command(value)
      PROVE  IInv'
  <2>1. Sound(board') /\ OvpAnswered(board')
    BY <1>6, EmergencyStopSound, SevereErrorKeeps, KeepsOvpAnswered
    DEF cmnd_command, IInv
  <2>2. pc' \in {"reset_loop", "test_loop"} /\ marker' \in BOOLEAN
    BY <1>6 DEF cmnd_command, IInv
  <2> QED
    BY <1>6, <2>1, <2>2 DEF cmnd_command, IInv
<1>7. CASE uart_loop_end
  <2>1. /\ Sound(board') /\ OvpAnswered(board')
        /\ board'.mode # "emergency" => timers.duty < RefreshInterval
    <3>1. timers.duty \in Nat
      BY DEF IInv
    <3> QED
      BY <1>7, <3>1, CommsTimeoutSound DEF uart_loop_end, IInv
  <2> QED
    BY <1>7, <2>1 DEF uart_loop_end, IInv
<1>8. ASSUME NEW pin \in BOOLEAN, NEW fast \in BOOLEAN, NEW dt \in PassTimes,
             loop_tail(pin, fast, dt)
      PROVE  IInv'
  BY <1>8, TailIInv
<1>9. CASE WatchdogReset
  <2>1. PICK fault \in BOOLEAN : Boot(fault) /\ marker' = FALSE
    BY <1>9 DEF WatchdogReset, IInv
  <2> QED
    BY <2>1, BootedSound, TimersReset DEF Boot, IInv, Settled
<1>10. CASE PowerCycle
  <2>1. PICK fault \in BOOLEAN : Boot(fault) /\ marker' = marker
    BY <1>10 DEF PowerCycle
  <2> QED
    BY <2>1, BootedSound, TimersReset DEF Boot, IInv, Settled
<1>11. CASE UNCHANGED vars
  BY <1>11 DEF vars, IInv, Sound, Latched, Outputs, Requested, Applied,
     OvpAnswered, Settled
<1> QED
  BY <1>1, <1>2, <1>3, <1>4, <1>5, <1>6, <1>7, <1>8, <1>9, <1>10, <1>11
  DEF Next

\* IInv is an invariant: the whole board is sound at every point of loop().
THEOREM Inductive == Spec => []IInv
<1>1. Init => IInv
  BY InitIInv
<1>2. IInv /\ [Next]_vars => IInv'
  BY NextIInv
<1> QED
  BY <1>1, <1>2, PTL DEF Spec

-----------------------------------------------------------------------------
(* The properties of PowerBoard.tla *)

\* The globals, registers and timers keep their types for every width of the
\* duty and every setting (all of main.cpp, globals.cpp, Hbridge.cpp, adc.cpp).
THEOREM TypeCorrect == Spec => []TypeOK
<1>1. IInv => TypeOK
  BY DEF IInv, TypeOK, Sound
<1> QED
  BY <1>1, Inductive, PTL

\* A latched emergency keeps the generator disconnected (set_mode).
THEOREM EmergencyIsSafe == Spec => []EmergencySafe
<1>1. IInv => EmergencySafe
  BY DEF IInv, EmergencySafe, Sound, Latched
<1> QED
  BY <1>1, Inductive, PTL

\* Drivers and contactor agree with the mode (set_mode).
THEOREM OutputsFollowMode == Spec => []OutputsMatchMode
<1>1. IInv => OutputsMatchMode
  BY DEF IInv, OutputsMatchMode, Sound, Outputs
<1> QED
  BY <1>1, Inductive, PTL

\* The request to the bridge is the one the mode stands for (set_duty, set_mode).
THEOREM DutyFollowsMode == Spec => []DutyMatchesMode
<1>1. IInv => DutyMatchesMode
  BY DEF IInv, DutyMatchesMode, Sound, Requested
<1> QED
  BY <1>1, Inductive, PTL

\* No request and no OCP step is left unapplied while the drivers are on
\* (Hbridge_set_duty, Hbridge_OCP).
THEOREM PwmIsApplied == Spec => []PwmApplied
<1>1. IInv => PwmApplied
  BY DEF IInv, PwmApplied, Sound, Applied
<1> QED
  BY <1>1, Inductive, PTL

\* The enable input is obeyed by the end of every pass (loop).
THEOREM EnableIsSettled == Spec => []EnableSettled
<1>1. IInv => EnableSettled
  BY DEF IInv, EnableSettled, Settled
<1> QED
  BY <1>1, Inductive, PTL

\* Every over-voltage is answered (OVP).
THEOREM OvpIsAnswered == Spec => []OvpTracksVoltage
<1>1. IInv => OvpTracksVoltage
  BY DEF IInv, OvpTracksVoltage, OvpAnswered
<1> QED
  BY <1>1, Inductive, PTL

\* No board drives the turbine on a stale duty (uart_loop).
THEOREM CommsAreFresh == Spec => []CommsFresh
<1>1. IInv => CommsFresh
  BY DEF IInv, CommsFresh
<1> QED
  BY <1>1, Inductive, PTL

-----------------------------------------------------------------------------
(* Action properties: what a step may do to a board at rest (in             *)
(* mode_emergency) and to a board that brakes.                              *)

\* An OCP step changes neither the mode nor the request.
LEMMA HbridgeOCPRequest ==
    ASSUME NEW b \in Board, NEW amps
    PROVE  /\ HbridgeOCP(b, amps).mode = b.mode
           /\ HbridgeOCP(b, amps).requested_duty = b.requested_duty
BY DEF HbridgeOCP, HbridgeSetDuty, Board

\* No request but mode_start leaves mode_emergency (set_mode).
LEMMA SetModeAtRest ==
    ASSUME NEW b \in Board, b.mode = "emergency", NEW m \in Modes
    PROVE  SetMode(b, m).mode = "emergency"
BY DEF SetMode, Allowed, Enter, EnterEmergency, Modes, Board

\* OVP() does not leave mode_emergency.
LEMMA OVPAtRest ==
    ASSUME NEW b, Sound(b), b.mode = "emergency"
    PROVE  OVP(b).mode = "emergency"
<1> DEFINE c == [b EXCEPT !.OVP_stop = FALSE]
           r == Release(b)
           e == [r EXCEPT !.OVP_stop = TRUE, !.OVP_mode = r.mode]
           t == Trip(r)
<1>1. c \in Board /\ c.mode = "emergency" /\ b.OVP_mode \in Modes
  BY DEF Sound, Board
<1>2. Sound(r) /\ r.mode = "emergency"
  BY <1>1, SetModeAtRest, ReleaseSound DEF Release
<1>3. r.OVP_stop => r.voltage > OVPStart
  BY ReleaseSound
<1> HIDE DEF r
<1>4. e \in Board /\ e.mode = "emergency"
  BY <1>2 DEF Sound, Board
<1>5. Sound(t) /\ t.mode = "emergency"
  BY <1>2, <1>3, <1>4, SetModeAtRest, TripSound DEF Trip, Modes
<1> HIDE DEF t
<1>6. Disconnect(t).mode = "emergency"
  BY <1>5, SevereErrorSound DEF Disconnect
<1> QED
  BY <1>6 DEF OVP, r, t

\* OVP() does not lower the duty of a stop, nor end it while the flag stays.
LEMMA OVPWhileStopping ==
    ASSUME NEW b, Sound(b), b.mode = "stopping"
    PROVE  LET r == OVP(b)
           IN  /\ r.mode = "stopping" => r.requested_duty = b.requested_duty
               /\ b.OVP_stop /\ r.OVP_stop => r.mode # "const_duty"
<1> DEFINE c == [b EXCEPT !.OVP_stop = FALSE]
           e == [b EXCEPT !.OVP_stop = TRUE, !.OVP_mode = b.mode]
           t == Trip(Release(b))
<1>1. b \in Board /\ b.voltage \in Nat /\ b.OVP_mode \in Modes
  BY DEF Sound, Board
<1>2. /\ t.mode = "stopping" => t.requested_duty = b.requested_duty
      /\ b.OVP_stop /\ t.OVP_stop => t.mode # "const_duty"
  <2>1. CASE b.voltage <= OVPStart /\ b.OVP_stop
    <3> DEFINE r == SetMode(c, b.OVP_mode)
    <3>1. /\ c \in Board /\ c.mode = "stopping" /\ ~c.OVP_stop
          /\ c.requested_duty = b.requested_duty /\ c.voltage = b.voltage
      BY <1>1 DEF Board
    <3>2. r.mode = "stopping" => r.requested_duty = b.requested_duty
      BY <1>1, <3>1
      DEF SetMode, Allowed, Enter, EnterEmergency, EnterConstDuty,
          HbridgeSetDuty, Modes, Board
    <3>3. ~r.OVP_stop /\ r.voltage = b.voltage
      BY <1>1, <3>1, SetModeKeeps DEF Keeps
    <3>4. Release(b) = r
      BY <2>1 DEF Release
    <3>5. Trip(r) = r
      BY <1>1, <2>1, <3>3 DEF Trip
    <3> QED
      BY <3>2, <3>3, <3>4, <3>5
  <2>2. CASE ~(b.voltage <= OVPStart /\ b.OVP_stop)
    <3>1. Release(b) = b
      BY <2>2 DEF Release
    <3>2. e \in Board /\ e.mode = "stopping" /\ e.requested_duty = b.requested_duty
      BY <1>1 DEF Board
    <3>3. SetMode(e, "stopping") = e
      BY <3>2 DEF SetMode, Allowed
    <3>4. t \in {b, e}
      BY <3>1, <3>3 DEF Trip
    <3> QED
      BY <3>2, <3>4
  <2> QED
    BY <2>1, <2>2
<1>3. Sound(t)
  BY ReleaseSound, TripSound
<1> HIDE DEF t
<1>4. Disconnect(t) = t \/ Disconnect(t).mode = "emergency"
  BY <1>3, SevereErrorSound DEF Disconnect
<1> QED
  BY <1>2, <1>4 DEF OVP, t

\* A sample in mode_emergency or in a stop, as a whole.
LEMMA SampleModes ==
    ASSUME NEW b, Sound(b), NEW v \in Nat, NEW hot \in BOOLEAN,
           NEW amps \in {"low", "normal", "high"}
    PROVE  LET r == Overheat(HbridgeOCP(OVP([b EXCEPT !.voltage = v]), amps), hot)
           IN  /\ b.mode = "emergency" => r.mode = "emergency"
               /\ b.mode = "stopping" /\ r.mode = "stopping" =>
                    r.requested_duty = b.requested_duty
               /\ b.mode = "stopping" /\ b.OVP_stop /\ r.OVP_stop =>
                    r.mode # "const_duty"
<1> DEFINE i == [b EXCEPT !.voltage = v]
           o == OVP(i)
           h == HbridgeOCP(o, amps)
<1>1. /\ Sound(i) /\ i.mode = b.mode /\ i.OVP_stop = b.OVP_stop
      /\ i.requested_duty = b.requested_duty
  BY ReadingSound DEF Sound, Board
<1> HIDE DEF i
<1>2. /\ Sound(o)
      /\ i.mode = "emergency" => o.mode = "emergency"
      /\ i.mode = "stopping" /\ o.mode = "stopping" =>
           o.requested_duty = i.requested_duty
      /\ i.mode = "stopping" /\ i.OVP_stop /\ o.OVP_stop => o.mode # "const_duty"
  BY <1>1, OVPSound, OVPAtRest, OVPWhileStopping
<1> HIDE DEF o
<1>3. /\ Sound(h) /\ h.mode = o.mode /\ h.requested_duty = o.requested_duty
      /\ h.OVP_stop = o.OVP_stop
  BY <1>2, HbridgeOCPSound, HbridgeOCPRequest, HbridgeOCPKeeps DEF Sound, Keeps
<1> HIDE DEF h
<1>4. Overheat(h, hot) = h \/ Overheat(h, hot).mode = "emergency"
  BY <1>3, SevereErrorSound DEF Overheat
<1> QED
  BY <1>1, <1>2, <1>3, <1>4 DEF i, o, h

\* Every way out of a step that is neither a command nor the enable logic.
LEMMA FollowEnableModes ==
    ASSUME NEW b \in Board, NEW on \in BOOLEAN
    PROVE  LET r == FollowEnable(b, on)
           IN  /\ b.mode = "emergency" => r.mode = "emergency"
               /\ b.mode = "stopping" /\ r.mode = "stopping" =>
                    r.requested_duty = b.requested_duty
               /\ b.mode = "stopping" /\ b.OVP_stop => r.mode # "const_duty"
BY DEF FollowEnable, SetMode, Allowed, Enter, EnterConstDuty, HbridgeSetDuty, Board

\* The rest of loop() obeys the three action properties.
LEMMA TailModes ==
    ASSUME IInv, NEW pin \in BOOLEAN, NEW fast \in BOOLEAN, NEW dt \in PassTimes,
           loop_tail(pin, fast, dt)
    PROVE  /\ board.mode = "emergency" => board'.mode = "emergency"
           /\ board.mode = "stopping" /\ board'.mode = "stopping" =>
                board'.requested_duty >= board.requested_duty
           /\ board.mode = "stopping" /\ board.OVP_stop =>
                board'.mode # "const_duty"
<1> DEFINE on == pin /\ enabled.software
           decided == FollowEnable(board, on)
           stopped == Stopping(decided, fast)
           age     == Age(stopped.mode_age, dt, StoppingTime)
           aged    == [stopped EXCEPT !.mode_age = age]
<1>1. /\ on \in BOOLEAN /\ dt \in Nat
      /\ [enabled EXCEPT !.hardware = pin].hardware = pin
      /\ [enabled EXCEPT !.hardware = pin].software = enabled.software
  BY DEF IInv
<1>2. board' = aged
  BY <1>1 DEF loop_tail
<1>3. Sound(decided)
  BY <1>1, FollowEnableSound DEF IInv
<1>4. /\ board.mode = "emergency" => decided.mode = "emergency"
      /\ board.mode = "stopping" /\ decided.mode = "stopping" =>
           decided.requested_duty = board.requested_duty
      /\ board.mode = "stopping" /\ board.OVP_stop => decided.mode # "const_duty"
  BY <1>1, FollowEnableModes DEF IInv, Sound
<1> HIDE DEF decided
<1>5. /\ Sound(stopped) /\ stopped.mode = decided.mode
      /\ stopped.requested_duty >= decided.requested_duty
  BY <1>3, StoppingSound
<1> HIDE DEF stopped
<1>6. age \in 0 .. StoppingTime
  BY <1>1, <1>5, AgeType DEF Sound, Board
<1> HIDE DEF age
<1>7. aged.mode = stopped.mode /\ aged.requested_duty = stopped.requested_duty
  BY <1>5, <1>6, AgeSound
<1> QED
  BY <1>2, <1>4, <1>5, <1>7

\* The timeout check only ever goes to mode_emergency.
LEMMA CommsTimeoutModes ==
    ASSUME NEW b, Sound(b), NEW age
    PROVE  LET r == CommsTimeout(b, age) IN r = b \/ r.mode = "emergency"
BY SevereErrorSound DEF CommsTimeout

\* The three action properties as one relation of two boards.
LEMMA StepModes ==
    ASSUME IInv, [Next]_vars
    PROVE  /\ board.mode = "emergency" /\ board'.mode # "emergency" =>
                \E m \in Modes \cup {"start"} : cmnd_mode(m)
           /\ board.mode = "stopping" /\ board'.mode = "stopping" =>
                board'.requested_duty >= board.requested_duty
           /\ board.OVP_stop /\ board'.OVP_stop /\ board.mode = "stopping" =>
                board'.mode # "const_duty"
<1>0. board \in Board /\ Sound(board) /\ board.requested_duty \in Byte
  BY DEF IInv, Sound, Board
<1>1. ASSUME NEW v \in Voltages, NEW amps \in {"low", "normal", "high"},
             NEW hot \in BOOLEAN, ADC_sample(v, amps, hot)
      PROVE  /\ board.mode = "emergency" => board'.mode = "emergency"
             /\ board.mode = "stopping" /\ board'.mode = "stopping" =>
                  board'.requested_duty >= board.requested_duty
             /\ board.OVP_stop /\ board'.OVP_stop /\ board.mode = "stopping" =>
                  board'.mode # "const_duty"
  BY <1>0, <1>1, SampleModes DEF ADC_sample
<1>2. ASSUME NEW d \in CommandDuties, cmnd_duty(d)
      PROVE  board'.mode = board.mode
             /\ (board.mode = "stopping" =>
                  board'.requested_duty = board.requested_duty)
  BY <1>0, <1>2 DEF cmnd_duty, SetDuty, HbridgeSetDuty, Board
<1>3. ASSUME NEW m \in Modes \cup {"start"}, cmnd_mode(m)
      PROVE  /\ board.mode = "stopping" /\ board'.mode = "stopping" =>
                  board'.requested_duty = board.requested_duty
             /\ board.OVP_stop /\ board.mode = "stopping" =>
                  board'.mode # "const_duty"
  BY <1>0, <1>3
  DEF cmnd_mode, SetMode, Allowed, Enter, EnterEmergency, EnterConstDuty,
      HbridgeSetDuty, Modes, Board
<1>4. ASSUME NEW value \in {"RESET", "WDT_TEST"}, cmnd_command(value)
      PROVE  board'.mode = "emergency"
  BY <1>0, <1>4, EmergencyStopSound DEF cmnd_command
<1>5. CASE uart_loop_end
  BY <1>0, <1>5, CommsTimeoutModes DEF uart_loop_end
<1>6. ASSUME NEW pin \in BOOLEAN, NEW fast \in BOOLEAN, NEW dt \in PassTimes,
             loop_tail(pin, fast, dt)
      PROVE  /\ board.mode = "emergency" => board'.mode = "emergency"
             /\ board.mode = "stopping" /\ board'.mode = "stopping" =>
                  board'.requested_duty >= board.requested_duty
             /\ board.mode = "stopping" /\ board.OVP_stop =>
                  board'.mode # "const_duty"
  BY <1>6, TailModes
<1>7. CASE WatchdogReset \/ PowerCycle
  <2>1. PICK fault \in BOOLEAN : board' = Booted(fault)
    BY <1>7 DEF WatchdogReset, PowerCycle, Boot, IInv
  <2> QED
    BY <2>1, BootedSound
<1>8. CASE ADC_skip \/ UNCHANGED vars \/ \E on \in BOOLEAN : cmnd_enable(on)
  BY <1>0, <1>8 DEF ADC_skip, vars, cmnd_enable
<1> QED
  BY <1>0, <1>1, <1>2, <1>3, <1>4, <1>5, <1>6, <1>7, <1>8 DEF Next

\* Nothing but the start command leaves mode_emergency, and it does so with
\* duty 0 in the register (set_mode).
LEMMA StartStep ==
    ASSUME IInv, NEW m \in Modes \cup {"start"}, cmnd_mode(m),
           board.mode = "emergency", board'.mode # "emergency"
    PROVE  /\ pc = "uart" /\ ~board.emergency
           /\ board'.duty = 0 /\ board'.OCR = 0
<1>1. board \in Board /\ board.OCP_max_duty \in Byte
  BY DEF IInv, Sound, Board
<1>2. ~board.emergency /\ m = "start" /\ board' = Start(board) /\ pc = "uart"
  BY <1>1 DEF cmnd_mode, SetMode, Allowed, Enter, EnterEmergency, Modes, Board
<1>3. PwmDuty(0, board.OCP_max_duty) = 0
  BY <1>1 DEF PwmDuty, Earlier
<1>4. /\ Start(board).duty = 0
      /\ Start(board).OCR = PwmDuty(0, board.OCP_max_duty)
  BY <1>1 DEF Start, HbridgeSetDuty, Board
<1> QED
  BY <1>2, <1>3, <1>4

\* The generator is reconnected by the start command only, from duty 0.
THEOREM RestartsFromZero == Spec => RestartFromZero
<1>1. IInv /\ [Next]_vars =>
        [board.mode = "emergency" /\ board'.mode # "emergency" =>
           /\ pc = "uart" /\ ~board.emergency
           /\ board'.duty = 0 /\ board'.OCR = 0]_vars
  BY StepModes, StartStep
<1> QED
  BY <1>1, Inductive, PTL DEF Spec, RestartFromZero

\* The brake is never released while a stop lasts.
THEOREM BrakeIsNeverReleased == Spec => BrakeNeverReleased
<1>1. IInv /\ [Next]_vars =>
        [board.mode = "stopping" /\ board'.mode = "stopping" =>
           board'.requested_duty >= board.requested_duty]_vars
  BY StepModes
<1> QED
  BY <1>1, Inductive, PTL DEF Spec, BrakeNeverReleased

\* Over-voltage keeps the turbine stopped against enable logic and commands.
THEOREM OvpHoldsTheStop == Spec => OvpHoldsStop
<1>1. IInv /\ [Next]_vars =>
        [board.OVP_stop /\ board'.OVP_stop /\ board.mode = "stopping" =>
           board'.mode # "const_duty"]_vars
  BY StepModes
<1> QED
  BY <1>1, Inductive, PTL DEF Spec, OvpHoldsStop

-----------------------------------------------------------------------------
(* What the board promises to the control board (PowerModes) *)

\* A mode command has the effect PowerModes gives it (set_mode).
LEMMA CommandStep ==
    ASSUME IInv, NEW m \in Modes \cup {"start"}, cmnd_mode(m)
    PROVE  Machine!Command(m)
<1>1. board \in Board /\ Latched(board) /\ board' = SetMode(board, m)
  BY DEF IInv, Sound, cmnd_mode
<1>2. board.mode \in Modes /\ board.emergency \in BOOLEAN
  BY <1>1 DEF Board
<1>3. CASE board.emergency \/ ~Allowed(board, m)
  <2>1. board' = board
    BY <1>1, <1>3 DEF SetMode
  <2>2. board.emergency \/ ~Machine!Obeys(m)
    BY <1>3 DEF Allowed, Machine!Obeys, Modes
  <2> QED
    BY <2>1, <2>2 DEF Machine!Command, Machine!vars
<1>4. CASE ~board.emergency /\ Allowed(board, m)
  <2>1. board' = Enter(board, m)
    BY <1>1, <1>4 DEF SetMode
  <2>2. CASE m = "emergency"
    BY <1>1, <1>4, <2>1, <2>2
    DEF Enter, EnterEmergency, Machine!Command, Machine!Accept, Board
  <2>3. CASE m = "stopping"
    BY <1>1, <1>4, <2>1, <2>3
    DEF Enter, EnterStopping, Allowed, Machine!Command, Machine!Accept, Board
  <2>4. CASE m = "const_duty"
    <3>1. /\ EnterConstDuty(board).mode = "const_duty"
          /\ EnterConstDuty(board).emergency = board.emergency
      BY <1>1 DEF EnterConstDuty, HbridgeSetDuty, Board
    <3> QED
      BY <1>4, <2>1, <2>4, <3>1
      DEF Enter, Allowed, Machine!Command, Machine!Accept
  <2>5. CASE m = "start"
    <3>1. /\ Start(board).mode = "const_duty"
          /\ Start(board).emergency = board.emergency
      BY <1>1 DEF Start, HbridgeSetDuty, Board
    <3> QED
      BY <1>4, <2>1, <2>5, <3>1
      DEF Enter, Allowed, Machine!Command, Machine!Accept
  <2> QED
    BY <2>2, <2>3, <2>4, <2>5 DEF Modes
<1> QED
  BY <1>3, <1>4

\* Every step of the board is one of PowerModes or does not show there.
LEMMA MachineStep ==
    ASSUME IInv, IInv', [Next]_vars
    PROVE  [Machine!Next]_(Machine!vars)
<1>1. /\ board.mode \in Modes /\ board'.mode \in Modes
      /\ board'.emergency \in BOOLEAN
      /\ board.emergency \in BOOLEAN
      /\ board.emergency => board.mode = "emergency"
      /\ board'.emergency => board'.mode = "emergency"
  BY DEF IInv, Sound, Latched, Board
<1>2. CASE board'.mode = "emergency"
  BY <1>1, <1>2 DEF Machine!Next, Machine!OnItsOwn, Machine!Disconnect
<1>3. CASE board.mode = "emergency" /\ board'.mode # "emergency"
  <2>1. PICK m \in Modes \cup {"start"} : cmnd_mode(m)
    BY <1>3, StepModes
  <2>2. Machine!Command(m)
    BY <2>1, CommandStep
  <2> QED
    BY <2>2 DEF Machine!Next, Machine!Commands, Machine!Modes, Modes
<1>4. CASE board.mode # "emergency" /\ board'.mode # "emergency"
  <2>1. ~board.emergency /\ ~board'.emergency
    BY <1>1, <1>4
  <2>2. CASE board.mode = board'.mode
    BY <1>1, <2>1, <2>2 DEF Machine!vars
  <2>3. CASE board.mode # board'.mode
    BY <1>1, <1>4, <2>1, <2>3
    DEF Modes, Machine!Next, Machine!OnItsOwn, Machine!Brake, Machine!Load
  <2> QED
    BY <2>2, <2>3
<1> QED
  BY <1>2, <1>3, <1>4

\* The power board implements the mode machine the control board relies on.
THEOREM ImplementsModes == Spec => ModesImplemented
<1>1. Init => Machine!Init
  BY BootedSound DEF Init, Machine!Init, Booted, Sound, Board
<1>2. IInv /\ IInv' /\ [Next]_vars => [Machine!Next]_(Machine!vars)
  BY MachineStep
<1>3. IInv /\ [Next]_vars =>
        [\A m \in Machine!Commands : cmnd_mode(m) => Machine!Command(m)]_vars
  BY CommandStep DEF Machine!Commands, Machine!Modes, Modes
<1> QED
  BY <1>1, <1>2, <1>3, Inductive, PTL DEF Spec, ModesImplemented, Machine!Spec

-----------------------------------------------------------------------------
(* The contactor as the last resort: the ramp against the time of a stop.   *)

\* Ages and duties are linear, but for the number of steps of the ramp.
LEMMA Steps ==
    ASSUME NEW k \in Nat, NEW n \in Nat, NEW s \in Nat
    PROVE  /\ k * s \in Nat /\ 0 * s = 0
           /\ (k + 1) * s = k * s + s
           /\ k <= n => k * s <= n * s
<1>1. k * s \in Nat /\ 0 * s = 0 /\ (k + 1) * s = k * s + s
  OBVIOUS
<1>2. ASSUME k <= n PROVE k * s <= n * s
  <2>1. PICK m \in Nat : n = k + m
    BY <1>2
  <2>2. n * s = k * s + m * s /\ m * s \in Nat
    BY <2>1
  <2> QED BY <1>1, <2>2
<1> QED BY <1>1, <1>2

\* How long the ramp may have waited for its next step, a pass included.
Waited(ramp, longest) ==
    IF ramp < StoppingPeriod THEN ramp ELSE StoppingPeriod + longest

\* The k steps that got the ramp to d account for the age of the stop.
InTime(d, age, ramp, longest) ==
    \E k \in Nat :
        /\ k * StoppingStep <= d
        /\ age <= k * (StoppingPeriod + longest) + Waited(ramp, longest)

\* Unless the ramp has reached its end it is in time, and the contactor has not
\* been opened.
Braking(b, ramp, longest) ==
    b.mode = "stopping" =>
        /\ b.contactor \/ (b.mode_age = StoppingTime /\ b.stopping_duty = Top)
        /\ b.stopping_duty = Top \/ InTime(b.stopping_duty, b.mode_age, ramp, longest)

\* A stop of c is the one of b, or has just begun.
SameStop(b, c) ==
    c.mode = "stopping" =>
        \/ /\ b.mode = "stopping"
           /\ c.contactor = b.contactor
           /\ c.mode_age = b.mode_age /\ c.stopping_duty = b.stopping_duty
        \/ c.contactor /\ c.mode_age = 0

LEMMA SameStopAgain ==
    ASSUME NEW b, NEW c, NEW e, SameStop(b, c), SameStop(c, e)
    PROVE  SameStop(b, e)
BY DEF SameStop

LEMMA SameStopBraking ==
    ASSUME NEW b, NEW c \in Board, SameStop(b, c),
           NEW ramp \in Nat, NEW longest \in Nat, Braking(b, ramp, longest)
    PROVE  Braking(c, ramp, longest)
<1>1. c.stopping_duty \in Nat
  BY DEF Board
<1>2. InTime(c.stopping_duty, 0, ramp, longest)
  <2>1. Waited(ramp, longest) \in Nat
    BY DEF Waited
  <2>2. 0 * StoppingStep = 0 /\ 0 * (StoppingPeriod + longest) = 0
    OBVIOUS
  <2> QED BY <1>1, <2>1, <2>2 DEF InTime
<1> QED BY <1>2 DEF Braking, SameStop

\* set_mode begins a stop only with the contactor closed.
LEMMA SetModeSameStop ==
    ASSUME NEW b, Sound(b), NEW m \in Modes \cup {"start"}
    PROVE  SameStop(b, SetMode(b, m))
<1>1. b \in Board
  BY DEF Sound
<1>2. EnterEmergency(b).mode = "emergency" /\ EnterConstDuty(b).mode = "const_duty"
      /\ Start(b).mode = "const_duty"
  BY <1>1 DEF EnterEmergency, EnterConstDuty, Start, HbridgeSetDuty, Board
<1>3. b.mode = "const_duty" => EnterStopping(b).contactor /\ EnterStopping(b).mode_age = 0
  BY <1>1 DEF EnterStopping, Board, Sound, Outputs
<1>4. CASE b.emergency \/ ~Allowed(b, m)
  BY <1>4 DEF SetMode, SameStop
<1>5. CASE ~b.emergency /\ Allowed(b, m)
  <2>1. SetMode(b, m) = Enter(b, m)
    BY <1>5 DEF SetMode
  <2>2. CASE m = "stopping"
    BY <1>3, <1>5, <2>1, <2>2 DEF Enter, Allowed, SameStop
  <2>3. CASE m # "stopping"
    BY <1>2, <2>1, <2>3 DEF Enter, Modes, SameStop
  <2> QED BY <2>2, <2>3
<1> QED BY <1>4, <1>5

LEMMA SameStopSelf ==
    ASSUME NEW b
    PROVE  SameStop(b, b)
BY DEF SameStop

LEMMA ReadingSameStop ==
    ASSUME NEW b \in Board, NEW v \in Nat
    PROVE  SameStop(b, [b EXCEPT !.voltage = v])
BY DEF SameStop, Board

LEMMA OvpFieldsSameStop ==
    ASSUME NEW b \in Board, NEW stop \in BOOLEAN, NEW om \in Modes,
           NEW c, c = [b EXCEPT !.OVP_stop = stop, !.OVP_mode = om]
    PROVE  SameStop(b, c)
BY DEF SameStop, Board

LEMMA SetDutySameStop ==
    ASSUME NEW b \in Board, NEW d \in Byte
    PROVE  SameStop(b, SetDuty(b, d))
BY DEF SameStop, SetDuty, HbridgeSetDuty, Board

LEMMA OcpSameStop ==
    ASSUME NEW b \in Board, NEW amps
    PROVE  SameStop(b, HbridgeOCP(b, amps))
BY DEF SameStop, HbridgeOCP, HbridgeSetDuty, Board

\* A severe error ends the stop.
LEMMA SevereErrorSameStop ==
    ASSUME NEW b, Sound(b)
    PROVE  SameStop(b, SevereError(b)) /\ SameStop(b, EmergencyStop(b))
BY SevereErrorSound, EmergencyStopSound DEF SameStop

LEMMA OVPSameStop ==
    ASSUME NEW b, Sound(b)
    PROVE  SameStop(b, OVP(b))
<1> DEFINE c == [b EXCEPT !.OVP_stop = FALSE]
           r == Release(b)
           e == [r EXCEPT !.OVP_stop = TRUE, !.OVP_mode = r.mode]
           t == Trip(r)
<1>1. b \in Board /\ b.OVP_mode \in Modes
  BY DEF Sound, Board
<1>2. Sound(c) /\ SameStop(b, c)
  <2>1. c = [b EXCEPT !.OVP_stop = FALSE, !.OVP_mode = b.OVP_mode]
    BY <1>1 DEF Board
  <2>2. Sound(c)
    BY <1>1, <2>1, OvpFieldsSound DEF Board
  <2> HIDE DEF c
  <2>3. SameStop(b, c)
    BY <1>1, <2>1, OvpFieldsSameStop DEF Board
  <2> QED BY <2>2, <2>3
<1>3. Sound(r) /\ SameStop(b, r)
  <2>1. SameStop(c, SetMode(c, b.OVP_mode))
    BY <1>1, <1>2, SetModeSameStop
  <2>2. SameStop(b, SetMode(c, b.OVP_mode)) /\ SameStop(b, b)
    BY <1>2, <2>1, SameStopAgain, SameStopSelf
  <2> QED BY <2>2, ReleaseSound DEF Release
<1>4. r.OVP_stop => r.voltage > OVPStart
  BY ReleaseSound
<1> HIDE DEF r
<1>5. r \in Board /\ r.mode \in Modes
  BY <1>3 DEF Sound, Board
<1>6. Sound(e) /\ SameStop(r, e)
  <2>1. Sound(e) /\ e = [r EXCEPT !.OVP_stop = TRUE, !.OVP_mode = r.mode]
    BY <1>3, <1>5, OvpFieldsSound DEF Board
  <2> HIDE DEF e
  <2>2. SameStop(r, e)
    BY <1>5, <2>1, OvpFieldsSameStop DEF Board
  <2> QED BY <2>1, <2>2
<1>7. Sound(t) /\ SameStop(r, t)
  <2>1. SameStop(e, SetMode(e, "stopping"))
    BY <1>6, SetModeSameStop DEF Modes
  <2>2. SameStop(r, SetMode(e, "stopping")) /\ SameStop(r, r)
    BY <1>6, <2>1, SameStopAgain, SameStopSelf
  <2>3. SameStop(r, t)
    BY <2>2 DEF Trip
  <2>4. Sound(t)
    BY <1>3, <1>4, TripSound
  <2> QED BY <2>3, <2>4
<1> HIDE DEF t
<1>8. SameStop(t, Disconnect(t))
  BY <1>7, SevereErrorSameStop, SameStopSelf DEF Disconnect
<1>9. SameStop(b, Disconnect(t))
  BY <1>3, <1>7, <1>8, SameStopAgain
<1> QED BY <1>9 DEF OVP, r, t

LEMMA SampleSameStop ==
    ASSUME NEW b, Sound(b), NEW v \in Nat, NEW hot \in BOOLEAN,
           NEW amps \in {"low", "normal", "high"}
    PROVE  SameStop(b, Overheat(HbridgeOCP(OVP([b EXCEPT !.voltage = v]), amps), hot))
<1> DEFINE a == [b EXCEPT !.voltage = v]
           o == OVP(a)
           h == HbridgeOCP(o, amps)
<1>1. Sound(a) /\ SameStop(b, a)
  BY ReadingSound, ReadingSameStop DEF Sound
<1> HIDE DEF a
<1>2. Sound(o) /\ SameStop(a, o)
  BY <1>1, OVPSound, OVPSameStop
<1> HIDE DEF o
<1>3. Sound(h) /\ SameStop(o, h)
  BY <1>2, HbridgeOCPSound, OcpSameStop DEF Sound
<1> HIDE DEF h
<1>4. SameStop(h, Overheat(h, hot))
  BY <1>3, SevereErrorSameStop, SameStopSelf DEF Overheat
<1>5. SameStop(b, Overheat(h, hot))
  BY <1>1, <1>2, <1>3, <1>4, SameStopAgain
<1> QED BY <1>5 DEF h, o, a

LEMMA FollowEnableSameStop ==
    ASSUME NEW b, Sound(b), NEW on \in BOOLEAN
    PROVE  SameStop(b, FollowEnable(b, on))
<1>1. /\ SameStop(b, SetMode(b, "stopping")) /\ SameStop(b, SetMode(b, "const_duty"))
      /\ SameStop(b, b)
  BY SetModeSameStop, SameStopSelf DEF Modes
<1> QED BY <1>1 DEF FollowEnable

-----------------------------------------------------------------------------
(* The ramp *)

\* The constants leave a stop the time for its ramp: n steps do not reach the
\* end of it but n + 1 do, and a step waits for its period and a pass.
RampFits(n, longest) ==
    /\ PassTimes \subseteq 0 .. longest
    /\ Top <= (n + 1) * StoppingStep
    /\ n * (StoppingPeriod + longest) < StoppingTime
    /\ n * (StoppingPeriod + longest) + StoppingPeriod <= StoppingTime

\* A ramp that is not at its end has made at most n steps.
LEMMA NotAtEnd ==
    ASSUME NEW n \in Nat, NEW longest \in Nat, RampFits(n, longest),
           NEW k \in Nat, NEW d \in Byte, k * StoppingStep <= d, d # Top
    PROVE  k * (StoppingPeriod + longest) <= n * (StoppingPeriod + longest)
<1> DEFINE G == StoppingPeriod + longest
<1>1. G \in Nat /\ StoppingStep \in Nat
  OBVIOUS
<1> HIDE DEF G
<1>2. k <= n
  <2> SUFFICES ASSUME ~(k <= n) PROVE FALSE
    OBVIOUS
  <2>1. n + 1 <= k
    OBVIOUS
  <2>2. (n + 1) * StoppingStep <= k * StoppingStep
    BY <1>1, <2>1, Steps
  <2>3. (n + 1) * StoppingStep \in Nat /\ k * StoppingStep \in Nat
    BY <1>1, Steps
  <2>4. Top <= (n + 1) * StoppingStep
    BY DEF RampFits
  <2> QED BY <2>2, <2>3, <2>4
<1>3. k * G <= n * G
  BY <1>1, <1>2, Steps
<1> QED BY <1>3 DEF G

\* A step of the ramp goes up by StoppingStep or to the end.
LEMMA NextStep ==
    ASSUME NEW d \in Byte
    PROVE  NextStoppingDuty(d) \in {d + StoppingStep, Top}
BY DEF NextStoppingDuty

\* After the ramp's part of a pass the ramp is at its end, or the steps it has
\* made account for the age of the stop but for a wait below the period.
LEMMA RampBraking ==
    ASSUME NEW b, Sound(b), b.mode = "stopping", NEW longest \in Nat,
           timers.ramp \in 0 .. StoppingPeriod,
           Braking(b, timers.ramp, longest)
    PROVE  LET p == IF RampDue(b) THEN Ramp(b) ELSE b
               left == IF RampDue(b) THEN 0 ELSE timers.ramp
           IN  /\ p.mode = "stopping" /\ p.stopping_duty \in Byte
               /\ p.contactor = b.contactor /\ p.mode_age = b.mode_age
               /\ b.stopping_duty = Top => p.stopping_duty = Top
               /\ \/ p.stopping_duty = Top
                  \/ \E k \in Nat : /\ k * StoppingStep <= p.stopping_duty
                                    /\ p.mode_age <= k * (StoppingPeriod + longest) + left
               /\ ~RampDue(b) => timers.ramp < StoppingPeriod
<1> DEFINE d == NextStoppingDuty(b.stopping_duty)
           G == StoppingPeriod + longest
<1>1. /\ b \in Board /\ b.stopping_duty \in Byte /\ b.mode_age \in Nat
      /\ timers.ramp \in Nat /\ G \in Nat
  BY DEF Sound, Board
<1>2. CASE RampDue(b)
  <2>1. timers.ramp >= StoppingPeriod /\ timers.ramp = StoppingPeriod
    BY <1>1, <1>2 DEF RampDue
  <2>2. /\ Ramp(b).mode = "stopping" /\ Ramp(b).stopping_duty = d
        /\ Ramp(b).contactor = b.contactor /\ Ramp(b).mode_age = b.mode_age
    BY <1>1 DEF Ramp, HbridgeSetDuty, Board
  <2>3. d \in {b.stopping_duty + StoppingStep, Top} /\ d \in Byte /\ d >= b.stopping_duty
    BY <1>1, NextStep, NextStoppingDutyType
  <2> HIDE DEF d
  <2>4. b.stopping_duty = Top => d = Top
    BY <1>1, <2>3
  <2>5. ASSUME d # Top
        PROVE  \E k \in Nat : k * StoppingStep <= d /\ b.mode_age <= k * G + 0
    <3>1. b.stopping_duty # Top /\ d = b.stopping_duty + StoppingStep
      BY <2>3, <2>4, <2>5
    <3>2. PICK k \in Nat : /\ k * StoppingStep <= b.stopping_duty
                           /\ b.mode_age <= k * G + Waited(timers.ramp, longest)
      BY <3>1 DEF Braking, InTime
    <3>3. Waited(timers.ramp, longest) = G
      BY <2>1 DEF Waited
    <3>4. /\ k * StoppingStep \in Nat /\ (k + 1) * StoppingStep = k * StoppingStep + StoppingStep
          /\ k * G \in Nat /\ (k + 1) * G = k * G + G
      BY <1>1, Steps
    <3> HIDE DEF G
    <3>5. (k + 1) * StoppingStep <= d
      BY <1>1, <3>1, <3>2, <3>4
    <3>6. b.mode_age <= (k + 1) * G + 0
      BY <1>1, <3>2, <3>3, <3>4
    <3>7. k + 1 \in Nat
      OBVIOUS
    <3> QED BY <3>5, <3>6, <3>7
  <2> QED BY <1>2, <2>2, <2>3, <2>4, <2>5
<1>3. CASE ~RampDue(b)
  <2>1. timers.ramp < StoppingPeriod
    BY <1>1, <1>3 DEF RampDue
  <2>2. Waited(timers.ramp, longest) = timers.ramp
    BY <2>1 DEF Waited
  <2> QED BY <1>1, <1>3, <2>1, <2>2 DEF Braking, InTime
<1> QED BY <1>2, <1>3

\* Ages after a pass of dt.
LEMMA PassAges ==
    ASSUME NEW longest \in Nat, NEW dt \in 0 .. longest, NEW left \in 0 .. StoppingPeriod,
           NEW age \in 0 .. StoppingTime
    PROVE  /\ Age(age, dt, StoppingTime) \in Nat
           /\ Age(age, dt, StoppingTime) <= age + dt
           /\ age = StoppingTime => Age(age, dt, StoppingTime) = StoppingTime
           /\ Waited(Age(left, dt, StoppingPeriod), longest) \in Nat
           /\ left + dt <= Waited(Age(left, dt, StoppingPeriod), longest)
<1>1. /\ Age(age, dt, StoppingTime) \in Nat
      /\ Age(age, dt, StoppingTime) <= age + dt
      /\ age = StoppingTime => Age(age, dt, StoppingTime) = StoppingTime
  BY DEF Age, Earlier
<1>2. CASE left + dt < StoppingPeriod
  BY <1>2 DEF Age, Earlier, Waited
<1>3. CASE ~(left + dt < StoppingPeriod)
  BY <1>3 DEF Age, Earlier, Waited
<1> QED BY <1>1, <1>2, <1>3

\* What holds of the board and the timer of its ramp.
BrakesInTime(longest) == Braking(board, timers.ramp, longest)

\* The rest of loop() opens the contactor only when the ramp is at its end.
LEMMA TailBraking ==
    ASSUME IInv, NEW n \in Nat, NEW longest \in Nat, RampFits(n, longest),
           BrakesInTime(longest),
           NEW pin \in BOOLEAN, NEW fast \in BOOLEAN, NEW dt \in PassTimes,
           loop_tail(pin, fast, dt)
    PROVE  BrakesInTime(longest)'
<1> DEFINE on      == pin /\ enabled.software
           decided == FollowEnable(board, on)
           stopped == Stopping(decided, fast)
           due     == RampDue(decided)
           p       == IF due THEN Ramp(decided) ELSE decided
           left    == IF due THEN 0 ELSE timers.ramp
           G       == StoppingPeriod + longest
<1>1. /\ timers.ramp \in 0 .. StoppingPeriod /\ dt \in 0 .. longest /\ G \in Nat
      /\ on \in BOOLEAN
  BY DEF IInv, RampFits
<1>2. LET now == [enabled EXCEPT !.hardware = pin]
      IN  (now.hardware /\ now.software) = on
  BY DEF IInv
<1>3. /\ board' = [stopped EXCEPT !.mode_age = Age(stopped.mode_age, dt, StoppingTime)]
      /\ timers'.ramp = Age(left, dt, StoppingPeriod)
  BY <1>2 DEF loop_tail
<1>4. Sound(decided) /\ SameStop(board, decided)
  BY <1>1, FollowEnableSound, FollowEnableSameStop DEF IInv
<1>5. Braking(decided, timers.ramp, longest)
  <2>1. timers.ramp \in Nat /\ decided \in Board
    BY <1>1, <1>4 DEF Sound
  <2> HIDE DEF decided
  <2> QED BY <1>4, <2>1, SameStopBraking DEF BrakesInTime
<1> HIDE DEF decided, G, on
<1>6. Sound(stopped) /\ stopped.mode = decided.mode
  BY <1>4, StoppingSound
<1>7. CASE decided.mode # "stopping"
  <2>1. stopped \in Board
    BY <1>6 DEF Sound
  <2>2. board'.mode # "stopping"
    BY <1>3, <1>6, <1>7, <2>1 DEF Board
  <2> QED BY <2>2 DEF BrakesInTime, Braking
<1>8. CASE decided.mode = "stopping"
  <2>1. /\ p.mode = "stopping" /\ p.stopping_duty \in Byte
        /\ p.contactor = decided.contactor /\ p.mode_age = decided.mode_age
        /\ decided.stopping_duty = Top => p.stopping_duty = Top
        /\ \/ p.stopping_duty = Top
           \/ \E k \in Nat : /\ k * StoppingStep <= p.stopping_duty
                             /\ p.mode_age <= k * G + left
        /\ ~due => timers.ramp < StoppingPeriod
    BY <1>1, <1>4, <1>5, <1>8, RampBraking DEF G
  <2>2. p \in Board /\ p.mode_age \in 0 .. StoppingTime
    BY <1>4, <1>8, RampSound DEF Sound, Board
  <2>3. stopped = StopByContactor(p, fast)
    BY <1>8 DEF Stopping
  <2>4. left \in 0 .. StoppingPeriod /\ (left = 0 \/ left < StoppingPeriod)
    BY <1>1, <2>1
  <2> HIDE DEF stopped, p, due, left
  <2>5. p.stopping_duty # Top => p.mode_age < StoppingTime
    <3> SUFFICES ASSUME p.stopping_duty # Top PROVE p.mode_age < StoppingTime
      OBVIOUS
    <3>1. PICK k \in Nat : /\ k * StoppingStep <= p.stopping_duty
                           /\ p.mode_age <= k * G + left
      BY <2>1
    <3>2. k * G <= n * G
      BY <2>1, <3>1, NotAtEnd DEF G
    <3>3. k * G \in Nat /\ n * G \in Nat
      BY <1>1, Steps
    <3>4. n * G < StoppingTime /\ n * G + StoppingPeriod <= StoppingTime
      BY DEF RampFits, G
    <3> QED BY <2>2, <2>4, <3>1, <3>2, <3>3, <3>4
  <2>6. /\ stopped.mode = "stopping" /\ stopped.stopping_duty = p.stopping_duty
        /\ stopped.mode_age = p.mode_age
        /\ stopped.contactor = p.contactor \/ p.mode_age >= StoppingTime
    BY <2>1, <2>2, <2>3 DEF StopByContactor, Board
  <2>7. /\ board'.mode = "stopping" /\ board'.stopping_duty = p.stopping_duty
        /\ board'.mode_age = Age(p.mode_age, dt, StoppingTime)
        /\ board'.contactor = stopped.contactor
    <3>1. stopped \in Board
      BY <1>6 DEF Sound
    <3> QED BY <1>3, <2>6, <3>1 DEF Board
  <2>8. /\ Age(p.mode_age, dt, StoppingTime) \in Nat
        /\ Age(p.mode_age, dt, StoppingTime) <= p.mode_age + dt
        /\ p.mode_age = StoppingTime => Age(p.mode_age, dt, StoppingTime) = StoppingTime
        /\ Waited(timers'.ramp, longest) \in Nat
        /\ left + dt <= Waited(timers'.ramp, longest)
    BY <1>1, <1>3, <2>2, <2>4, PassAges
  <2>9. board'.contactor \/ (board'.mode_age = StoppingTime /\ board'.stopping_duty = Top)
    <3>1. CASE p.mode_age = StoppingTime
      <4>1. p.stopping_duty = Top
        BY <2>5, <3>1
      <4> QED BY <2>7, <2>8, <3>1, <4>1
    <3>2. CASE p.mode_age # StoppingTime
      <4>1. ~(p.mode_age >= StoppingTime)
        BY <2>2, <3>2
      <4>2. board'.contactor = decided.contactor
        BY <2>1, <2>6, <2>7, <4>1
      <4>3. decided.contactor
        BY <1>5, <1>8, <2>1, <3>2 DEF Braking
      <4> QED BY <4>2, <4>3
    <3> QED BY <3>1, <3>2
  <2>10. ASSUME board'.stopping_duty # Top
         PROVE  InTime(board'.stopping_duty, board'.mode_age, timers'.ramp, longest)
    <3>1. PICK k \in Nat : /\ k * StoppingStep <= p.stopping_duty
                           /\ p.mode_age <= k * G + left
      BY <2>1, <2>7, <2>10
    <3>2. k * G \in Nat /\ left \in Nat /\ dt \in Nat /\ p.mode_age \in Nat
      BY <1>1, <2>2, <2>4, Steps
    <3>3. board'.mode_age <= k * G + Waited(timers'.ramp, longest)
      BY <2>7, <2>8, <3>1, <3>2
    <3>4. k * StoppingStep <= board'.stopping_duty
      BY <2>7, <3>1
    <3> QED BY <3>1, <3>3, <3>4 DEF InTime, G
  <2> QED BY <2>9, <2>10 DEF BrakesInTime, Braking
<1> QED BY <1>7, <1>8

\* Every other step leaves the stop alone, ends it or begins a new one.
LEMMA StepBraking ==
    ASSUME IInv, IInv', [Next]_vars,
           NEW n \in Nat, NEW longest \in Nat, RampFits(n, longest),
           BrakesInTime(longest)
    PROVE  BrakesInTime(longest)'
<1>0. timers.ramp \in Nat /\ board \in Board /\ board' \in Board
  BY DEF IInv, Sound
<1>1. ASSUME SameStop(board, board'), timers'.ramp = timers.ramp
      PROVE  BrakesInTime(longest)'
  BY <1>0, <1>1, SameStopBraking DEF BrakesInTime
<1>2. ASSUME NEW v \in Voltages, NEW amps \in {"low", "normal", "high"},
             NEW hot \in BOOLEAN, ADC_sample(v, amps, hot)
      PROVE  BrakesInTime(longest)'
  <2>1. SameStop(board, board')
    BY <1>2, SampleSameStop DEF ADC_sample, IInv
  <2>2. timers'.ramp = timers.ramp
    BY <1>2 DEF ADC_sample, IInv
  <2> QED BY <1>1, <2>1, <2>2
<1>3. ASSUME NEW d \in CommandDuties, cmnd_duty(d)
      PROVE  BrakesInTime(longest)'
  <2>1. SameStop(board, board')
    BY <1>0, <1>3, SetDutySameStop DEF cmnd_duty
  <2>2. timers'.ramp = timers.ramp
    BY <1>3 DEF cmnd_duty, IInv
  <2> QED BY <1>1, <2>1, <2>2
<1>4. ASSUME NEW m \in Modes \cup {"start"}, cmnd_mode(m)
      PROVE  BrakesInTime(longest)'
  BY <1>1, <1>4, SetModeSameStop DEF cmnd_mode, IInv
<1>5. ASSUME NEW value \in {"RESET", "WDT_TEST"}, cmnd_command(value)
      PROVE  BrakesInTime(longest)'
  BY <1>1, <1>5, SevereErrorSameStop DEF cmnd_command, IInv
<1>6. CASE uart_loop_end
  BY <1>1, <1>6, SevereErrorSameStop, SameStopSelf DEF uart_loop_end, CommsTimeout, IInv
<1>7. ASSUME NEW pin \in BOOLEAN, NEW fast \in BOOLEAN, NEW dt \in PassTimes,
             loop_tail(pin, fast, dt)
      PROVE  BrakesInTime(longest)'
  BY <1>7, TailBraking
<1>8. ASSUME NEW fault \in BOOLEAN, Boot(fault)
      PROVE  BrakesInTime(longest)'
  BY <1>8, BootedSound DEF Boot, BrakesInTime, Braking
<1>9. CASE WatchdogReset \/ PowerCycle
  <2>1. PICK fault \in BOOLEAN : Boot(fault)
    BY <1>9 DEF WatchdogReset, PowerCycle, IInv
  <2> QED BY <1>8, <2>1
<1>10. CASE UNCHANGED <<board, timers>>
  BY <1>1, <1>10, SameStopSelf
<1>11. CASE ADC_skip \/ \E on \in BOOLEAN : cmnd_enable(on)
  BY <1>10, <1>11 DEF ADC_skip, cmnd_enable
<1> QED
  BY <1>2, <1>3, <1>4, <1>5, <1>6, <1>7, <1>9, <1>10, <1>11 DEF Next, vars

\* The contactor opens under a braking turbine only when the bridge brakes at
\* full duty, whatever OVP, the enable input, slow passes and repeated stops do,
\* provided the ramp fits into the time of a stop: with the code's constants it
\* does, 12 steps (20 each, of 255) of 150 ms and a pass below the watchdog's
\* second in 20 s (loop).
THEOREM ContactorComesLast ==
    ASSUME NEW n \in Nat, NEW longest \in Nat, RampFits(n, longest)
    PROVE  Spec => []ContactorIsLastResort
<1>1. Init => BrakesInTime(longest)
  BY BootedSound DEF Init, BrakesInTime, Braking
<1>2. IInv /\ IInv' /\ BrakesInTime(longest) /\ [Next]_vars => BrakesInTime(longest)'
  BY StepBraking
<1>3. IInv /\ BrakesInTime(longest) => ContactorIsLastResort
  BY DEF IInv, Sound, Requested, BrakesInTime, Braking, ContactorIsLastResort
<1> QED
  BY <1>1, <1>2, <1>3, Inductive, PTL DEF Spec

-----------------------------------------------------------------------------
(* Resets *)

\* The marker stands only from the reset command to the reset it asked for.
MarkedForReset == marker => pc = "reset_loop"

LEMMA MarkerSteps ==
    MarkedForReset /\ [Next]_vars /\ [PowerCycle => ~marker]_vars => MarkedForReset'
<1> SUFFICES ASSUME MarkedForReset, [Next]_vars, [PowerCycle => ~marker]_vars
             PROVE  MarkedForReset'
  OBVIOUS
<1>1. CASE WatchdogReset
  BY <1>1 DEF WatchdogReset, MarkedForReset
<1>2. CASE PowerCycle
  <2>1. vars' # vars => ~marker'
    BY <1>2 DEF PowerCycle
  <2> QED BY <2>1 DEF MarkedForReset, vars
<1>3. CASE \E value \in {"RESET", "WDT_TEST"} : cmnd_command(value)
  BY <1>3 DEF cmnd_command, MarkedForReset
<1>4. ASSUME pc # "reset_loop", marker' = marker
      PROVE  MarkedForReset'
  BY <1>4 DEF MarkedForReset
<1>5. CASE \/ \E v \in Voltages, amps \in {"low", "normal", "high"}, hot \in BOOLEAN :
                 ADC_sample(v, amps, hot)
           \/ ADC_skip
           \/ \E d \in CommandDuties : cmnd_duty(d)
           \/ \E m \in Modes \cup {"start"} : cmnd_mode(m)
           \/ \E on \in BOOLEAN : cmnd_enable(on)
           \/ uart_loop_end
           \/ \E pin, fast \in BOOLEAN, dt \in PassTimes : loop_tail(pin, fast, dt)
  BY <1>4, <1>5
  DEF ADC_sample, ADC_skip, cmnd_duty, cmnd_mode, cmnd_enable, uart_loop_end, loop_tail
<1>6. CASE UNCHANGED vars
  BY <1>6 DEF vars, MarkedForReset
<1> QED BY <1>1, <1>2, <1>3, <1>5, <1>6 DEF Next

\* Finding 1 needs a power cut: as long as none comes between a reset command
\* and its reset, every watchdog reset that no command asked for is reported
\* and stops the board (main.cpp:142-153).
THEOREM UnexpectedResetsReported ==
    Spec /\ [][PowerCycle => ~marker]_vars => UnexpectedResetReported
<1>1. Init => MarkedForReset
  BY DEF Init, MarkedForReset
<1>2. ASSUME MarkedForReset, WatchdogReset, pc = "test_loop"
      PROVE  board'.emergency
  <2>1. board' = Booted(TRUE)
    BY <1>2 DEF MarkedForReset, WatchdogReset, Boot
  <2>2. SevereError(Globals).emergency
    BY GlobalsSound, SevereErrorSound
  <2> QED BY <2>1, <2>2 DEF Booted
<1> QED BY <1>1, <1>2, MarkerSteps, PTL DEF Spec, UnexpectedResetReported
=============================================================================
