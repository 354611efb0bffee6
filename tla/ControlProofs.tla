--------------------------- MODULE ControlProofs ----------------------------
(***************************************************************************)
(* Proofs about Control for all values of its constants.  Every function   *)
(* of control.cpp is an operator on the record ctl: what each keeps and    *)
(* guarantees is a lemma, and a step of the main loop composes them.       *)
(* ControlSystem is shown to implement both of its parts, which carries    *)
(* what is proved of them over to the two boards together.                 *)
(***************************************************************************)
EXTENDS ControlSystem, TLAPS

USE ControlAssumption

Sound(c) ==
    /\ c \in Ctl
    /\ c.strategy = "emergency" => ~c.PIN_EMERGENCY
    /\ c.PIN_EMERGENCY => c.contactor_state

\* What a call of the HAL by anybody leaves alone: the timers, and the contactor
\* may only be released.
Keeps(c, d) ==
    /\ d.contactor_age = c.contactor_age /\ d.estop_age = c.estop_age
    /\ d.MQTT_age = c.MQTT_age /\ d.prev_estop = c.prev_estop
    /\ d.PIN_EMERGENCY => c.PIN_EMERGENCY

\* A contactor found open is being timed by control_loop for at least as long.
Timed ==
    watch.open # NotSince => ctl.prev_estop /\ watch.open <= ctl.estop_age

IInv ==
    /\ TypeOK
    /\ Sound(ctl)
    /\ ContactorExpires /\ StatusFresh /\ OpenContactorTrips /\ MqttMuteStops
    /\ Timed

-----------------------------------------------------------------------------
(* control.cpp *)

\* A step begins with nothing sent.
LEMMA QuietSound ==
    ASSUME NEW c, Sound(c)
    PROVE  /\ Sound(Quiet(c)) /\ Keeps(c, Quiet(c))
           /\ Quiet(c).strategy = c.strategy
<1>1. <<>> \in Seq(Commands)
  OBVIOUS
<1> QED
  BY <1>1 DEF Quiet, Sound, Keeps, Ctl

\* power_board_set_mode only sends.
LEMMA SendSound ==
    ASSUME NEW c, Sound(c), NEW m \in Commands
    PROVE  LET d == power_board_set_mode(c, m)
           IN  /\ Sound(d) /\ Keeps(c, d) /\ d.strategy = c.strategy
               /\ d.sent = Append(c.sent, m)
<1>1. c.sent \in Seq(Commands) /\ Append(c.sent, m) \in Seq(Commands)
  BY DEF Sound, Ctl
<1> QED
  BY <1>1 DEF power_board_set_mode, Sound, Keeps, Ctl

\* control_set_strategy leaves no driven contactor in control_emergency.
LEMMA SetStrategySound ==
    ASSUME NEW c, Sound(c), NEW s \in Strategies
    PROVE  LET d == SetStrategy(c, s)
           IN  /\ Sound(d) /\ Keeps(c, d) /\ d.strategy = s
               /\ s = "emergency" => /\ ~d.PIN_EMERGENCY
                                     /\ d.sent = Append(c.sent, "emergency")
<1>1. CASE s = "emergency"
  <2> DEFINE d == power_board_set_mode(c, s)
  <2>1. Sound(d) /\ Keeps(c, d) /\ d.sent = Append(c.sent, "emergency")
    BY <1>1, SendSound DEF Commands, BoardModes
  <2>2. SetStrategy(c, s) = [d EXCEPT !.contactor_state = FALSE,
                               !.PIN_EMERGENCY = FALSE, !.strategy = s]
    BY <1>1 DEF SetStrategy
  <2> HIDE DEF d
  <2> QED
    BY <1>1, <2>1, <2>2 DEF Sound, Keeps, Ctl
<1>2. CASE s # "emergency"
  BY <1>2 DEF SetStrategy, Sound, Keeps, Ctl
<1> QED
  BY <1>1, <1>2

\* control_new_state: a lost status and a mute MQTT end the strategy.
LEMMA NewStateSound ==
    ASSUME NEW c, Sound(c), NEW st \in Status
    PROVE  LET d == NewState(c, st)
           IN  /\ Sound(d) /\ Keeps(c, d)
               /\ ~(d.strategy = "MQTT" /\ d.MQTT_age >= MqttTimeout)
               /\ ~st.valid => d.strategy = "emergency" /\ ~d.PIN_EMERGENCY
<1> DEFINE k == LostStatus(c, st.valid)
<1>1. /\ Sound(k) /\ Keeps(c, k)
      /\ ~st.valid => k.strategy = "emergency"
  BY SetStrategySound DEF LostStatus, Keeps, Strategies
<1>2. "emergency" \in Commands /\ "emergency" \in Strategies
  BY DEF Commands, BoardModes, Strategies
<1> HIDE DEF k
<1>3. CASE k.strategy = "emergency"
  <2> DEFINE d == power_board_set_mode(k, "emergency")
  <2>1. NewState(c, st) \in {k, d}
    BY <1>3 DEF NewState, MqttExpired, k
  <2>2. Sound(d) /\ Keeps(k, d) /\ d.strategy = "emergency"
    BY <1>1, <1>2, <1>3, SendSound
  <2> HIDE DEF d
  <2>3. Keeps(c, d) /\ ~d.PIN_EMERGENCY /\ ~k.PIN_EMERGENCY
    BY <1>1, <1>3, <2>2 DEF Sound, Keeps
  <2>4. CASE NewState(c, st) = k
    BY <1>1, <1>3, <2>3, <2>4
  <2>5. CASE NewState(c, st) = d
    BY <2>2, <2>3, <2>5
  <2> QED
    BY <2>1, <2>4, <2>5
<1>4. CASE k.strategy # "emergency" /\ MqttExpired(k)
  <2> DEFINE d == SetStrategy(k, "emergency")
  <2>1. NewState(c, st) = d
    BY <1>4 DEF NewState, k
  <2>2. Sound(d) /\ Keeps(k, d) /\ d.strategy = "emergency" /\ ~d.PIN_EMERGENCY
    BY <1>1, <1>2, SetStrategySound
  <2> HIDE DEF d
  <2> QED
    BY <1>1, <2>1, <2>2 DEF Keeps
<1>5. CASE k.strategy # "emergency" /\ ~MqttExpired(k)
  <2>1. NewState(c, st) = k
    BY <1>5 DEF NewState, k
  <2> QED
    BY <1>1, <1>5, <2>1 DEF MqttExpired
<1> QED
  BY <1>3, <1>4, <1>5

\* When the status is lost, a power board that may be running is told to stop.
Says(c, m) == m \in {c.sent[i] : i \in 1 .. Len(c.sent)}

LEMMA LostSays ==
    ASSUME NEW c, Sound(c), NEW st \in Status, ~st.valid,
           c.strategy # "emergency" \/ st.mode # "emergency"
    PROVE  Says(NewState(c, st), "emergency")
<1>0. "emergency" \in Commands /\ "emergency" \in Strategies
  BY DEF Commands, BoardModes, Strategies
<1>1. ASSUME NEW d, Sound(d), NEW e, e.sent = Append(d.sent, "emergency")
      PROVE  Says(e, "emergency")
  <2>1. d.sent \in Seq(Commands)
    BY <1>1 DEF Sound, Ctl
  <2>2. Len(e.sent) = Len(d.sent) + 1 /\ e.sent[Len(d.sent) + 1] = "emergency"
    BY <1>0, <1>1, <2>1
  <2> QED
    BY <2>1, <2>2 DEF Says
<1> DEFINE k == LostStatus(c, st.valid)
<1>2. /\ Sound(k) /\ k.strategy = "emergency"
      /\ c.strategy # "emergency" => Says(k, "emergency")
  BY <1>0, <1>1, SetStrategySound DEF LostStatus
<1> DEFINE d == power_board_set_mode(k, "emergency")
<1>3. Says(d, "emergency")
  BY <1>0, <1>1, <1>2, SendSound
<1>4. NewState(c, st) = IF st.mode # "emergency" THEN d ELSE k
  BY <1>2 DEF NewState, MqttExpired
<1> HIDE DEF k, d
<1> QED
  BY <1>2, <1>3, <1>4

\* What control_loop does to a sound record: the contactor is driven only for a
\* request younger than Debounce, and a trip condition that lasts is either
\* still being timed from its beginning or has ended the strategy.
LEMMA ControlledSound ==
    ASSUME NEW c, Sound(c), NEW m, NEW sense \in BOOLEAN
    PROVE  LET d == Controlled(c, m, sense)
           IN  /\ Sound(d)
               /\ d.contactor_age = c.contactor_age /\ d.MQTT_age = c.MQTT_age
               /\ d.PIN_EMERGENCY => c.contactor_age < Debounce
               /\ Estop(d, m, sense) =>
                    /\ d.prev_estop
                    /\ c.prev_estop => d.estop_age = c.estop_age
                                       /\ c.estop_age < EstopDelay
<1> DEFINE held    == ContactorHeld(c)
           driven  == [c EXCEPT !.contactor_state = held,
                         !.PIN_EMERGENCY = held /\ c.strategy # "emergency"]
           estop   == Estop(driven, m, sense)
           late    == c.prev_estop /\ c.estop_age >= EstopDelay
           tripped == IF late THEN SetStrategy(driven, "emergency") ELSE driven
           age     == EstopAge(c, estop)
           d       == [tripped EXCEPT !.prev_estop = estop, !.estop_age = age]
<1>1. /\ held \in BOOLEAN /\ c \in Ctl
      /\ held => c.contactor_age < Debounce
  BY DEF ContactorHeld, Sound, Ctl
<1> HIDE DEF held
<1>2. /\ Sound(driven) /\ driven.contactor_age = c.contactor_age
      /\ driven.MQTT_age = c.MQTT_age
      /\ driven.PIN_EMERGENCY => held
  BY <1>1 DEF Sound, Ctl
<1> HIDE DEF driven
<1>3. estop \in BOOLEAN
  BY DEF Estop
<1>4. age \in 0 .. EstopDelay
  BY <1>1, <1>3 DEF EstopAge, Ctl
<1>5. c.prev_estop => age = c.estop_age
  BY <1>1 DEF EstopAge, Ctl
<1> HIDE DEF age
<1>6. /\ Sound(tripped) /\ Keeps(driven, tripped)
      /\ late => tripped.strategy = "emergency"
  <2>1. Keeps(driven, driven)
    BY DEF Keeps
  <2> QED
    BY <1>2, <2>1, SetStrategySound DEF Strategies
<1>7. ~late => tripped = driven
  OBVIOUS
<1> HIDE DEF tripped
<1>8. /\ Sound(d) /\ d.prev_estop = estop /\ d.estop_age = age
      /\ d.contactor_age = tripped.contactor_age
      /\ d.MQTT_age = tripped.MQTT_age
      /\ d.PIN_EMERGENCY = tripped.PIN_EMERGENCY
      /\ d.strategy = tripped.strategy
      /\ d.contactor_state = tripped.contactor_state
  BY <1>3, <1>4, <1>6 DEF Sound, Ctl
<1>9. Controlled(c, m, sense) = d
  BY DEF Controlled, held, driven, tripped, age
<1>10. Estop(d, m, sense) => ~late /\ estop
  BY <1>6, <1>7, <1>8 DEF Estop
<1>11. Estop(d, m, sense) /\ c.prev_estop =>
         d.estop_age = c.estop_age /\ c.estop_age < EstopDelay
  BY <1>1, <1>5, <1>8, <1>10 DEF Ctl
<1> HIDE DEF d
<1> QED
  BY <1>1, <1>2, <1>6, <1>8, <1>9, <1>10, <1>11 DEF Keeps

-----------------------------------------------------------------------------
(* The main loop *)

\* Capping keeps an age in its range and in step with another (millis).
LEMMA AgeType ==
    ASSUME NEW cap \in Nat, NEW age \in 0 .. cap, NEW dt \in Nat
    PROVE  Age(age, dt, cap) \in 0 .. cap
BY DEF Age, Earlier

\* Of two ages the older stays the older.
LEMMA AgeMonotone ==
    ASSUME NEW cap \in Nat, NEW a \in 0 .. cap, NEW b \in 0 .. cap,
           NEW dt \in Nat, a <= b
    PROVE  Age(a, dt, cap) <= Age(b, dt, cap)
BY DEF Age, Earlier

\* The history of a mute MQTT strategy starts at 0 and keeps its type.
LEMMA MuteType ==
    ASSUME NEW c, NEW since \in {NotSince} \cup Nat
    PROVE  /\ Mute(c, since) \in {NotSince} \cup Nat
           /\ Mute(c, since) \in {NotSince, 0, since}
           /\ ~(c.strategy = "MQTT" /\ c.MQTT_age >= MqttTimeout) =>
                Mute(c, since) = NotSince
BY DEF Mute, NotSince

\* Everything holds when setup() is done.
LEMMA InitIInv == Init => IInv
<1>1. BootCtl \in Ctl
  <2>1. <<"emergency">> \in Seq(Commands)
    BY DEF Commands, BoardModes
  <2> QED
    BY <2>1 DEF BootCtl, Ctl, Strategies
<1>2. BootStatus \in Status /\ BootWatch \in Watch
  BY DEF BootStatus, BootWatch, Status, Watch, ModeCodes, BoardModes
<1>3. Sound(BootCtl)
  BY <1>1 DEF Sound, BootCtl
<1> QED
  BY <1>1, <1>2, <1>3
  DEF Init, IInv, TypeOK, BootCtl, BootStatus, BootWatch, ContactorExpires,
      StatusFresh, OpenContactorTrips, MqttMuteStops, Timed, NotSince,
      ModeCodes, BoardModes

\* A step that only lets somebody call the HAL.
LEMMA HalStep ==
    ASSUME IInv, NEW c, Sound(c), ctl' = c,
           c.estop_age = ctl.estop_age, c.prev_estop = ctl.prev_estop,
           c.PIN_EMERGENCY => ctl.PIN_EMERGENCY,
           c.contactor_age \in {0, ctl.contactor_age},
           watch' = [watch EXCEPT !.mute = Mute(c, @)],
           UNCHANGED <<pc, status, rx>>
    PROVE  IInv'
<1>1. /\ ctl \in Ctl /\ watch \in Watch /\ status \in Status
      /\ watch.mute \in {NotSince} \cup Nat
  BY DEF IInv, TypeOK, Watch
<1> DEFINE mute == Mute(c, watch.mute)
<1>2. /\ mute \in {NotSince} \cup Nat
      /\ mute \in {NotSince, 0, watch.mute}
  BY <1>1, MuteType
<1> HIDE DEF mute
<1>3. watch' = [watch EXCEPT !.mute = mute]
  BY DEF mute
<1>4. /\ watch' \in Watch /\ watch'.mute = mute /\ watch'.open = watch.open
      /\ watch'.unchecked = watch.unchecked
  BY <1>1, <1>2, <1>3 DEF Watch
<1>5. TypeOK'
  BY <1>4 DEF IInv, TypeOK, Sound
<1>6. ContactorExpires'
  BY <1>1 DEF IInv, ContactorExpires, Ctl
<1>7. StatusFresh' /\ OpenContactorTrips' /\ Timed'
  BY <1>4 DEF IInv, StatusFresh, OpenContactorTrips, Timed
<1>8. MqttMuteStops'
  BY <1>1, <1>2, <1>4 DEF IInv, MqttMuteStops, Status, NotSince
<1> QED
  BY <1>5, <1>6, <1>7, <1>8 DEF IInv

\* A new status: young, and answered for by control_new_state.
LEMMA StatusStep ==
    ASSUME IInv, pc = "uart", NEW st \in Status, NEW report \in BOOLEAN,
           st.valid => st.age = 0,
           TakeStatus(st, report), rx' \in ModeCodes
    PROVE  IInv'
<1> DEFINE c == NewState(Quiet(ctl), st)
<1>1. /\ Sound(Quiet(ctl)) /\ Keeps(ctl, Quiet(ctl))
      /\ ctl \in Ctl /\ watch \in Watch
      /\ watch.mute \in {NotSince} \cup Nat
  BY QuietSound DEF IInv, TypeOK, Watch
<1>2. /\ Sound(c) /\ Keeps(Quiet(ctl), c)
      /\ ~(c.strategy = "MQTT" /\ c.MQTT_age >= MqttTimeout)
  BY <1>1, NewStateSound
<1>3. ctl' = c /\ status' = st
      /\ watch' = [watch EXCEPT !.mute = Mute(c, @), !.unchecked = 0,
                                !.reported = @ \/ report]
  BY DEF TakeStatus
<1> HIDE DEF c
<1>4. Mute(c, watch.mute) = NotSince
  BY <1>1, <1>2, MuteType
<1>5. /\ watch' \in Watch /\ watch'.mute = NotSince /\ watch'.open = watch.open
      /\ watch'.unchecked = 0
  BY <1>1, <1>3, <1>4 DEF Watch
<1>6. pc' \in {"lisp", "control"}
  BY DEF TakeStatus
<1>7. TypeOK'
  BY <1>2, <1>3, <1>5, <1>6 DEF TypeOK, Sound
<1>8. StatusFresh' /\ MqttMuteStops'
  BY <1>3, <1>5 DEF StatusFresh, MqttMuteStops, Status, NotSince
<1>9. Timed'
  BY <1>1, <1>2, <1>3, <1>5 DEF IInv, Timed, Keeps
<1> QED
  BY <1>2, <1>3, <1>6, <1>7, <1>8, <1>9
  DEF IInv, ContactorExpires, OpenContactorTrips

\* The pass of control_loop.
LEMMA LoopStep ==
    ASSUME IInv, NEW sense \in BOOLEAN, control_loop(sense)
    PROVE  IInv'
<1> DEFINE q == Quiet(ctl)
           c == Controlled(q, status.mode, sense)
           open == IF ~Estop(c, status.mode, sense) THEN NotSince
                   ELSE IF watch.open = NotSince THEN 0 ELSE watch.open
           mute == Mute(c, watch.mute)
<1>1. /\ Sound(q) /\ Keeps(ctl, q) /\ q \in Ctl
      /\ watch \in Watch /\ status \in Status
      /\ watch.mute \in {NotSince} \cup Nat
      /\ watch.open \in {NotSince} \cup (0 .. EstopDelay)
  BY QuietSound DEF IInv, TypeOK, Watch, Sound
<1> HIDE DEF q
<1>2. /\ Sound(c) /\ c \in Ctl /\ c.contactor_age = q.contactor_age
      /\ c.PIN_EMERGENCY => q.contactor_age < Debounce
      /\ Estop(c, status.mode, sense) =>
           /\ c.prev_estop
           /\ q.prev_estop => c.estop_age = q.estop_age /\ q.estop_age < EstopDelay
  BY <1>1, ControlledSound DEF Sound
<1>3. /\ ctl' = c /\ pc' = "CLI" /\ UNCHANGED <<status, rx>>
      /\ watch' = [watch EXCEPT !.open = open, !.mute = mute]
  BY DEF control_loop, q
<1> HIDE DEF c
<1>4. /\ mute \in {NotSince} \cup Nat
      /\ mute \in {NotSince, 0, watch.mute}
  BY <1>1, MuteType
<1> HIDE DEF mute
<1>5. /\ open \in {NotSince} \cup (0 .. EstopDelay) /\ open < EstopDelay
      /\ open # NotSince => c.prev_estop /\ open <= c.estop_age
  BY <1>1, <1>2 DEF IInv, Timed, Keeps, NotSince, Ctl
<1> HIDE DEF open
<1>6. /\ watch' \in Watch /\ watch'.open = open /\ watch'.mute = mute
      /\ watch'.unchecked = watch.unchecked
  BY <1>1, <1>3, <1>4, <1>5 DEF Watch
<1>7. TypeOK'
  BY <1>2, <1>3, <1>6 DEF IInv, TypeOK
<1>8. ContactorExpires' /\ OpenContactorTrips' /\ Timed'
  BY <1>2, <1>3, <1>5, <1>6 DEF ContactorExpires, OpenContactorTrips, Timed
<1>9. StatusFresh'
  BY <1>3, <1>6 DEF IInv, StatusFresh
<1>10. MqttMuteStops'
  BY <1>1, <1>3, <1>4, <1>6 DEF IInv, MqttMuteStops, Status, NotSince
<1> QED
  BY <1>2, <1>3, <1>7, <1>8, <1>9, <1>10 DEF IInv

\* Wherever the loop is held up, all ages grow together.
LEMMA TimeStep ==
    ASSUME IInv, NEW q, Sound(q), Keeps(ctl, q), NEW dt \in PassTimes,
           TimePasses(q, dt), pc' \in {"uart", "control", "MQTT"}
    PROVE  IInv'
<1> DEFINE c == [q EXCEPT !.contactor_age = Age(@, dt, Debounce),
                          !.estop_age = Age(@, dt, EstopDelay),
                          !.MQTT_age = Age(@, dt, MqttTimeout)]
           age  == AgeWhile(status.valid, status.age, dt)
           open == AgeSince(watch.open, dt, EstopDelay)
           aged == AgeWhile(status.valid, watch.mute, dt)
           mute == Mute(c, aged)
<1>1. /\ q \in Ctl
      /\ watch \in Watch /\ status \in Status /\ dt \in Nat
      /\ watch.mute \in {NotSince} \cup Nat
      /\ watch.open \in {NotSince} \cup (0 .. EstopDelay)
      /\ watch.unchecked \in Nat /\ status.age \in Nat
  BY DEF IInv, TypeOK, Watch, Sound, Status
<1>2. /\ Age(q.contactor_age, dt, Debounce) \in 0 .. Debounce
      /\ Age(q.estop_age, dt, EstopDelay) \in 0 .. EstopDelay
      /\ Age(q.MQTT_age, dt, MqttTimeout) \in 0 .. MqttTimeout
  BY <1>1, AgeType DEF Ctl
<1>3. /\ Sound(c) /\ c.prev_estop = q.prev_estop
      /\ c.estop_age = Age(q.estop_age, dt, EstopDelay)
  BY <1>1, <1>2 DEF Sound, Ctl
<1>4. /\ open \in {NotSince} \cup (0 .. EstopDelay)
      /\ open # NotSince => c.prev_estop /\ open <= c.estop_age
  <2>1. CASE watch.open = NotSince
    BY <2>1 DEF AgeSince
  <2>2. CASE watch.open # NotSince
    <3>1. /\ watch.open \in 0 .. EstopDelay /\ q.estop_age \in 0 .. EstopDelay
          /\ q.prev_estop /\ watch.open <= q.estop_age
      BY <1>1, <2>2 DEF IInv, Timed, Keeps, Ctl
    <3>2. open = Age(watch.open, dt, EstopDelay)
      BY <2>2 DEF AgeSince
    <3> HIDE DEF open
    <3> QED
      BY <1>1, <1>3, <3>1, <3>2, AgeType, AgeMonotone
  <2> QED
    BY <2>1, <2>2
<1>5. /\ age \in Nat /\ aged \in {NotSince} \cup Nat
      /\ status.valid => age = status.age + dt /\ aged <= age
  BY <1>1 DEF IInv, MqttMuteStops, AgeWhile, NotSince
<1>6. /\ ctl' = c /\ UNCHANGED rx
      /\ status' = [status EXCEPT !.age = age]
      /\ watch' = [watch EXCEPT !.open = open, !.mute = mute, !.unchecked = @ + dt]
  BY DEF TimePasses
<1> HIDE DEF c, age, open, aged
<1>7. /\ mute \in {NotSince} \cup Nat
      /\ mute \in {NotSince, 0, aged}
  BY <1>5, MuteType
<1> HIDE DEF mute
<1>8. /\ watch' \in Watch /\ watch'.open = open /\ watch'.mute = mute
      /\ watch'.unchecked = watch.unchecked + dt
  <2> DEFINE since == watch.unchecked + dt
  <2>1. since \in Nat
    BY <1>1
  <2>2. watch' = [watch EXCEPT !.open = open, !.mute = mute, !.unchecked = since]
    BY <1>6
  <2> HIDE DEF since
  <2>3. /\ watch' \in Watch /\ watch'.open = open /\ watch'.mute = mute
        /\ watch'.unchecked = since
    BY <1>1, <1>4, <1>7, <2>1, <2>2 DEF Watch
  <2> QED
    BY <2>3 DEF since
<1>9. status' \in Status /\ status'.valid = status.valid /\ status'.age = age
  BY <1>1, <1>5, <1>6 DEF Status
<1>10. TypeOK' /\ Timed'
  BY <1>3, <1>4, <1>6, <1>8, <1>9 DEF IInv, TypeOK, Timed, Sound
<1>11. MqttMuteStops'
  BY <1>5, <1>7, <1>8, <1>9 DEF MqttMuteStops, NotSince
<1>12. StatusFresh'
  BY <1>1, <1>5, <1>8, <1>9 DEF IInv, StatusFresh
<1> QED
  BY <1>3, <1>6, <1>10, <1>11, <1>12
  DEF IInv, ContactorExpires, OpenContactorTrips

\* Every call of the HAL by a user.
LEMMA UserIInv ==
    ASSUME IInv, UserStep
    PROVE  IInv'
<1> DEFINE q == Quiet(ctl)
<1>1. Sound(q) /\ Keeps(ctl, q) /\ UserModes \subseteq Commands
  BY QuietSound DEF IInv, Commands, BoardModes
<1> HIDE DEF q
<1>2. ASSUME NEW c, Sound(c), Keeps(ctl, c), ChangeCtl(c),
             UNCHANGED <<pc, status, rx>>
      PROVE  IInv'
  BY <1>2, HalStep DEF ChangeCtl, Keeps
<1>3. ASSUME NEW s \in Strategies
      PROVE  Sound(SetStrategy(q, s)) /\ Keeps(ctl, SetStrategy(q, s))
  BY <1>1, SetStrategySound DEF Keeps
<1>4. ASSUME NEW m \in UserModes
      PROVE  /\ Sound(power_board_set_mode(q, m))
             /\ Keeps(ctl, power_board_set_mode(q, m))
  BY <1>1, SendSound DEF Keeps
<1>5. ASSUME NEW c, Sound(c), Keeps(ctl, c), MQTT_command(c)
      PROVE  IInv'
  <2> DEFINE d == [c EXCEPT !.MQTT_age = 0]
  <2>1. /\ Sound(d) /\ d.estop_age = c.estop_age /\ d.prev_estop = c.prev_estop
        /\ d.PIN_EMERGENCY = c.PIN_EMERGENCY /\ d.contactor_age = c.contactor_age
    BY <1>5 DEF Sound, Ctl
  <2>2. ChangeCtl(d) /\ UNCHANGED <<pc, status, rx>>
    BY <1>5 DEF MQTT_command
  <2> HIDE DEF d
  <2> QED
    BY <1>5, <2>1, <2>2, HalStep DEF ChangeCtl, Keeps
<1>6. CASE control_contactor_set
  <2> DEFINE d == [q EXCEPT !.contactor_age = 0, !.contactor_state = TRUE]
  <2>1. /\ d \in Ctl /\ d.estop_age = q.estop_age /\ d.prev_estop = q.prev_estop
        /\ d.PIN_EMERGENCY = q.PIN_EMERGENCY /\ d.contactor_age = 0
        /\ d.strategy = q.strategy /\ d.contactor_state
    <3>1. q \in Ctl /\ 0 \in 0 .. Debounce
      BY <1>1 DEF Sound
    <3> QED
      BY <3>1 DEF Ctl
  <2>2. ChangeCtl(d) /\ UNCHANGED <<pc, status, rx>>
    BY <1>6 DEF control_contactor_set, q
  <2> HIDE DEF d
  <2>3. Sound(d)
    BY <1>1, <2>1 DEF Sound
  <2> QED
    BY <1>1, <2>1, <2>2, <2>3, HalStep DEF ChangeCtl, Keeps
<1>7. ASSUME NEW s \in Strategies, control_set_strategy(s) PROVE IInv'
  BY <1>2, <1>3, <1>7 DEF control_set_strategy, q
<1>8. ASSUME NEW m \in UserModes, pwr_set_mode(m) PROVE IInv'
  BY <1>2, <1>4, <1>8 DEF pwr_set_mode, q
<1> QED
  BY <1>1, <1>3, <1>4, <1>5, <1>6, <1>7, <1>8 DEF UserStep, q

\* Every step of the loop, of the reports and of the reset.
LEMMA NextIInv == IInv /\ [Next]_vars => IInv'
<1> SUFFICES ASSUME IInv, [Next]_vars PROVE IInv'
  OBVIOUS
<1>0. /\ Sound(Quiet(ctl)) /\ Keeps(ctl, Quiet(ctl))
      /\ Quiet(ctl).strategy = ctl.strategy
      /\ status \in Status /\ rx \in ModeCodes /\ watch \in Watch
  BY QuietSound DEF IInv, TypeOK
<1>1. CASE UserStep
  BY <1>1, UserIInv
<1>2. ASSUME NEW dt \in PassTimes, ButtonsDone(dt) \/ MQTT_begin(dt) PROVE IInv'
  BY <1>0, <1>2, TimeStep DEF ButtonsDone, MQTT_begin
<1>3. CASE status_timeout
  <2>1. [status EXCEPT !.valid = FALSE] \in Status
    BY <1>0 DEF Status
  <2>2. ~[status EXCEPT !.valid = FALSE].valid
    BY <1>0 DEF Status
  <2> QED
    BY <1>0, <1>3, <2>1, <2>2, StatusStep DEF status_timeout
<1>4. ASSUME NEW success \in BOOLEAN, NEW dt \in PassTimes, lisp_done(success, dt)
      PROVE  IInv'
  <2> DEFINE c == IF success THEN Quiet(ctl)
                  ELSE SetStrategy(Quiet(ctl), "emergency")
  <2>1. Sound(c) /\ Keeps(ctl, c)
    BY <1>0, SetStrategySound DEF Strategies, Keeps
  <2>2. TimePasses(c, dt) /\ pc' = "control"
    BY <1>4 DEF lisp_done
  <2> HIDE DEF c
  <2> QED
    BY <2>1, <2>2, TimeStep
<1>5. ASSUME NEW sense \in BOOLEAN, control_loop(sense) PROVE IInv'
  BY <1>5, LoopStep
<1>6. CASE PassDone
  BY <1>0, <1>6
  DEF PassDone, IInv, TypeOK, Sound, ContactorExpires, StatusFresh,
      OpenContactorTrips, MqttMuteStops, Timed, Keeps
<1>7. ASSUME NEW m \in ModeCodes, report_line(m) PROVE IInv'
  <2>1. [valid |-> TRUE, mode |-> m, age |-> 0] \in Status
    BY DEF Status
  <2> QED
    BY <1>7, <2>1, StatusStep DEF report_line
<1>8. ASSUME NEW m \in ModeCodes, no_line(m) PROVE IInv'
  <2>1. status.valid => status.age < StatusTimeout
    BY <1>0, <1>8 DEF no_line, StatusExpired, Status
  <2>2. /\ watch' \in Watch /\ watch'.unchecked = 0
        /\ watch'.mute = watch.mute /\ watch'.open = watch.open
    BY <1>0, <1>8 DEF no_line, Watch
  <2> QED
    BY <1>0, <1>8, <2>1, <2>2
    DEF no_line, IInv, TypeOK, Sound, ContactorExpires, StatusFresh,
        OpenContactorTrips, MqttMuteStops, Timed, Keeps
<1>9. CASE text_line
  <2>1. [valid |-> TRUE, mode |-> rx, age |-> 0] \in Status
    BY <1>0 DEF Status
  <2> QED
    BY <1>0, <1>9, <2>1, StatusStep DEF text_line
<1>10. CASE Reboot
  <2>1. Init'
    BY <1>10 DEF Reboot, Init
  <2> QED
    BY <2>1, InitIInv, PTL
<1>11. CASE UNCHANGED vars
  BY <1>11
  DEF vars, IInv, TypeOK, ContactorExpires, StatusFresh, OpenContactorTrips,
      MqttMuteStops, Timed
<1> QED
  BY <1>1, <1>2, <1>3, <1>4, <1>5, <1>6, <1>7, <1>8, <1>9, <1>10, <1>11
  DEF Next, OwnStep
-----------------------------------------------------------------------------
(* Theorems *)

\* IInv is an inductive invariant of the control board.
THEOREM Inductive == Spec => []IInv
<1> QED
  BY InitIInv, NextIInv, PTL DEF Spec

\* Every variable keeps its type: no age passes its cap, no other mode is sent.
THEOREM TypeCorrect == Spec => []TypeOK
<1>1. IInv => TypeOK
  BY DEF IInv
<1> QED
  BY <1>1, Inductive, PTL

\* In control_emergency the contactor is not driven, at any time.
THEOREM EmergencyDisconnectsHolds == Spec => []EmergencyDisconnects
<1>1. IInv => EmergencyDisconnects
  BY DEF IInv, Sound, EmergencyDisconnects
<1> QED
  BY <1>1, Inductive, PTL

\* No request holds the contactor for longer than contactor_debounce_min.
THEOREM ContactorExpiresHolds == Spec => []ContactorExpires
<1>1. IInv => ContactorExpires
  BY DEF IInv
<1> QED
  BY <1>1, Inductive, PTL

\* A status called valid is past its two seconds by no more than what held the
\* loop up since it looked.
THEOREM StatusFreshHolds == Spec => []StatusFresh
<1>1. IInv => StatusFresh
  BY DEF IInv
<1> QED
  BY <1>1, Inductive, PTL

\* A contactor that does not close ends the strategy in time.
THEOREM OpenContactorTripsHolds == Spec => []OpenContactorTrips
<1>1. IInv => OpenContactorTrips
  BY DEF IInv
<1> QED
  BY <1>1, Inductive, PTL

\* control_MQTT does not outlive its commands by more than the age of a status.
THEOREM MqttMuteStopsHolds == Spec => []MqttMuteStops
<1>1. IInv => MqttMuteStops
  BY DEF IInv
<1> QED
  BY <1>1, Inductive, PTL
\* Nobody who loses the status goes on with the turbine running.
THEOREM LossStopsHolds == Spec => LossStops
<1> DEFINE Lost == status.valid /\ ~status'.valid
           Stopped == /\ ctl'.strategy = "emergency" /\ ~ctl'.PIN_EMERGENCY
                      /\ (ctl.strategy # "emergency" \/ status.mode # "emergency"
                            => Says(ctl', "emergency"))
<1>1. ASSUME IInv, Next, Lost PROVE Stopped
  <2>1. status_timeout \/ Reboot
    <3>1. status \in Status /\ status'.valid # status.valid
      BY <1>1 DEF IInv, TypeOK
    <3>2. ~UserStep
      BY <3>1 DEF UserStep, control_set_strategy, pwr_set_mode,
           control_contactor_set, MQTT_command
    <3>3. ASSUME NEW dt \in PassTimes
          PROVE  /\ ~ButtonsDone(dt) /\ ~MQTT_begin(dt)
                 /\ \A success \in BOOLEAN : ~lisp_done(success, dt)
      BY <3>1 DEF ButtonsDone, MQTT_begin, lisp_done, TimePasses, Status
    <3>4. ASSUME NEW m \in ModeCodes PROVE ~report_line(m) /\ ~no_line(m)
      BY <1>1, <3>1 DEF report_line, no_line, TakeStatus
    <3>5. ~text_line
      BY <1>1, <3>1 DEF text_line, TakeStatus
    <3>6. ~PassDone
      BY <3>1 DEF PassDone
    <3>7. ASSUME NEW sense \in BOOLEAN PROVE ~control_loop(sense)
      BY <3>1 DEF control_loop
    <3> QED
      BY <1>1, <3>2, <3>3, <3>4, <3>5, <3>6, <3>7 DEF Next, OwnStep
  <2>2. CASE status_timeout
    <3> DEFINE st == [status EXCEPT !.valid = FALSE]
    <3>1. st \in Status /\ ~st.valid /\ st.mode = status.mode
      BY <1>1 DEF IInv, TypeOK, Status
    <3>2. ctl' = NewState(Quiet(ctl), st)
      BY <2>2 DEF status_timeout, TakeStatus
    <3> HIDE DEF st
    <3>3. Sound(Quiet(ctl)) /\ Quiet(ctl).strategy = ctl.strategy
      BY <1>1, QuietSound DEF IInv
    <3> QED
      BY <3>1, <3>2, <3>3, NewStateSound, LostSays
  <2>3. CASE Reboot
    <3>1. /\ ctl'.strategy = "emergency" /\ ~ctl'.PIN_EMERGENCY
          /\ ctl'.sent = <<"emergency">>
      BY <2>3 DEF Reboot, BootCtl
    <3> QED
      BY <3>1 DEF Says
  <2> QED
    BY <2>1, <2>2, <2>3
<1>2. Lost => ~UNCHANGED vars
  BY DEF vars
<1>3. IInv /\ [Next]_vars => [Lost => Stopped]_vars
  BY <1>1, <1>2
<1>4. [Lost => Stopped]_vars =>
        [status.valid /\ ~status'.valid =>
         ctl'.strategy = "emergency" /\ ~ctl'.PIN_EMERGENCY
         /\ (ctl.strategy # "emergency" \/ status.mode # "emergency" =>
               "emergency" \in {ctl'.sent[i] : i \in 1 .. Len(ctl'.sent)})]_vars
  BY DEF Says
<1> QED
  BY <1>3, <1>4, Inductive, PTL DEF Spec, LossStops
-----------------------------------------------------------------------------
(* The two boards together.                                                *)

\* What the line and the power board hold.
LineOK ==
    /\ from_board \in Seq(ModeCodes)
    /\ rx \in ModeCodes
    /\ mode \in BoardModes /\ latched \in BOOLEAN

LEMMA LineInit == SystemInit => LineOK
<1>1. <<>> \in Seq(ModeCodes)
  OBVIOUS
<1> QED BY <1>1 DEF SystemInit, Board!Init, Init, LineOK, BoardModes, ModeCodes

LEMMA HeadReported ==
    ASSUME LineOK, from_board # <<>>
    PROVE  Head(from_board) \in ModeCodes /\ Tail(from_board) \in Seq(ModeCodes)
BY DEF LineOK

\* What the power board does by itself or when told keeps to its vocabulary.
LEMMA BoardType ==
    ASSUME LineOK, Board!OnItsOwn \/ \E m \in Commands : Board!Command(m)
    PROVE  mode' \in BoardModes /\ latched' \in BOOLEAN
BY DEF LineOK, BoardModes, Board!OnItsOwn, Board!Command, Board!Accept, Board!Brake,
       Board!Load, Board!Disconnect, Board!vars

\* What the control board has read of the mode.
LEMMA RxType ==
    ASSUME rx \in ModeCodes
    PROVE  /\ UserStep \/ OwnStep \/ text_line \/ Reboot => rx' \in ModeCodes
           /\ \A m \in ModeCodes : report_line(m) \/ no_line(m) => rx' \in ModeCodes
BY DEF UserStep, OwnStep, control_set_strategy, pwr_set_mode, control_contactor_set,
       MQTT_command, ButtonsDone, status_timeout, lisp_done, control_loop, PassDone,
       MQTT_begin, TimePasses,
       text_line, Reboot, report_line, no_line, ModeCodes, BoardModes, ChangeCtl

LEMMA LineNext == LineOK /\ [SystemNext]_systemVars => LineOK'
<1> SUFFICES ASSUME LineOK, [SystemNext]_systemVars PROVE LineOK'
  OBVIOUS
<1>1. CASE UserActs \/ LoopActs \/ ReadText \/ Restart
  <2>1. /\ UNCHANGED <<mode, latched, from_board>>
        /\ \/ UserStep \/ OwnStep \/ no_line(rx) \/ text_line \/ Reboot
           \/ from_board # <<>> /\ no_line(Head(from_board))
    BY <1>1 DEF UserActs, LoopActs, ReadText, Restart, Sends
  <2>2. rx' \in ModeCodes
    BY <2>1, HeadReported, RxType DEF LineOK
  <2> QED BY <2>1, <2>2 DEF LineOK
<1>2. CASE ReadReport \/ ReadDamaged
  <2>1. PICK m \in ModeCodes : report_line(m)
    BY <1>2, HeadReported DEF ReadReport, ReadDamaged
  <2>2. from_board' \in Seq(ModeCodes) /\ UNCHANGED <<mode, latched>>
    BY <1>2, HeadReported DEF ReadReport, ReadDamaged, Sends
  <2>3. rx' \in ModeCodes
    BY <2>1, RxType DEF LineOK
  <2> QED BY <2>2, <2>3 DEF LineOK
<1>6. CASE LoseCommand \/ UNCHANGED systemVars
  BY <1>6 DEF LineOK, LoseCommand, systemVars, vars
<1>3. CASE Report
  <2>1. mode \in ModeCodes
    BY DEF LineOK, ModeCodes
  <2>2. from_board' \in Seq(ModeCodes)
    BY <1>3, <2>1 DEF LineOK, Report
  <2> QED BY <1>3, <2>2 DEF LineOK, Report, vars
<1>4. CASE BoardActs
  <2>1. mode' \in BoardModes /\ latched' \in BOOLEAN
    BY <1>4, BoardType DEF BoardActs
  <2> QED BY <1>4, <2>1 DEF LineOK, BoardActs, vars
<1>5. ASSUME NEW m \in Commands, Obey(m) PROVE LineOK'
  <2>1. mode' \in BoardModes /\ latched' \in BOOLEAN
    BY <1>5, BoardType DEF Obey
  <2> QED BY <1>5, <2>1 DEF LineOK, Obey, vars
<1> QED BY <1>1, <1>2, <1>3, <1>4, <1>5, <1>6 DEF SystemNext

\* What the control board and the power board hold is of these types however
\* the line loses and damages what it carries.
THEOREM LineTyped == SystemSpec => []LineOK
<1>1. SystemInit => LineOK
  BY LineInit
<1>2. LineOK /\ [SystemNext]_systemVars => LineOK'
  BY LineNext
<1> QED BY <1>1, <1>2, PTL DEF SystemSpec

\* With a power board and a line that do whatever they may, the control board
\* still is the one of Control.tla: what is proved of it holds of the system.
THEOREM ControlInSystem == SystemSpec => Spec
<1>1. SystemInit => Init
  BY DEF SystemInit
<1>2. ASSUME LineOK, [SystemNext]_systemVars PROVE [Next]_vars
  <2>1. CASE UserActs \/ ReadText \/ Restart
    BY <2>1 DEF UserActs, ReadText, Restart, Next
  <2>2. CASE LoopActs
    <3>1. OwnStep \/ \E m \in ModeCodes : no_line(m)
      BY <1>2, <2>2, HeadReported DEF LineOK, LoopActs
    <3> QED BY <3>1 DEF Next
  <2>3. CASE ReadReport \/ ReadDamaged
    <3>1. \E m \in ModeCodes : report_line(m)
      BY <1>2, <2>3, HeadReported DEF ReadReport, ReadDamaged
    <3> QED BY <3>1 DEF Next
  <2>4. CASE Report \/ LoseCommand \/ BoardActs \/ (\E m \in Commands : Obey(m))
    BY <2>4 DEF Report, LoseCommand, BoardActs, Obey
  <2>5. CASE UNCHANGED systemVars
    BY <2>5 DEF systemVars
  <2> QED BY <1>2, <2>1, <2>2, <2>3, <2>4, <2>5 DEF SystemNext
<1> QED BY <1>1, <1>2, LineTyped, PTL DEF SystemSpec, Spec

\* What the line loses, delays and keeps, however the control board behaves:
\* the power board's modes change as PowerModes.tla allows, which PowerBoard.tla
\* implements.
THEOREM BoardInSystem == SystemSpec => Board!Spec
<1>1. SystemInit => Board!Init
  BY DEF SystemInit
<1>2. ASSUME [SystemNext]_systemVars PROVE [Board!Next]_(Board!vars)
  <2>1. CASE UserActs \/ LoopActs \/ ReadReport \/ ReadDamaged \/ ReadText \/ Restart
    BY <2>1 DEF UserActs, LoopActs, ReadReport, ReadDamaged, ReadText, Restart, Sends,
         Board!vars
  <2>2. CASE Report \/ LoseCommand \/ UNCHANGED systemVars
    BY <2>2 DEF Report, LoseCommand, systemVars, Board!vars
  <2>3. CASE BoardActs
    BY <2>3 DEF BoardActs, Board!Next
  <2>4. ASSUME NEW m \in Commands, Obey(m) PROVE Board!Next
    BY <2>4 DEF Obey, Board!Next, Commands, BoardModes, Board!Commands, Board!Modes
  <2> QED BY <1>2, <2>1, <2>2, <2>3, <2>4 DEF SystemNext
<1> QED BY <1>1, <1>2, PTL DEF SystemSpec, Board!Spec

\* The safety of the control board in the system: with any power board that
\* keeps PowerModes.tla and any line.
THEOREM SystemSafety ==
    SystemSpec => /\ [](/\ EmergencyDisconnects /\ ContactorExpires /\ StatusFresh
                        /\ OpenContactorTrips /\ MqttMuteStops)
                  /\ LossStops
BY ControlInSystem, EmergencyDisconnectsHolds, ContactorExpiresHolds, StatusFreshHolds,
   OpenContactorTripsHolds, MqttMuteStopsHolds, LossStopsHolds, PTL
=============================================================================
