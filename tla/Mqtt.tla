-------------------------------- MODULE Mqtt --------------------------------
(***************************************************************************)
(* mqtt.cpp: how the control board gets and keeps an address and a         *)
(* connection to the broker, and which values it reports over it.  One     *)
(* MQTT_loop is a step; the commands it receives are in Control.tla.       *)
(*                                                                         *)
(* External: the Ethernet chip and its library (an address by DHCP or not, *)
(* the address lost again), the network, the broker, and PubSubClient.  A  *)
(* broken connection is noticed sooner or later; what is published before  *)
(* that is lost, as is a publish that fails.                               *)
(*                                                                         *)
(* Ages are now - prev_millis, up to the largest value they are compared   *)
(* with.  Definitions named _fault... are no part of the model, see        *)
(* README.md.                                                              *)
(***************************************************************************)
EXTENDS Integers

CONSTANTS
    MQTTReconnectRate,
    MQTTWaitBeforeReconnect,
    MQTTWaitBeforeEthernetReset,
    StuckRate,       \* 60 s between two resets of a chip without address
    PatientConnects, \* 6 connects at the normal rate
    Readings,        \* values reported
    NoMessage          \* an empty message, which clears a retained one

ASSUME MqttAssumption ==
    /\ MQTTReconnectRate \in Nat \ {0} /\ MQTTWaitBeforeReconnect \in Nat
    /\ MQTTWaitBeforeEthernetReset \in Nat \ {0}
    /\ StuckRate \in Nat /\ PatientConnects \in Nat

VARIABLES
    eth,         \* the statics of mqtt.cpp and the state of the chip, see Eth
    net_up,      \* network and broker answer
    report_raw,  \* settings.report_raw, which changes only with a reset
    raw,         \* RX_datapoints: a value and its changed flag
    reported,    \* the power board has reported raw since the last MQTT_loop
    passed_over, \* history: a pass since the last connect ended before the reports
    status,      \* what wt_hal reports, of the other values
    prev,        \* prev_pb_stat and the like
    broker       \* what the broker has: raw and status

reports == <<report_raw, raw, passed_over, status, prev, broker>>
mqttVars == <<eth, net_up, reported, reports>>

\* sock: the connection is closed, open, or broken without the client knowing.
Eth ==
    [eth_skip : BOOLEAN, ip : BOOLEAN, sock : {"closed", "open", "half"},
     MQTT_reconnect_count : 0 .. PatientConnects + 1,
     init_age : 0 .. MQTTWaitBeforeEthernetReset,  \* of MQTT_last_init_ms
     full_age : 0 .. MQTTWaitBeforeEthernetReset,  \* of MQTT_last_full_loop
     connect_age : 0 .. 5 * MQTTReconnectRate,     \* of MQTTLastReconnect
     stuck_age : 0 .. StuckRate]                   \* of prev_reinit

-----------------------------------------------------------------------------
(* Getting an address *)

\* MQTT_init: DHCP gives an address or not; a fixed one is always there, which
\* is the same as DHCP that never fails.
MQTT_init(e, got) == [e EXCEPT !.eth_skip = ~got, !.ip = got, !.init_age = 0]

\* ETH_reset closes the chip's sockets.
MQTT_reinit(e, got) ==
    MQTT_init([e EXCEPT !.MQTT_reconnect_count = 0, !.sock = "closed"], got)

\* Without a network there is no address.
Dhcp == IF net_up THEN {TRUE} ELSE {FALSE, TRUE}

RetryDue(e) == e.init_age >= MQTTWaitBeforeEthernetReset

EthRetry ==
    /\ eth.eth_skip /\ RetryDue(eth)
    /\ \E got \in Dhcp :
          eth' = [MQTT_reinit(eth, got) EXCEPT !.full_age = 0]
    /\ reported' = FALSE /\ UNCHANGED <<net_up, reports>>

\* The state in which a pass goes on after looking at the chip: a chip without
\* an address is reset once a minute, and the pass ends until then.
Stuck(e) == ~e.ip
AfterStuck(e) ==
    IF ~Stuck(e) THEN {e}
    ELSE IF e.stuck_age < StuckRate THEN {}
    ELSE {[MQTT_reinit(e, got) EXCEPT !.stuck_age = 0] : got \in Dhcp}

\* After many connects they become rarer, and the pass ends.
TooManyConnects(e) ==
    /\ e.MQTT_reconnect_count > PatientConnects
    /\ e.connect_age < 3 * MQTTReconnectRate

FullLoopOverdue(e) == e.full_age >= MQTTWaitBeforeEthernetReset

\* No full pass for long: the chip is reset, and the pass ends.
EthReset(e) ==
    /\ FullLoopOverdue(e)
    /\ \E got \in Dhcp : eth' = MQTT_reinit([e EXCEPT !.full_age = 0], got)
    /\ reported' = FALSE /\ UNCHANGED <<net_up, reports>>

-----------------------------------------------------------------------------
(* Connecting *)

ConnectDue(e) ==
    /\ e.sock = "closed"
    /\ e.connect_age >= MQTTReconnectRate
    /\ e.full_age >= MQTTWaitBeforeReconnect

Connects(e) == net_up /\ e.ip

Counted(n) == IF n <= PatientConnects THEN n + 1 ELSE n

Attempted(e) ==
    [e EXCEPT !.sock = IF Connects(e) THEN "open" ELSE "closed",
              !.connect_age = 0,
              !.MQTT_reconnect_count = Counted(@)]

ConnectFails(e) ==
    /\ ConnectDue(e) /\ ~Connects(e)
    /\ eth' = Attempted(e)
    /\ reported' = FALSE /\ UNCHANGED <<net_up, reports>>

\* Waiting for the next attempt.
NotConnected(e) ==
    /\ e.sock = "closed" /\ ~ConnectDue(e)
    /\ eth' = e
    /\ reported' = FALSE /\ UNCHANGED <<net_up, reports>>

-----------------------------------------------------------------------------
(* Reporting *)

\* With settings.report_raw what has changed is reported, and after a connect
\* everything; without it, a connect clears what the broker retains.
ReportRaw(force, delivered) ==
    LET due == IF report_raw THEN raw.changed \/ force ELSE force
    IN  /\ raw' = IF report_raw /\ due THEN [raw EXCEPT !.changed = FALSE] ELSE raw
        /\ broker' = [broker EXCEPT
               !.raw = IF ~due \/ ~delivered THEN @
                       ELSE IF report_raw THEN raw.value ELSE NoMessage,
               !.status = IF (status # prev \/ force) /\ delivered THEN status ELSE @]

ReportStatus(force) == prev' = IF status # prev \/ force THEN status ELSE prev

ForceReport_faultNever(connected_now) == FALSE
ForceReport(connected_now) == connected_now

\* The rest of a pass with an open connection, as far as the client knows; it
\* may notice that it is not, at the latest when the broker misses its ping.
FullLoop(e, now, noticed) ==
    /\ e.sock # "closed"
    /\ eth' = [e EXCEPT !.MQTT_reconnect_count =
                            IF e.connect_age >= 5 * MQTTReconnectRate THEN 0 ELSE @,
                        !.full_age = 0,
                        !.sock = IF noticed THEN "closed" ELSE @]
    /\ noticed => e.sock = "half"
    /\ ReportRaw(ForceReport(now), e.sock = "open")
    /\ ReportStatus(ForceReport(now))
    /\ reported' = FALSE
    /\ passed_over' = (passed_over /\ ~now)
    /\ UNCHANGED <<net_up, report_raw, status>>

\* A pass that ends before it looks at the connection and the values.
PassedOver ==
    /\ \/ eth.eth_skip /\ ~RetryDue(eth)
       \/ ~eth.eth_skip /\ \A e \in AfterStuck(eth) : TooManyConnects(e)
    /\ reported' = FALSE
    /\ passed_over' = TRUE
    /\ UNCHANGED <<eth, net_up, report_raw, raw, status, prev, broker>>

MQTT_loop ==
    /\ ~eth.eth_skip
    /\ \E e \in AfterStuck(eth) :
          /\ ~TooManyConnects(e)
          /\ \/ EthReset(e)
             \/ /\ ~FullLoopOverdue(e)
                /\ \/ ConnectFails(e) \/ NotConnected(e)
                   \/ /\ ConnectDue(e) /\ Connects(e)
                      /\ FullLoop(Attempted(e), TRUE, FALSE)
                   \/ \E noticed \in BOOLEAN : FullLoop(e, FALSE, noticed)

\* The client sees that a broken connection is closed, before the next pass.
Notice ==
    /\ eth.sock = "half"
    /\ eth' = [eth EXCEPT !.sock = "closed"]
    /\ UNCHANGED <<net_up, reported, reports>>

-----------------------------------------------------------------------------
(* Commands, and what happens around *)

cmnd_ifconfig_reset ==
    /\ \E got \in Dhcp : eth' = MQTT_reinit(eth, got)
    /\ UNCHANGED <<net_up, reported, reports>>

cmnd_mqtt_reset ==
    /\ eth.MQTT_reconnect_count # 0
    /\ eth' = [eth EXCEPT !.MQTT_reconnect_count = 0]
    /\ UNCHANGED <<net_up, reported, reports>>

\* uart_power_loop reads one report in a pass at most.  The flag says whether it
\* differs from the one before, so an equal one clears the flag.
RawReported(v) == [value |-> v, changed |-> raw.value # v]

uart_power_report(v) ==
    /\ ~reported
    /\ reported' = TRUE
    /\ raw' = RawReported(v)
    /\ UNCHANGED <<eth, net_up, report_raw, passed_over, status, prev, broker>>

StatusChanges(v) ==
    /\ status # v
    /\ status' = v
    /\ UNCHANGED <<eth, net_up, report_raw, raw, reported, passed_over, prev, broker>>

NetworkFails ==
    /\ net_up
    /\ net_up' = FALSE
    /\ eth' = [eth EXCEPT !.sock = IF @ = "open" THEN "half" ELSE @]
    /\ UNCHANGED <<reported, reports>>

NetworkReturns == ~net_up /\ net_up' = TRUE /\ UNCHANGED <<eth, reported, reports>>

ChipLosesAddress ==
    /\ eth.ip
    /\ eth' = [eth EXCEPT !.ip = FALSE]
    /\ UNCHANGED <<net_up, reported, reports>>

Up(age, limit) == IF age < limit THEN age + 1 ELSE limit

MqttTick ==
    /\ eth' = [eth EXCEPT !.init_age = Up(@, MQTTWaitBeforeEthernetReset),
                          !.full_age = Up(@, MQTTWaitBeforeEthernetReset),
                          !.connect_age = Up(@, 5 * MQTTReconnectRate),
                          !.stuck_age = Up(@, StuckRate)]
    /\ UNCHANGED <<net_up, reported, reports>>

\* What the broker has are retained messages of an earlier run.
MqttInit ==
    /\ net_up \in BOOLEAN
    /\ \E got \in Dhcp :
          eth = [eth_skip |-> ~got, ip |-> got, sock |-> "closed",
                 MQTT_reconnect_count |-> 0, init_age |-> 0, full_age |-> 0,
                 connect_age |-> 0, stuck_age |-> 0]
    /\ report_raw \in BOOLEAN
    /\ raw \in [value : Readings, changed : {FALSE}]
    /\ reported = FALSE /\ passed_over = FALSE
    /\ status \in Readings /\ prev \in Readings
    /\ broker \in [raw : Readings \cup {NoMessage}, status : Readings]

MqttNext ==
    \/ EthRetry \/ MQTT_loop \/ PassedOver \/ Notice
    \/ cmnd_ifconfig_reset \/ cmnd_mqtt_reset
    \/ \E v \in Readings : uart_power_report(v) \/ StatusChanges(v)
    \/ NetworkFails \/ NetworkReturns \/ ChipLosesAddress
    \/ MqttTick

MqttSpec == MqttInit /\ [][MqttNext]_mqttVars

-----------------------------------------------------------------------------
(* Properties *)

MqttTypeOK ==
    /\ eth \in Eth
    /\ net_up \in BOOLEAN /\ report_raw \in BOOLEAN
    /\ raw \in [value : Readings, changed : BOOLEAN]
    /\ reported \in BOOLEAN /\ passed_over \in BOOLEAN
    /\ status \in Readings /\ prev \in Readings
    /\ broker \in [raw : Readings \cup {NoMessage}, status : Readings]

\* Reports published into a connection that was already broken, or not at all,
\* are made up for: whenever the connection stands, the broker has every value
\* of the status except those still to be reported; it has the raw value too,
\* unless that is still to be reported or a pass since the connect returned
\* early, when the next equal report of the power board hides that it has
\* changed; and without settings.report_raw it retains none of an earlier run
\* (mqtt.cpp:112-263, uart_power.cpp:97).
BrokerCatchesUp ==
    eth.sock = "open" =>
        /\ broker.status = prev
        /\ IF report_raw
           THEN raw.changed \/ broker.raw = raw.value \/ passed_over
           ELSE broker.raw = NoMessage
=============================================================================
