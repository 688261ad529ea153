------------------------------- MODULE MCApps -------------------------------
(***************************************************************************)
(* The clients of the stack: the DNS resolver (Dns), the requests and the  *)
(* timers of the MQTT client (Mqtt) and its parser (MqttIn).  A behaviour  *)
(* is one of them, and the others stay as they were initialized.           *)
(***************************************************************************)
EXTENDS Dns

CONSTANTS RingSize, SndBuf, ReqMax, ReqTimeout, Interval, ConnTimeout, KeepAlive,
          ConnectLen, PingLen, AckLen, Lens, Connects, Calls,        \* of Mqtt
          BufLen, Base, Payloads, Count                              \* of MqttIn

VARIABLES part, client, sent, stream, parser, app

mqttVars == <<client>>
mqttInVars == <<sent, stream, parser, app>>

\* Callbacks that look nothing up.
MCQuiet == [n \in 1 .. Lookups |-> NoName]

Mqtt == INSTANCE Mqtt WITH Nested <- FALSE
MqttIn == INSTANCE MqttIn WITH client <- parser

ASSUME EnoughIds /\ Mqtt!MqttAssumption /\ MqttIn!MqttInAssumption

MCInit ==
    /\ part \in {"dns", "mqtt", "mqtt_in"}
    /\ Init /\ Mqtt!Init /\ MqttIn!Init
    /\ part # "mqtt_in" => sent = CHOOSE s \in {[i \in 1 .. Count |-> m] : m \in MqttIn!Message} : TRUE

MCNext ==
    \/ part = "dns" /\ Next /\ UNCHANGED <<part, mqttVars, mqttInVars>>
    \/ part = "mqtt" /\ Mqtt!Next /\ UNCHANGED <<part, vars, mqttInVars>>
    \/ part = "mqtt_in" /\ MqttIn!Next /\ UNCHANGED <<part, vars, mqttVars>>

\* Each MQTT request gets its time, however requests are answered (mqtt.c).
RequestsTimed == Mqtt!RequestsTimed

\* Publications arrive whole, however the stream is cut (mqtt.c).
MessagesIntact == MqttIn!MessagesIntact
=============================================================================
