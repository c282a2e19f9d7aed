----------------------------- MODULE MCClients -----------------------------
(***************************************************************************)
(* The protocol clients for TLC: one call of one of them.  They have in    *)
(* common the variables of ClientCall and those of the connection; the     *)
(* others belong to one client each and stay as they are in a call of      *)
(* another.                                                                *)
(***************************************************************************)
EXTENDS Naturals, Sequences

CONSTANTS
  MaxMsgs,                              \* max_messages, and messages to send
  MAX_PAYLOAD_BYTES, MAX_TOTAL_PAYLOAD, \* of websocket_client
  MaxSent                               \* bound: what the other side sends

VARIABLES
  client,                               \* which one it is
  op, stage, messages, result, call, open, effects, wire, sent, owed, published,
  eventBuf, pings,                      \* NATS
  acked, acknowledged,                  \* MQTT
  waiters, frameBuf, receipted,         \* STOMP
  frag, parser, served,                 \* WebSocket
  sasl, equal, pending, done, asked     \* Kafka

callVars == <<stage, messages, result, call, open, effects, wire, sent>>
queueVars == <<owed, published>>
natsOnly == <<eventBuf, pings>>
mqttOnly == <<acked, acknowledged>>
stompOnly == <<waiters, frameBuf, receipted>>
webSocketOnly == <<frag, parser, served>>
kafkaOnly == <<sasl, equal, pending, done, asked>>
kafkaVars == <<stage, result, call, open, effects, wire, sent, kafkaOnly>>
clientVars == <<client, op, callVars, queueVars,
                natsOnly, mqttOnly, stompOnly, webSocketOnly, kafkaOnly>>

\* The bounds of NATS and Kafka are lower: each of their answers is one event.
Nats == INSTANCE NatsCall WITH AsyncInfo <- TRUE, MaxSent <- MaxSent - 1
Mqtt == INSTANCE MqttCall WITH CutsOpening <- FALSE
Stomp == INSTANCE StompCall
WebSocket == INSTANCE WebSocketCall WITH MaxMessages <- MaxMsgs, ToSend <- MaxMsgs
Kafka == INSTANCE KafkaCall WITH SlowBroker <- FALSE, MaxSent <- MaxSent - 2

ASSUME Nats!NatsAssumption
ASSUME Mqtt!MqttAssumption
ASSUME Stomp!StompAssumption
ASSUME WebSocket!WebSocketAssumption
ASSUME Kafka!KafkaAssumption

\* What the variables of the other clients are.
NoQueue == owed = {} /\ published = 0
NoNats == eventBuf = <<>> /\ pings = 0
NoMqtt == acked = {} /\ acknowledged = FALSE
NoStomp == waiters = <<>> /\ frameBuf = <<>> /\ receipted = FALSE
NoWebSocket == frag = <<>> /\ parser = <<>> /\ served = 0
NoKafka == sasl = FALSE /\ equal = FALSE /\ pending = {} /\ done = FALSE /\ asked = 0

ClientsInit ==
  \/ /\ client = "nats" /\ Nats!Init
     /\ owed = {} /\ NoMqtt /\ NoStomp /\ NoWebSocket /\ NoKafka
  \/ /\ client = "mqtt" /\ Mqtt!Init
     /\ NoNats /\ NoStomp /\ NoWebSocket /\ NoKafka
  \/ /\ client = "stomp" /\ Stomp!Init
     /\ NoNats /\ NoMqtt /\ NoWebSocket /\ NoKafka
  \/ /\ client = "websocket" /\ op = "exchange" /\ WebSocket!Init
     /\ NoQueue /\ NoNats /\ NoMqtt /\ NoStomp /\ NoKafka
  \/ /\ client = "kafka" /\ op = "request" /\ messages = <<>> /\ Kafka!Init
     /\ NoQueue /\ NoNats /\ NoMqtt /\ NoStomp /\ NoWebSocket

ClientsNext ==
  \/ /\ client = "nats" /\ Nats!Next
     /\ UNCHANGED <<client, owed, mqttOnly, stompOnly, webSocketOnly, kafkaOnly>>
  \/ /\ client = "mqtt" /\ Mqtt!Next
     /\ UNCHANGED <<client, natsOnly, stompOnly, webSocketOnly, kafkaOnly>>
  \/ /\ client = "stomp" /\ Stomp!Next
     /\ UNCHANGED <<client, natsOnly, mqttOnly, webSocketOnly, kafkaOnly>>
  \/ /\ client = "websocket" /\ WebSocket!Next
     /\ UNCHANGED <<client, op, queueVars, natsOnly, mqttOnly, stompOnly, kafkaOnly>>
  \/ /\ client = "kafka" /\ Kafka!Next
     /\ UNCHANGED <<client, op, messages, queueVars, natsOnly, mqttOnly, stompOnly,
                    webSocketOnly>>

\* The fairness of each client, as in its module.
ClientsSpec ==
  /\ ClientsInit /\ [][ClientsNext]_clientVars
  /\ WF_callVars(client = "nats" /\ Nats!Settle)
  /\ WF_callVars(client = "nats" /\ Nats!Return)
  /\ WF_callVars(client = "nats" /\ Nats!Deadline)
  /\ WF_<<callVars, natsOnly>>(client = "nats" /\ Nats!Takes)
  /\ WF_callVars(client = "mqtt" /\ Mqtt!Settle)
  /\ WF_callVars(client = "mqtt" /\ Mqtt!Return)
  /\ WF_callVars(client = "mqtt" /\ Mqtt!Deadline)
  /\ WF_callVars(client = "mqtt" /\ Mqtt!Breaks /\ Mqtt!Opening)
  /\ WF_callVars(client = "stomp" /\ Stomp!Settle)
  /\ WF_callVars(client = "stomp" /\ Stomp!Return)
  /\ WF_callVars(client = "stomp" /\ Stomp!CloseTakes)
  /\ WF_<<callVars, stompOnly>>(client = "stomp" /\ Stomp!Takes)
  /\ WF_callVars(client = "websocket" /\ WebSocket!Timeout)
  /\ WF_<<callVars, webSocketOnly>>(client = "websocket" /\ WebSocket!Takes)
  /\ WF_kafkaVars(client = "kafka" /\ Kafka!ConnectTimer)
  /\ WF_kafkaVars(client = "kafka" /\ Kafka!GlobalTimer)
  /\ WF_kafkaVars(client = "kafka" /\ stage # "connecting"
                     /\ (Kafka!Response \/ Kafka!ConnectionFails))
  /\ WF_kafkaVars(client = "kafka" /\ Kafka!Settle)
  /\ WF_kafkaVars(client = "kafka" /\ Kafka!Return)

\* Whichever client it is: nothing of the operation is sent once the outcome is settled,
\* the socket is closed at the return, and calls return.
Call == INSTANCE ClientCall
IsACall == Call!Spec

\* What a call returns as received is what was sent to it: of STOMP and NATS each message
\* from the first one on, and no frame lost to a wait that is over; of MQTT just what has
\* been acknowledged, so that the broker keeps the rest; of a WebSocket whole messages,
\* put together from their fragments.
MessagesAreTrue ==
  /\ client = "stomp" => Stomp!FramesReachTheReader
  /\ client = "nats" => Nats!InOrder
  /\ client = "mqtt" => Mqtt!ReturnedIsAcked
  /\ client = "websocket" => WebSocket!MessagesAreWhole
=============================================================================
