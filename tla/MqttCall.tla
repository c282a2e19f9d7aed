------------------------------ MODULE MqttCall ------------------------------
(***************************************************************************)
(* One call of mqtt_client (lib/mqttClientOps.js).  packetBuf and the      *)
(* waiters together are a queue, wire.  The broker is external: it answers *)
(* what it is sent, and may deliver a message at any time once there is a  *)
(* subscription.                                                           *)
(***************************************************************************)
EXTENDS Naturals, Sequences, SequencesExt

CONSTANTS
  CutsOpening,  \* may the overall timeout fire before the CONNACK?
  MaxMsgs,      \* max_messages
  MaxSent       \* bound: packets of the broker

MqttAssumption ==
  CutsOpening \in BOOLEAN /\ MaxMsgs \in Nat \ {0} /\ MaxSent \in Nat

Ops == {"connect", "ping", "publish", "subscribe", "pubsub"}   \* with QoS 1

VARIABLES
  op,
  stage,      \* connecting, connack, awaiting (the reply to the first packet),
              \* collecting, done
  messages,   \* PUBLISHes collected, in order
  acked,      \* those this client has sent a PUBACK for
  acknowledged,
  result,     \* none, ok or failed
  call, open, effects,   \* as in ClientCall; effects are SUBSCRIBEs and PUBLISHes
  wire,       \* packets on their way from the broker
  owed,       \* replies the broker owes
  sent, published

mqttClient == <<op, stage, messages, acked, acknowledged, result, call, open, effects>>
mqttVars == <<mqttClient, wire, owed, sent, published>>

Pkt(type) == [type |-> type, n |-> 0]
Reply == [connect |-> "none", ping |-> "PINGRESP", publish |-> "PUBACK",
          subscribe |-> "SUBACK", pubsub |-> "SUBACK"]

Init ==
  /\ op \in Ops
  /\ stage = "connecting" /\ messages = <<>> /\ acked = {} /\ acknowledged = FALSE
  /\ result = "none"
  /\ call = "pending" /\ open = TRUE /\ effects = 0
  /\ wire = <<>> /\ owed = {} /\ sent = 0 /\ published = 0

----------------------------------------------------------------------------
(* The broker *)

Serve ==
  /\ open /\ sent < MaxSent
  /\ sent' = sent + 1
  /\ \/ \E r \in owed : /\ wire' = Append(wire, Pkt(r)) /\ owed' = owed \ {r}
                        /\ UNCHANGED published
     \/ /\ effects > 0 /\ op \in {"subscribe", "pubsub"}
        /\ published' = published + 1
        /\ wire' = Append(wire, [type |-> "PUBLISH", n |-> published'])
        /\ UNCHANGED owed
  /\ UNCHANGED mqttClient

----------------------------------------------------------------------------
(* The call.  It goes on when the timeout has answered for it. *)

Ends(outcome) == result' = (IF call = "pending" THEN outcome ELSE result) /\ stage' = "done"

Connected ==
  /\ stage = "connecting" /\ open
  /\ stage' = "connack" /\ owed' = owed \cup {"CONNACK"}
  /\ UNCHANGED <<op, messages, acked, acknowledged, result, call, open, effects,
                 wire, sent, published>>

Next1(type) ==
  /\ open /\ wire # <<>> /\ Head(wire).type = type
  /\ wire' = Tail(wire)
  /\ UNCHANGED <<op, call, open, sent, published>>

\* CONNACK, accepted: the first packet of the operation goes out.
TakeConnack ==
  /\ stage = "connack" /\ Next1("CONNACK")
  /\ IF op = "connect" THEN Ends("ok") ELSE stage' = "awaiting" /\ UNCHANGED result
  /\ effects' = IF op \in {"connect", "ping"} THEN effects ELSE effects + 1
  /\ owed' = IF op = "connect" THEN owed ELSE owed \cup {Reply[op]}
  /\ UNCHANGED <<messages, acked, acknowledged>>

\* ... or refused.
Refused ==
  /\ stage = "connack" /\ Next1("CONNACK")
  /\ Ends("failed")
  /\ UNCHANGED <<messages, acked, acknowledged, effects, owed>>

\* The reply that waitForType expects; pubsub then publishes.
TakeReply ==
  /\ stage = "awaiting" /\ Next1(Reply[op])
  /\ IF op \in {"subscribe", "pubsub"} THEN stage' = "collecting" /\ UNCHANGED result
                                       ELSE Ends("ok")
  /\ acknowledged' = (op = "publish")
  /\ effects' = IF op = "pubsub" THEN effects + 1 ELSE effects
  /\ owed' = IF op = "pubsub" THEN owed \cup {"PUBACK"} ELSE owed
  /\ UNCHANGED <<messages, acked>>

\* Any other packet, a message that came first for one, ends the call.
TakeOther ==
  /\ stage = "awaiting" /\ wire # <<>> /\ Head(wire).type # Reply[op]
  /\ Next1(Head(wire).type)
  /\ Ends("failed")
  /\ UNCHANGED <<messages, acked, acknowledged, effects, owed>>

\* Mutant: a message is acknowledged before it is known to be wanted.
TakeMessageAcking ==
  /\ stage = "collecting" /\ Next1("PUBLISH")
  /\ acked' = acked \cup {Head(wire).n}
  /\ IF op = "pubsub" \/ Len(messages) = MaxMsgs
     THEN Ends("ok") /\ UNCHANGED messages
     ELSE messages' = Append(messages, Head(wire).n) /\ UNCHANGED <<stage, result>>
  /\ UNCHANGED <<acknowledged, effects, owed>>

\* A message is kept and acknowledged; one ends pubsub, MaxMsgs a subscription.
TakeMessage ==
  /\ stage = "collecting" /\ Next1("PUBLISH")
  /\ messages' = Append(messages, Head(wire).n)
  /\ acked' = acked \cup {Head(wire).n}
  /\ IF op = "pubsub" \/ Len(messages') = MaxMsgs THEN Ends("ok")
                                                  ELSE UNCHANGED <<stage, result>>
  /\ UNCHANGED <<acknowledged, effects, owed>>

TakePuback ==
  /\ stage = "collecting" /\ Next1("PUBACK")
  /\ acknowledged' = TRUE
  /\ UNCHANGED <<stage, messages, acked, result, effects, owed>>

\* subscribe_timeout.
Deadline ==
  /\ stage = "collecting"
  /\ Ends("ok")
  /\ UNCHANGED <<op, messages, acked, acknowledged, call, open, effects,
                 wire, owed, sent, published>>

\* The socket fails or closes: every waiter is rejected.
Breaks ==
  /\ open /\ stage # "done"
  /\ open' = FALSE /\ wire' = <<>>
  /\ Ends("failed")
  /\ UNCHANGED <<op, messages, acked, acknowledged, call, effects, owed, sent, published>>

Opening == stage \in {"connecting", "connack"}

\* The race with the timeout is over.
Settle ==
  /\ call = "pending"
  /\ \/ stage = "done" /\ UNCHANGED result
     \/ stage # "done" /\ (Opening => CutsOpening) /\ result' = "failed"
  /\ call' = "closing"
  /\ UNCHANGED <<op, stage, messages, acked, acknowledged, open, effects,
                 wire, owed, sent, published>>

\* Mutant: a call that has timed out leaves its socket to the broker.
ReturnKeeping ==
  /\ call = "closing"
  /\ call' = "returned"
  /\ open' = (open /\ stage # "done")
  /\ UNCHANGED <<op, stage, messages, acked, acknowledged, result, effects, owed, sent,
                 published, wire>>

\* The finally block: socket is set when the handshake has succeeded.
Return ==
  /\ call = "closing"
  /\ call' = "returned"
  /\ open' = (open /\ Opening)
  /\ stage' = IF Opening THEN stage ELSE "done"
  /\ UNCHANGED <<op, messages, acked, acknowledged, result, effects, wire, owed, sent,
                 published>>

\* From the timer to the finally block's end nothing else runs.
Next ==
  \/ Settle \/ Return
  \/ /\ call # "closing"
     /\ \/ Serve \/ Connected
        \/ TakeConnack \/ Refused \/ TakeReply \/ TakeOther \/ TakeMessage \/ TakePuback
        \/ Deadline \/ Breaks

Spec == Init /\ [][Next]_mqttVars

\* Timers, connTimer among them.  A broker that never answers CONNECT is left to the
\* overall timeout: where that is taken to spare the handshake, the handshake ends.
FairSpec ==
  /\ Spec
  /\ WF_mqttVars(Settle) /\ WF_mqttVars(Return) /\ WF_mqttVars(Deadline)
  /\ WF_mqttVars(Breaks /\ Opening)

----------------------------------------------------------------------------
(* Properties *)

\* Nothing of the operation is sent once the outcome is settled, the socket is closed
\* at the return, and calls return: as long as the timeout spares the handshake.
Call == INSTANCE ClientCall
MqttIsACall == Call!Spec

\* The messages a call returns are those the broker sent, in order, and just those it
\* has acknowledged: the broker keeps the others.
ReturnedIsAcked ==
  /\ \A i \in DOMAIN messages : messages[i] = i
  /\ acked = ToSet(messages)

\* "For QoS 1, we will get a PUBACK; we also wait for the echoed PUBLISH".
PubackIsAwaited ==
  op = "pubsub" /\ result = "ok" /\ messages # <<>> => acknowledged
=============================================================================
