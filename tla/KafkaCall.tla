----------------------------- MODULE KafkaCall -----------------------------
(***************************************************************************)
(* One call of kafka_client (lib/kafkaClientOps.js): its connection, the   *)
(* SASL exchange if asked for, and one request of the operation.  Of the   *)
(* two timers of the connection the one with the shorter time, or set      *)
(* first, fires first.  The broker is external.                            *)
(***************************************************************************)
EXTENDS Naturals, Sequences

CONSTANTS
  SlowBroker,    \* may it take the connection's whole time to connect or to authenticate?
  MaxSent        \* bound: responses of the broker

KafkaAssumption ==
  SlowBroker \in BOOLEAN /\ MaxSent \in Nat

VARIABLES
  sasl,       \* is sasl_mechanism given?
  equal,      \* is connect_timeout no shorter than timeout?
  stage,      \* connecting, handshake, authenticate, operating, over
  pending,    \* correlation ids awaited
  done,       \* as in openKafkaConnection
  result,     \* none, ok or failed: what the operation has come to
  call, open, effects,   \* as in ClientCall
  wire,       \* responses on their way: correlation id and whether it is an error
  sent, asked \* responses and requests so far

kafkaClient == <<sasl, equal, stage, pending, done, result, call, open, effects, asked>>
kafkaVars == <<kafkaClient, wire, sent>>

Init ==
  /\ sasl \in BOOLEAN /\ equal \in {SlowBroker, FALSE}
  /\ stage = "connecting" /\ pending = {} /\ done = FALSE /\ result = "none"
  /\ call = "pending" /\ open = TRUE /\ effects = 0
  /\ wire = <<>> /\ sent = 0 /\ asked = 0

----------------------------------------------------------------------------
(* The broker answers requests in any order, some perhaps again. *)

Serve ==
  /\ open /\ stage # "connecting" /\ sent < MaxSent
  /\ \E id \in 1 .. asked, error \in BOOLEAN :
       wire' = Append(wire, [id |-> id, error |-> error])
  /\ sent' = sent + 1
  /\ UNCHANGED kafkaClient

----------------------------------------------------------------------------
(* The connection *)

\* sendRequest
SendRequest == asked' = asked + 1 /\ pending' = {asked + 1}

\* openKafkaConnection resolves, and the operation is sent ...
Connected ==
  /\ open /\ stage = "connecting"
  /\ stage' = IF sasl THEN "handshake" ELSE "operating"
  /\ effects' = IF sasl THEN effects ELSE effects + 1
  /\ SendRequest
  /\ UNCHANGED <<sasl, equal, done, result, call, open, wire, sent>>

\* ... or rejects, unless done; the call itself returns only by one or the other.
Reject ==
  /\ done' = TRUE
  /\ IF done THEN UNCHANGED result ELSE result' = "failed"
  /\ stage' = "over"

\* "data": a response whose id is awaited.
Response ==
  LET r == Head(wire) IN
  /\ open /\ wire # <<>> /\ wire' = Tail(wire)
  /\ IF r.id \notin pending
     THEN UNCHANGED <<stage, pending, done, result, open, effects, asked>>
     ELSE \/ /\ stage \in {"handshake", "authenticate"} /\ r.error
             /\ Reject /\ open' = FALSE /\ pending' = {}
             /\ UNCHANGED <<effects, asked>>
          \/ /\ stage = "handshake" /\ ~r.error
             /\ stage' = "authenticate" /\ SendRequest
             /\ UNCHANGED <<done, result, open, effects>>
          \/ /\ stage = "authenticate" /\ ~r.error
             /\ stage' = "operating" /\ SendRequest /\ effects' = effects + 1
             /\ UNCHANGED <<done, result, open>>
          \/ /\ stage = "operating"
             /\ stage' = "over" /\ pending' = {}
             /\ result' \in IF r.error THEN {"ok", "failed"} ELSE {"ok"}
             /\ UNCHANGED <<done, open, effects, asked>>
  /\ UNCHANGED <<sasl, equal, call, sent>>

\* "error" or "close": the pending requests fail, and with them what awaits them.
Breaks(timerWasFirst) ==
  /\ open' = FALSE /\ pending' = {} /\ wire' = <<>>
  /\ \/ stage # "operating"
        /\ stage' = "over" /\ done' = TRUE
        /\ result' = IF timerWasFirst \/ done THEN result ELSE "failed"
     \/ stage = "operating"
        /\ stage' = "over" /\ result' = "failed" /\ UNCHANGED done
  /\ UNCHANGED <<sasl, equal, call, effects, asked, sent>>

ConnectionFails ==
  /\ open /\ stage # "over"
  /\ Breaks(FALSE)

ConnectTimer ==
  /\ open /\ stage = "connecting" /\ ~equal
  /\ Breaks(FALSE)

\* The timer of the whole call takes the connection for settled: done = true.
GlobalTimer ==
  /\ open
  /\ \/ stage = "operating"
     \/ SlowBroker /\ stage \in {"handshake", "authenticate"}
     \/ SlowBroker /\ stage = "connecting" /\ equal
  /\ Breaks(TRUE)

----------------------------------------------------------------------------
(* The call *)

Settle ==
  /\ call = "pending" /\ result # "none"
  /\ call' = "closing"
  /\ UNCHANGED <<sasl, equal, stage, pending, done, result, open, effects, asked, wire, sent>>

\* Mutant: no finally around the operation.
ReturnOpen ==
  /\ call = "closing"
  /\ call' = "returned"
  /\ UNCHANGED <<sasl, equal, stage, pending, done, result, open, effects, asked, wire, sent>>

\* finally: close().
Return ==
  /\ call = "closing"
  /\ call' = "returned" /\ open' = FALSE
  /\ UNCHANGED <<sasl, equal, stage, pending, done, result, effects, asked, wire, sent>>

Next ==
  \/ Serve
  \/ Connected \/ Response \/ ConnectionFails \/ ConnectTimer \/ GlobalTimer
  \/ Settle \/ Return

Spec == Init /\ [][Next]_kafkaVars

\* Timers and microtasks; a broker that is not slow answers, or breaks off, in time.
FairSpec ==
  /\ Spec
  /\ WF_kafkaVars(ConnectTimer) /\ WF_kafkaVars(GlobalTimer)
  /\ WF_kafkaVars(~SlowBroker /\ stage # "connecting" /\ (Response \/ ConnectionFails))
  /\ WF_kafkaVars(Settle) /\ WF_kafkaVars(Return)

----------------------------------------------------------------------------
(* Properties *)

\* Nothing of the operation is sent once its outcome is settled, the connection is closed
\* at the return, and calls return.
Call == INSTANCE ClientCall
KafkaIsACall == Call!Spec

\* "Total wall-clock timeout in seconds for the entire operation": the call is over when
\* its timers have fired.
TimeoutEndsTheCall == <>(call = "returned")
=============================================================================
