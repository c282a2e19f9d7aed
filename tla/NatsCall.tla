------------------------------ MODULE NatsCall ------------------------------
(***************************************************************************)
(* One call of nats_client (lib/natsClientOps.js).  Data, timers and the   *)
(* close of the socket reach the call only while it is blocked, that is    *)
(* while it awaits an event and none is buffered; what it does in between, *)
(* microtask by microtask, nothing can interrupt.  The server is external. *)
(***************************************************************************)
EXTENDS Naturals, Sequences, SequencesExt

CONSTANTS
  AsyncInfo,   \* may the server send a further INFO?
  MaxMsgs,     \* max_messages of a subscription
  MaxSent      \* bound: events of the server

NatsAssumption ==
  AsyncInfo \in BOOLEAN /\ MaxMsgs \in Nat \ {0} /\ MaxSent \in Nat

Ops == {"connect", "ping", "publish", "subscribe", "request"}

VARIABLES
  op,
  stage,      \* connecting, info, pong, operating, done
  eventBuf,
  messages,   \* collected: their numbers
  result,     \* none, ok or failed
  call, open, effects,   \* as in ClientCall
  wire,       \* events on their way from the server
  sent,       \* events it has sent
  pings,      \* PINGs it has not answered
  published   \* messages it has sent

natsClient == <<op, stage, eventBuf, messages, result, call, open, effects>>
natsVars == <<natsClient, wire, sent, pings, published>>

Ev(type) == [type |-> type, n |-> 0]
Msg(n) == [type |-> "MSG", n |-> n]
Limit == IF op = "request" THEN 1 ELSE MaxMsgs

Init ==
  /\ op \in Ops
  /\ stage = "connecting" /\ eventBuf = <<>> /\ messages = <<>> /\ result = "none"
  /\ call = "pending" /\ open = TRUE /\ effects = 0
  /\ wire = <<>> /\ sent = 0 /\ pings = 0 /\ published = 0

----------------------------------------------------------------------------
(* The server *)

Emit(e) ==
  /\ open /\ sent < MaxSent
  /\ wire' = Append(wire, e) /\ sent' = sent + 1
  /\ UNCHANGED natsClient

Serve ==
  \/ /\ \/ sent = 0 /\ stage # "connecting" /\ Emit(Ev("INFO")) /\ UNCHANGED pings
        \/ sent > 0 /\ AsyncInfo /\ Emit(Ev("INFO")) /\ UNCHANGED pings
        \/ pings > 0 /\ Emit(Ev("PONG")) /\ pings' = pings - 1
        \/ pings + effects > 0 /\ Emit(Ev("-ERR")) /\ UNCHANGED pings
     /\ UNCHANGED published
  \/ /\ effects > 0 /\ op \in {"subscribe", "request"} /\ published < Limit
     /\ published' = published + 1
     /\ Emit(Msg(published')) /\ UNCHANGED pings

----------------------------------------------------------------------------
(* The call *)

Live == call = "pending"
Blocked == Live /\ stage # "done" /\ eventBuf = <<>>

Ends(outcome) ==
  /\ result' = outcome /\ stage' = "done"

\* TCP or TLS is up.
Connected ==
  /\ Live /\ stage = "connecting" /\ open
  /\ stage' = "info"
  /\ UNCHANGED <<op, eventBuf, messages, result, call, open, effects, wire, sent, pings, published>>

\* A chunk of one or more events.
Data(k) ==
  /\ Blocked /\ open /\ stage # "connecting"
  /\ k \in 1 .. Len(wire)
  /\ eventBuf' = SubSeq(wire, 1, k)
  /\ wire' = SubSeq(wire, k + 1, Len(wire))
  /\ UNCHANGED <<op, stage, messages, result, call, open, effects, sent, pings, published>>

Take(type) ==
  /\ Live /\ eventBuf # <<>> /\ Head(eventBuf).type = type
  /\ eventBuf' = Tail(eventBuf)
  /\ UNCHANGED <<op, call, open, wire, sent, published>>

\* The first INFO brings CONNECT and PING.
TakeInfo ==
  /\ stage = "info" /\ Take("INFO")
  /\ stage' = "pong" /\ pings' = pings + 1
  /\ UNCHANGED <<messages, result, effects>>

\* The answer to that PING; then the operation's frames go out, one PING for "ping".
TakePong ==
  /\ stage = "pong" /\ Take("PONG")
  /\ effects' = IF op \in {"connect", "ping"} THEN effects ELSE effects + 1
  /\ pings' = IF op = "ping" THEN pings + 1 ELSE pings
  /\ IF op \in {"connect", "publish"} THEN Ends("ok")
                                     ELSE stage' = "operating" /\ UNCHANGED result
  /\ UNCHANGED messages

\* Any other event before the PONG goes to the end of the buffer, to be looked at next.
PutBack ==
  /\ stage = "pong" /\ Live /\ eventBuf # <<>>
  /\ Head(eventBuf).type \notin {"PONG", "-ERR"}
  /\ eventBuf' = Append(Tail(eventBuf), Head(eventBuf))
  /\ UNCHANGED <<op, stage, messages, result, call, open, effects, wire, sent, pings, published>>

TakeErr ==
  /\ stage \in {"info", "pong", "operating"} /\ Take("-ERR")
  /\ Ends("failed")
  /\ UNCHANGED <<messages, effects, pings>>

\* What a strict step does not expect: ends the call.
TakeUnexpected ==
  /\ \/ stage = "operating" /\ op = "ping" /\ Take("INFO") /\ Ends("failed")
     \/ stage = "operating" /\ op = "ping" /\ Take("PONG") /\ Ends("ok")
  /\ UNCHANGED <<messages, effects, pings>>

\* subscribe and request pass over what is no message.
TakeIgnored ==
  /\ stage = "operating" /\ op \in {"subscribe", "request"} /\ Take("INFO")
  /\ UNCHANGED <<stage, messages, result, effects, pings>>

TakeMsg ==
  /\ stage = "operating" /\ Take("MSG")
  /\ messages' = Append(messages, Head(eventBuf).n)
  /\ IF Len(messages') = Limit THEN Ends("ok") ELSE UNCHANGED <<stage, result>>
  /\ UNCHANGED <<effects, pings>>

\* The deadline of the handshake, of a subscription or of a request: a timer, or the
\* check at the head of the loop.
Deadline ==
  /\ Live
  /\ \/ stage = "pong" /\ Ends("failed")
     \/ stage = "operating" /\ op \in {"subscribe", "request"} /\ Ends("ok")
  /\ UNCHANGED <<op, eventBuf, messages, call, open, effects, wire, sent, pings, published>>

\* The connection fails before the handshake is over.
Fails ==
  /\ Blocked /\ stage \in {"connecting", "info", "pong"}
  /\ open' = FALSE /\ wire' = <<>>
  /\ Ends("failed")
  /\ UNCHANGED <<op, eventBuf, messages, call, effects, sent, pings, published>>

\* It closes during the operation: drainWaiters.
Closes ==
  /\ Blocked /\ stage = "operating" /\ open
  /\ open' = FALSE /\ wire' = <<>>
  /\ Ends(IF op = "ping" THEN "failed" ELSE "ok")
  /\ UNCHANGED <<op, eventBuf, messages, call, effects, sent, pings, published>>

\* The race with the timeout is over, one way or the other ...
Settle ==
  /\ Live
  /\ \/ stage = "done" /\ UNCHANGED <<stage, result>>
     \/ Blocked /\ Ends("failed")
  /\ call' = "closing"
  /\ UNCHANGED <<op, eventBuf, messages, open, effects, wire, sent, pings, published>>

\* Mutant: the finally block knows conn only.
ReturnWithoutRef ==
  /\ call = "closing"
  /\ call' = "returned"
  /\ open' = (open /\ effects = 0)
  /\ UNCHANGED <<op, stage, eventBuf, messages, result, effects, wire, sent, pings, published>>

\* ... and the finally block destroys the socket, through conn or socketRef.
Return ==
  /\ call = "closing"
  /\ call' = "returned"
  /\ open' = FALSE
  /\ UNCHANGED <<op, stage, eventBuf, messages, result, effects, wire, sent, pings, published>>

Takes == TakeInfo \/ TakePong \/ TakeErr \/ TakeUnexpected \/ TakeIgnored \/ TakeMsg

Next ==
  \/ Serve
  \/ Connected \/ \E k \in 1 .. MaxSent : Data(k)
  \/ Takes \/ PutBack
  \/ Deadline \/ Fails \/ Closes \/ Settle \/ Return

Spec == Init /\ [][Next]_natsVars

\* The timers of the handshake and of the call, and microtasks.
FairSpec ==
  /\ Spec
  /\ WF_natsVars(Settle) /\ WF_natsVars(Return) /\ WF_natsVars(Deadline)
  /\ WF_natsVars(Takes)

----------------------------------------------------------------------------
(* Properties *)

\* Nothing of the operation is sent once the outcome is settled, the socket is closed
\* at the return, also when the timeout comes during the handshake, and calls return.
Call == INSTANCE ClientCall
NatsIsACall == Call!Spec

\* The messages returned are those the server sent, in order and from the first one on.
InOrder == \A i \in DOMAIN messages : messages[i] = i

\* "+OK or other events: buffer or ignore": while the handshake awaits its PONG, a
\* buffer without one must not keep the call, and the thread, from receiving it.
PongIsAwaited ==
  Live /\ stage = "pong" /\ eventBuf # <<>> =>
    \E e \in ToSet(eventBuf) : e.type \in {"PONG", "-ERR"}
=============================================================================
