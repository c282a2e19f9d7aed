----------------------------- MODULE StompCall -----------------------------
(***************************************************************************)
(* One call of stomp_client (lib/stompClientOps.js): the operation, run(), *)
(* and closeStompConnection, which both wait for frames of one connection. *)
(* As in NatsCall, frames, timers and the socket's close reach it only     *)
(* while all that runs is blocked.  The broker is external.                *)
(***************************************************************************)
EXTENDS Naturals, Sequences, SequencesExt

CONSTANTS
  MaxMsgs,     \* max_messages of a subscription
  MaxSent      \* bound: frames of the broker

StompAssumption == MaxMsgs \in Nat \ {0} /\ MaxSent \in Nat

Ops == {"connect", "send", "confirmed_send", "subscribe", "request", "disconnect"}

VARIABLES
  op,
  stage,      \* connecting, connected (awaits CONNECTED), receipt, collecting, unsub, done
  waiters,    \* who awaits a frame: run, close, or stale, whose race is over
  frameBuf,
  messages,   \* collected
  result,     \* none, ok or failed
  receipted,  \* the RECEIPT of the DISCONNECT has been received
  call, open, effects,   \* as in ClientCall; effects are SENDs and SUBSCRIBEs
  wire,       \* frames on their way from the broker
  owed,       \* frames the broker owes
  sent, published

stompClient ==
  <<op, stage, waiters, frameBuf, messages, result, receipted, call, open, effects>>
stompVars == <<stompClient, wire, owed, sent, published>>

Frame(command) == [command |-> command, n |-> 0]
Collects == op \in {"subscribe", "request"}

Init ==
  /\ op \in Ops
  /\ stage = "connecting" /\ waiters = <<>> /\ frameBuf = <<>> /\ messages = <<>>
  /\ result = "none" /\ receipted = FALSE
  /\ call = "pending" /\ open = TRUE /\ effects = 0
  /\ wire = <<>> /\ owed = {} /\ sent = 0 /\ published = 0

----------------------------------------------------------------------------
(* The broker *)

Serve ==
  /\ open /\ sent < MaxSent
  /\ sent' = sent + 1
  /\ \/ \E command \in owed :
          wire' = Append(wire, Frame(command)) /\ owed' = owed \ {command}
     \/ /\ owed # {}
        /\ wire' = Append(wire, Frame("ERROR")) /\ owed' = {}
  /\ UNCHANGED <<stompClient, published>>

\* A message, from the moment of the SUBSCRIBE.
Publish ==
  /\ open /\ sent < MaxSent /\ Collects /\ effects > 0
  /\ sent' = sent + 1 /\ published' = published + 1
  /\ wire' = Append(wire, [command |-> "MESSAGE", n |-> published'])
  /\ UNCHANGED <<stompClient, owed>>

----------------------------------------------------------------------------
(* run() *)

Blocked == waiters # <<>> /\ frameBuf = <<>> /\ (stage # "done" \/ call = "closing")

\* A chunk of one or more frames.
Data(k) ==
  /\ Blocked /\ open
  /\ k \in 1 .. Len(wire)
  /\ frameBuf' = SubSeq(wire, 1, k)
  /\ wire' = SubSeq(wire, k + 1, Len(wire))
  /\ UNCHANGED <<op, stage, waiters, messages, result, receipted, call, open, effects,
                 owed, sent, published>>

\* The first waiter gets the frame.
Take(who) ==
  /\ waiters # <<>> /\ Head(waiters) = who /\ frameBuf # <<>>
  /\ frameBuf' = Tail(frameBuf)
  /\ UNCHANGED <<op, wire, sent, published>>

RunTakes(command) ==
  /\ Take("run") /\ Head(frameBuf).command = command
  /\ UNCHANGED <<receipted, call, open>>

Ends(outcome) == result' = outcome /\ stage' = "done" /\ waiters' = Tail(waiters)

Connected ==
  /\ stage = "connecting" /\ call = "pending" /\ open
  /\ stage' = "connected" /\ waiters' = <<"run">> /\ owed' = {"CONNECTED"}
  /\ UNCHANGED <<op, frameBuf, messages, result, receipted, call, open, effects, wire,
                 sent, published>>

\* CONNECTED: the operation's first frame goes out.
TakeConnected ==
  /\ stage = "connected" /\ RunTakes("CONNECTED")
  /\ IF op \in {"connect", "disconnect", "send"}
     THEN Ends("ok") ELSE stage' = "receipt" /\ UNCHANGED <<result, waiters>>
  /\ effects' = IF op \in {"connect", "disconnect"} THEN effects ELSE effects + 1
  /\ owed' = IF op \in {"connect", "disconnect", "send"} THEN owed ELSE {"RECEIPT"}
  /\ UNCHANGED messages

\* The RECEIPT of the SEND or SUBSCRIBE; a request is sent once its reply queue is.
TakeReceipt ==
  /\ stage = "receipt" /\ RunTakes("RECEIPT")
  /\ IF Collects THEN stage' = "collecting" /\ UNCHANGED <<result, waiters>>
                 ELSE Ends("ok")
  /\ effects' = IF op = "request" THEN effects + 1 ELSE effects
  /\ UNCHANGED <<messages, owed>>

\* No CONNECTED: the socket is destroyed.
Refused ==
  /\ stage = "connected" /\ Take("run") /\ Head(frameBuf).command = "ERROR"
  /\ Ends("failed")
  /\ open' = FALSE
  /\ UNCHANGED <<messages, receipted, call, effects, owed>>

\* ERROR, or what the step does not expect, a message before the RECEIPT for one.
TakeUnexpected ==
  /\ \/ stage \in {"receipt", "collecting"} /\ RunTakes("ERROR")
     \/ stage = "receipt" /\ RunTakes("MESSAGE")
  /\ Ends("failed")
  /\ UNCHANGED <<messages, effects, owed>>

\* Mutant: the waiter of a race that is over stays in the queue.
UnsubscribeUndrained ==
  /\ stage' = "unsub"
  /\ waiters' = IF frameBuf # <<>> THEN <<"run">> ELSE <<"stale", "run">>
  /\ owed' = owed \cup {"RECEIPT"}
  /\ UNCHANGED result

\* The end of a subscription: drainWaiters, UNSUBSCRIBE, and another wait.
Unsubscribe ==
  /\ stage' = "unsub"
  /\ waiters' = <<"run">>
  /\ owed' = owed \cup {"RECEIPT"}
  /\ UNCHANGED result

TakeMessage ==
  /\ stage = "collecting" /\ RunTakes("MESSAGE")
  /\ messages' = Append(messages, Head(frameBuf).n)
  /\ IF op = "request" THEN Ends("ok") /\ UNCHANGED owed
     ELSE IF Len(messages') = MaxMsgs THEN Unsubscribe
     ELSE UNCHANGED <<stage, waiters, result, owed>>
  /\ UNCHANGED effects

\* The deadline of the collection: a timer, or the check at the head of the loop.
Deadline ==
  /\ stage = "collecting" /\ call = "pending"
  /\ IF op = "request" THEN Ends("ok") /\ UNCHANGED owed ELSE Unsubscribe
  /\ UNCHANGED <<op, frameBuf, messages, receipted, call, open, effects, wire, sent,
                 published>>

\* UNSUBSCRIBE has been answered, by whatever frame ...
Unsubscribed ==
  /\ stage = "unsub" /\ Take("run")
  /\ Ends("ok")
  /\ UNCHANGED <<messages, receipted, call, open, effects, owed>>

\* ... or a second has passed.
UnsubscribeLate ==
  /\ stage = "unsub" /\ call = "pending" /\ Blocked
  /\ result' = "ok" /\ stage' = "done"
  /\ waiters' = [i \in DOMAIN waiters |-> "stale"]
  /\ UNCHANGED <<op, frameBuf, messages, receipted, call, open, effects, wire, owed,
                 sent, published>>

\* The connection fails or closes: the waiters get null.
Closes ==
  /\ open /\ (Blocked \/ stage = "connecting")
  /\ open' = FALSE /\ wire' = <<>> /\ owed' = {}
  /\ \/ /\ stage \in {"connecting", "connected", "receipt"}
        /\ result' = "failed" /\ stage' = "done" /\ waiters' = <<>>
     \/ /\ stage = "collecting" /\ op = "request"
        /\ result' = "ok" /\ stage' = "done" /\ waiters' = <<>>
     \/ /\ stage = "collecting" /\ op = "subscribe"
        /\ stage' = "unsub" /\ waiters' = <<"run">>
        /\ UNCHANGED result
     \/ /\ stage = "unsub"
        /\ result' = "ok" /\ stage' = "done" /\ waiters' = <<>>
     \/ /\ stage = "done" /\ waiters' = <<>>
        /\ UNCHANGED <<result, stage>>
  /\ UNCHANGED <<op, frameBuf, messages, receipted, call, effects, sent, published>>

----------------------------------------------------------------------------
(* The end of the call *)

\* The race with the timeout is over: without a connection the socket is destroyed;
\* else drainWaiters, DISCONNECT, and the wait for its RECEIPT.  A run that was still
\* collecting drains the waiters again, that of the RECEIPT with them.
Settle ==
  /\ call = "pending"
  /\ \/ stage = "done" /\ UNCHANGED result
     \/ (Blocked \/ stage = "connecting") /\ stage # "done" /\ result' = "failed"
  /\ call' = "closing" /\ stage' = "done"
  /\ open' = (open /\ stage \notin {"connecting", "connected"})
  /\ waiters' = IF ~open' \/ stage = "collecting" THEN <<>> ELSE <<"close">>
  /\ owed' = IF open' THEN owed \cup {"DISCONNECTED"} ELSE {}
  /\ wire' = IF open' THEN wire ELSE <<>>
  /\ UNCHANGED <<op, frameBuf, messages, receipted, effects, sent, published>>

\* The next frame, whichever it is, ends the wait ...
CloseTakes ==
  /\ call = "closing" /\ Take("close")
  /\ receipted' = (Head(frameBuf).command = "DISCONNECTED")
  /\ call' = "returned" /\ open' = FALSE /\ waiters' = <<>>
  /\ UNCHANGED <<stage, messages, result, effects, owed>>

\* ... or a second does.
Return ==
  /\ call = "closing"
  /\ waiters = <<>> \/ Blocked
  /\ call' = "returned" /\ open' = FALSE /\ waiters' = <<>>
  /\ UNCHANGED <<op, stage, frameBuf, messages, result, receipted, effects, wire, owed,
                 sent, published>>

Takes ==
  TakeConnected \/ Refused \/ TakeReceipt \/ TakeUnexpected \/ TakeMessage \/ Unsubscribed

Next ==
  \/ Serve \/ Publish
  \/ Connected \/ \E k \in 1 .. MaxSent : Data(k)
  \/ Takes
  \/ Deadline \/ UnsubscribeLate \/ Closes
  \/ Settle \/ CloseTakes \/ Return

Spec == Init /\ [][Next]_stompVars

\* Timers and microtasks.
FairSpec ==
  /\ Spec
  /\ WF_stompVars(Settle) /\ WF_stompVars(Return) /\ WF_stompVars(CloseTakes)
  /\ WF_stompVars(Takes)

----------------------------------------------------------------------------
(* Properties *)

\* Nothing of the operation is sent once the outcome is settled, though the run goes
\* on beside the close; the socket is closed at the return, and calls return.
Call == INSTANCE ClientCall
StompIsACall == Call!Spec

\* A frame is never given to a wait that is over, and the messages returned are those
\* of the subscription from the first one on, none left out.
FramesReachTheReader ==
  /\ Blocked => "stale" \notin ToSet(waiters)
  /\ \A i \in DOMAIN messages : messages[i] = i

\* "Graceful DISCONNECT (RECEIPT confirmed)".
DisconnectConfirmed ==
  op = "disconnect" /\ result = "ok" /\ call = "returned" => receipted
=============================================================================
