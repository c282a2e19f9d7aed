--------------------------- MODULE WebSocketCall ---------------------------
(***************************************************************************)
(* One call of websocket_client (lib/websocketClientOps.js).  The server   *)
(* and the network are external: a frame is under way until its last byte  *)
(* arrives, and a chunk brings any number of whole frames.                 *)
(***************************************************************************)
EXTENDS Integers, Sequences, SequencesExt

CONSTANTS
  MaxMessages,         \* max_messages
  ToSend,              \* messages to send
  MAX_PAYLOAD_BYTES, MAX_TOTAL_PAYLOAD,
  MaxSent              \* bound: frames of the server

WebSocketAssumption ==
  /\ MaxMessages \in Nat \ {0}
  /\ {ToSend, MAX_PAYLOAD_BYTES, MAX_TOTAL_PAYLOAD, MaxSent} \subseteq Nat

VARIABLES
  stage,      \* connecting, upgrading, open
  messages,   \* received
  frag,       \* fragBufs, <<>> while fragOpcode is null
  parser,     \* the frames it still has to shift
  result,     \* none, or how the call finished: ok, closed, failed, timeout
  call, open, effects,   \* as in ClientCall; effects is msgsSent
  wire,       \* frames on their way from the server
  sent,       \* frames it has sent
  served      \* messages it has completed, negative in the middle of the next one

webSocketClient == <<stage, messages, frag, parser, result, call, open, effects>>
webSocketVars == <<webSocketClient, wire, sent, served>>

Init ==
  /\ stage = "connecting" /\ messages = <<>> /\ frag = <<>> /\ parser = <<>> /\ result = "none"
  /\ call = "pending" /\ open = TRUE /\ effects = 0
  /\ wire = <<>> /\ sent = 0 /\ served = 0

----------------------------------------------------------------------------
(* The server.  Message n is the one part n, or parts -n, ..., -n, n. *)

Frame(op, fin, part) == [op |-> op, fin |-> fin, part |-> part]

Emit(frame) ==
  /\ open /\ stage # "connecting" /\ sent < MaxSent
  /\ wire' = Append(wire, frame)
  /\ UNCHANGED webSocketClient

Serve ==
  \/ Emit(Frame("PING", TRUE, 0)) /\ sent' = sent + 1 /\ UNCHANGED served
  \/ Emit(Frame("CLOSE", TRUE, 0)) /\ sent' = MaxSent /\ UNCHANGED served
  \/ /\ served >= 0 /\ sent' = sent + 1
     /\ \/ Emit(Frame("TEXT", TRUE, served + 1)) /\ served' = served + 1
        \/ Emit(Frame("TEXT", FALSE, -(served + 1))) /\ served' = -(served + 1)
  \/ /\ served < 0 /\ sent' = sent + 1
     /\ \/ Emit(Frame("CONTINUATION", FALSE, served)) /\ UNCHANGED served
        \/ Emit(Frame("CONTINUATION", TRUE, -served)) /\ served' = -served

----------------------------------------------------------------------------
(* processFrames, one frame a step: nothing else runs while the parser has frames.
   Once the call has finished, what is left of a chunk changes nothing it returns. *)

Live == call = "pending"
Quiet == parser = <<>>

\* Resolves the call.  The socket has been destroyed, or has ended at its own.
Finish(how) ==
  /\ result' = how /\ call' = "returned" /\ open' = FALSE
  /\ parser' = <<>>

Continue == parser' = Tail(parser) /\ UNCHANGED <<result, call, open>>

Shift(op) ==
  /\ Live /\ parser # <<>> /\ Head(parser).op = op
  /\ UNCHANGED <<stage, effects, wire, sent, served>>

Size(received) == FoldLeft(LAMBDA n, message : n + Len(message), 0, received)

HandleMessage(body) ==
  \/ /\ Len(body) > MAX_PAYLOAD_BYTES
     /\ Finish("failed") /\ UNCHANGED messages
  \/ /\ Len(body) <= MAX_PAYLOAD_BYTES /\ Len(messages) >= MaxMessages
     /\ Finish("ok") /\ UNCHANGED messages
  \/ /\ Len(body) <= MAX_PAYLOAD_BYTES /\ Len(messages) < MaxMessages
     /\ IF Size(messages) + Len(body) > MAX_TOTAL_PAYLOAD
        THEN Finish("failed") /\ UNCHANGED messages
        ELSE Continue /\ messages' = Append(messages, body)

\* Mutant: a control frame between fragments throws them away.
PingResetting ==
  /\ Shift("PING") /\ Continue
  /\ frag' = <<>>
  /\ UNCHANGED messages

Ping ==
  /\ Shift("PING") /\ Continue
  /\ UNCHANGED <<messages, frag>>

Close ==
  /\ Shift("CLOSE") /\ Finish("closed")
  /\ UNCHANGED <<messages, frag>>

Text ==
  /\ Shift("TEXT")
  /\ LET frame == Head(parser) IN
       IF frame.fin
       THEN HandleMessage(<<frame.part>>) /\ UNCHANGED frag
       ELSE Continue /\ frag' = <<frame.part>> /\ UNCHANGED messages

\* Ignored when no message has been begun.
Continuation ==
  /\ Shift("CONTINUATION")
  /\ LET frame == Head(parser)
         parts == Append(frag, frame.part)
     IN  \/ /\ frag = <<>>
            /\ Continue /\ UNCHANGED <<messages, frag>>
         \/ /\ frag # <<>> /\ ~frame.fin
            /\ Continue /\ frag' = parts /\ UNCHANGED messages
         \/ /\ frag # <<>> /\ frame.fin
            /\ HandleMessage(parts) /\ frag' = <<>>

----------------------------------------------------------------------------
(* The call *)

\* A chunk: the parser gets the first k frames that are under way.
Feed(k) ==
  /\ Live /\ Quiet /\ k <= Len(wire)
  /\ parser' = SubSeq(wire, 1, k)
  /\ wire' = SubSeq(wire, k + 1, Len(wire))
  /\ UNCHANGED <<messages, frag, result, call, open, effects, sent, served>>

Connected ==
  /\ Live /\ stage = "connecting"
  /\ stage' = "upgrading"
  /\ UNCHANGED <<messages, frag, parser, result, call, open, effects, wire, sent, served>>

\* The 101 response, with the frames that came along.
Upgraded(k) ==
  /\ stage = "upgrading" /\ Feed(k)
  /\ stage' = "open"

Data(k) ==
  /\ stage = "open" /\ k > 0 /\ Feed(k)
  /\ UNCHANGED stage

\* Mutant: the delay of a message is over, and nobody looks whether the call is.
SendUnchecked ==
  /\ Quiet /\ stage = "open" /\ effects < ToSend
  /\ effects' = effects + 1
  /\ UNCHANGED <<stage, messages, frag, parser, result, call, open, wire, sent, served>>

\* sendMessages: the delay of the next message is over.
SendMessages ==
  /\ Live /\ Quiet /\ stage = "open" /\ effects < ToSend
  /\ effects' = effects + 1
  /\ UNCHANGED <<stage, messages, frag, parser, result, call, open, wire, sent, served>>

\* The handshake fails, the socket breaks or is closed by the server.
Breaks ==
  /\ Live /\ Quiet
  /\ \/ stage # "open" /\ Finish("failed")
     \/ Finish("ok")
  /\ UNCHANGED <<stage, messages, frag, effects, wire, sent, served>>

Timeout ==
  /\ Live /\ Quiet
  /\ Finish("timeout")
  /\ UNCHANGED <<stage, messages, frag, effects, wire, sent, served>>

Takes == Ping \/ Close \/ Text \/ Continuation

Next ==
  \/ Serve
  \/ Connected
  \/ \E k \in 0 .. MaxSent : Upgraded(k) \/ Data(k)
  \/ Takes
  \/ SendMessages
  \/ Breaks \/ Timeout

Spec == Init /\ [][Next]_webSocketVars

\* The deadline is a timer; a chunk is gone through once it is there.
FairSpec == Spec /\ WF_webSocketVars(Timeout) /\ WF_webSocketVars(Takes)

----------------------------------------------------------------------------
(* Properties *)

\* Nothing is sent for a call that has finished, not even after a delay that began
\* before, its socket is closed, and every call finishes.
Call == INSTANCE ClientCall
WebSocketIsACall == Call!Spec

\* Fragments, with control frames between them and split over chunks, come together to
\* the message they were cut from, in the order of the server and with none left out.
MessagesAreWhole ==
  \A i \in DOMAIN messages :
    /\ Last(messages[i]) = i
    /\ \A j \in 1 .. Len(messages[i]) - 1 : messages[i][j] = -i

\* "Connection closes when: max_messages is reached, ...".
MaxMessagesCloses == Len(messages) = MaxMessages => ~Live
=============================================================================
