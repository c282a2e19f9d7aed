---------------------------- MODULE SseTransport ----------------------------
(***************************************************************************)
(* The session table of server-http.js: SSE streams that clients open and  *)
(* drop, the pruning timer, and POSTed messages, which look their session  *)
(* up when their headers arrive, are acknowledged when their body has been *)
(* read, and are answered when their tool call ends, on the stream or in   *)
(* the response body.                                                      *)
(*                                                                         *)
(* Clients and Node's http module are external.  A write to the stream of a*)
(* client that has left is lost without an error.                          *)
(***************************************************************************)
EXTENDS Naturals

CONSTANTS
  Streams,     \* GET /sse connections, and the sessions they create
  Posts,       \* POSTed messages
  NoSession    \* the sessionId of a POST that has none, or an unknown one

SseAssumption == NoSession \notin Streams

VARIABLES
  open,        \* streams whose client is connected
  ended,       \* streams whose client has left
  sessions,    \* the keys of the session table
  stale,       \* sessions whose lastSeen is more than five minutes ago
  post         \* how far each POST has come

vars == <<open, ended, sessions, stale, post>>

\* A POST: the session it names, the one it found (its "session" variable), and
\* its outcome.
Idle == [at |-> "idle"]
Reading(s, found) == [at |-> "reading", for |-> s, session |-> found]
At(q, where) == post[q].at = where
Step(q, where) == post' = [post EXCEPT ![q] = [@ EXCEPT !.at = where]]

\* Outcomes: the client broke off, the body was no JSON, the message needs no answer,
\* the answer was streamed, written to a stream without a client, or returned.
Outcomes == {"aborted", "bad", "silent", "streamed", "lost", "returned"}

Init ==
  /\ open = {} /\ ended = {} /\ sessions = {} /\ stale = {}
  /\ post = [q \in Posts |-> Idle]

----------------------------------------------------------------------------
(* GET /sse and the timer *)

Connect(s) ==
  /\ s \notin open \cup ended
  /\ open' = open \cup {s}
  /\ sessions' = sessions \cup {s}
  /\ UNCHANGED <<ended, stale, post>>

Disconnect(s) ==
  /\ s \in open
  /\ open' = open \ {s}
  /\ ended' = ended \cup {s}
  /\ sessions' = sessions \ {s}
  /\ stale' = stale \ {s}
  /\ UNCHANGED post

\* Five minutes pass without a POST; the keepalive pings do not count.
Age(s) ==
  /\ s \in sessions \ stale
  /\ stale' = stale \cup {s}
  /\ UNCHANGED <<open, ended, sessions, post>>

\* The timer drops the entries, not the streams.
Prune ==
  /\ stale # {}
  /\ sessions' = sessions \ stale
  /\ stale' = {}
  /\ UNCHANGED <<open, ended, post>>

----------------------------------------------------------------------------
(* POST *)

Arrives(q, s) ==
  /\ At(q, "idle")
  /\ post' = [post EXCEPT ![q] = Reading(s, IF s \in sessions THEN s ELSE NoSession)]
  /\ stale' = stale \ {s}
  /\ UNCHANGED <<open, ended, sessions>>

Aborted(q) ==
  /\ At(q, "reading")
  /\ Step(q, "aborted")
  /\ UNCHANGED <<open, ended, sessions, stale>>

BadJson(q) ==
  /\ At(q, "reading")
  /\ Step(q, "bad")
  /\ UNCHANGED <<open, ended, sessions, stale>>

\* The body has been read: a POST with a session is acknowledged with 202, and the
\* message is given to processJsonRpc.
Accepted(q) ==
  /\ At(q, "reading")
  /\ Step(q, "running")
  /\ UNCHANGED <<open, ended, sessions, stale>>

\* Mutant: the session is looked up again when the tool call has ended.
RepliesLookingUp(q) ==
  /\ At(q, "running")
  /\ Step(q, IF post[q].session = NoSession THEN "returned"
             ELSE IF post[q].session \in sessions THEN "streamed" ELSE "lost")
  /\ UNCHANGED <<open, ended, sessions, stale>>

\* processJsonRpc has returned, with an answer or with null, and the answer goes to
\* the stream found on arrival.
Replies(q) ==
  /\ At(q, "running")
  /\ \/ Step(q, IF post[q].session = NoSession THEN "returned"
                ELSE IF post[q].session \in open THEN "streamed" ELSE "lost")
     \/ Step(q, "silent")
  /\ UNCHANGED <<open, ended, sessions, stale>>

Next ==
  \/ Prune
  \/ \E s \in Streams : Connect(s) \/ Disconnect(s) \/ Age(s)
  \/ \E q \in Posts :
       \/ Aborted(q) \/ BadJson(q) \/ Accepted(q) \/ Replies(q)
       \/ \E s \in Streams \cup {NoSession} : Arrives(q, s)

Spec == Init /\ [][Next]_vars

----------------------------------------------------------------------------
(* Properties *)

TypeOK ==
  /\ open \cap ended = {} /\ open \cup ended \subseteq Streams
  /\ sessions \subseteq Streams /\ stale \subseteq sessions
  /\ \A q \in Posts :
       \/ post[q] = Idle
       \/ /\ post[q].at \in {"reading", "running"} \cup Outcomes
          /\ post[q].for \in Streams \cup {NoSession}
          /\ post[q].session \in {post[q].for, NoSession}

\* An accepted message is answered on the stream it found, though its session may be
\* pruned while its tool runs: the answer is lost only with the client.
LostWithTheClient == \A q \in Posts : At(q, "lost") => post[q].session \in ended

\* "if client has an active SSE stream, acknowledge and stream response".
ActiveStreamIsUsed ==
  [][\A q \in Posts : \A s \in open : Arrives(q, s) => post'[q].session = s]_vars
=============================================================================
