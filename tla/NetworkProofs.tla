--------------------------- MODULE NetworkProofs ---------------------------
(***************************************************************************)
(* What talks to the network, for any bounds: the mock server (a wait sees *)
(* what came after it was made), the SSE transport (an answer is lost only *)
(* with its client), the lines of stdin (each comes out once, however the  *)
(* input is cut), and the protocol clients (each is a ClientCall, and      *)
(* returns what it was sent, in order and whole).                          *)
(***************************************************************************)
EXTENDS MCServers, MCClients, KeySequenceTheorems, FiniteSetTheorems

----------------------------------------------------------------------------
(* The mock server *)

Waiting == [state : {"waiting"}, startIdx : Nat, since : Nat, disturbed : BOOLEAN]

\* Behind its startIdx a wait finds only requests that came after it, and all of them
\* unless it was disturbed.
WaitSound(w) ==
  /\ Is(w, "waiting") =>
       /\ wait[w] \in Waiting
       /\ wait[w].since <= arrived
       /\ \A i \in 1 .. Len(requests) : i > wait[w].startIdx => requests[i] > wait[w].since
       /\ wait[w].disturbed = FALSE =>
            Len(requests) - wait[w].startIdx = arrived - wait[w].since
  /\ Is(w, "found") => wait[w].request > wait[w].since
  /\ Is(w, "timed_out") =>
       \/ wait[w].disturbed = TRUE
       \/ wait[w].until = wait[w].since

WaitInv ==
  /\ arrived \in Nat /\ requests \in Seq(Nat)
  /\ DOMAIN wait = Waits
  /\ \A w \in Waits : WaitSound(w)

LEMMA ArrivesKeepsWaits ==
  ASSUME WaitInv, Arrives
  PROVE  WaitInv'
<1>1. arrived \in Nat /\ arrived' = arrived + 1 /\ requests \in Seq(Nat) /\ Len(requests) \in Nat
  BY DEF WaitInv, Arrives
<1>2. CASE Len(requests) < MAX_CAPTURED
  <2>1. requests' = Append(requests, arrived + 1) /\ wait' = wait
    BY <1>1, <1>2 DEF Arrives
  <2>2. /\ requests' \in Seq(Nat) /\ Len(requests') = Len(requests) + 1
        /\ \A i \in 1 .. Len(requests) + 1 :
             requests'[i] = IF i <= Len(requests) THEN requests[i] ELSE arrived + 1
    BY <1>1, <2>1
  <2>3. ASSUME NEW w \in Waits PROVE WaitSound(w)'
    <3>1. WaitSound(w) /\ wait'[w] = wait[w] /\ (\A st : Is(w, st)' <=> Is(w, st))
      BY <2>1 DEF WaitInv, Is
    <3>2. CASE Is(w, "waiting")
      <4>. DEFINE x == wait[w]
      <4>1. /\ x \in Waiting /\ x.since <= arrived /\ x.since \in Nat /\ x.startIdx \in Nat
            /\ \A i \in 1 .. Len(requests) : i > x.startIdx => requests[i] > x.since
            /\ x.disturbed = FALSE => Len(requests) - x.startIdx = arrived - x.since
        BY <3>1, <3>2 DEF WaitSound, Waiting
      <4>2. ~Is(w, "found") /\ ~Is(w, "timed_out")
        BY <3>2 DEF Is
      <4>. HIDE DEF x
      <4>3. x.since <= arrived'
        BY <1>1, <4>1
      <4>4. \A i \in 1 .. Len(requests') : i > x.startIdx => requests'[i] > x.since
        <5>. SUFFICES ASSUME NEW i \in 1 .. Len(requests) + 1, i > x.startIdx
                      PROVE  requests'[i] > x.since
          BY <2>2
        <5>1. CASE i = Len(requests) + 1
          BY <1>1, <2>2, <4>1, <5>1, SMTT(20)
        <5>2. CASE i \in 1 .. Len(requests)
          <6>1. requests'[i] = requests[i] /\ requests[i] > x.since
            BY <1>1, <2>2, <4>1, <5>2
          <6>. QED  BY <6>1
        <5>. QED  BY <1>1, <5>1, <5>2
      <4>5. x.disturbed = FALSE => Len(requests') - x.startIdx = arrived' - x.since
        <5>. SUFFICES ASSUME x.disturbed = FALSE
                      PROVE  Len(requests') - x.startIdx = arrived' - x.since
          OBVIOUS
        <5>1. Len(requests) - x.startIdx = arrived - x.since
          BY <4>1
        <5>2. /\ Len(requests') = Len(requests) + 1 /\ arrived' = arrived + 1
              /\ x.startIdx \in Nat /\ x.since \in Nat /\ arrived \in Nat
              /\ Len(requests) \in Nat
          BY <1>1, <2>2, <4>1
        <5>. QED  BY <5>1, <5>2
      <4>. QED  BY <3>1, <4>1, <4>2, <4>3, <4>4, <4>5 DEF WaitSound, x
    <3>3. CASE ~Is(w, "waiting")
      BY <3>1, <3>3 DEF WaitSound
    <3>. QED  BY <3>2, <3>3
  <2>. QED  BY <1>1, <2>1, <2>2, <2>3 DEF WaitInv
<1>3. CASE ~(Len(requests) < MAX_CAPTURED)
  <2>1. requests' = requests /\ wait' = Disturbed
    BY <1>1, <1>3 DEF Arrives
  <2>2. ASSUME NEW w \in Waits PROVE WaitSound(w)'
    <3>1. WaitSound(w)
      BY DEF WaitInv
    <3>2. CASE Is(w, "waiting")
      <4>1. wait[w] \in Waiting /\ wait'[w] = [wait[w] EXCEPT !.disturbed = TRUE]
        BY <2>1, <3>1, <3>2 DEF WaitSound, Disturbed
      <4>2. /\ wait'[w] \in Waiting /\ wait'[w].state = "waiting" /\ wait'[w].disturbed = TRUE
            /\ wait'[w].since = wait[w].since /\ wait'[w].startIdx = wait[w].startIdx
            /\ wait[w].since \in Nat
        BY <4>1 DEF Waiting
      <4>. QED  BY <1>1, <2>1, <3>1, <3>2, <4>2 DEF WaitSound, Is
    <3>3. CASE ~Is(w, "waiting")
      <4>1. wait'[w] = wait[w]
        BY <2>1, <3>3 DEF Disturbed
      <4>. QED  BY <3>1, <3>3, <4>1 DEF WaitSound, Is
    <3>. QED  BY <3>2, <3>3
  <2>. QED  BY <1>1, <2>1, <2>2 DEF WaitInv, Disturbed
<1>. QED  BY <1>2, <1>3

LEMMA ClearKeepsWaits ==
  ASSUME WaitInv, NEW n \in 0 .. MAX_CAPTURED, Clear(n)
  PROVE  WaitInv'
<1>1. arrived' = arrived /\ requests' = <<>> /\ wait' = Disturbed
  BY DEF Clear
<1>2. ASSUME NEW w \in Waits PROVE WaitSound(w)'
  <2>1. WaitSound(w)
    BY DEF WaitInv
  <2>2. CASE Is(w, "waiting")
    <3>1. wait[w] \in Waiting /\ wait'[w] = [wait[w] EXCEPT !.disturbed = TRUE]
      BY <1>1, <2>1, <2>2 DEF WaitSound, Disturbed
    <3>2. /\ wait'[w] \in Waiting /\ wait'[w].state = "waiting" /\ wait'[w].disturbed = TRUE
          /\ wait'[w].since = wait[w].since
      BY <3>1 DEF Waiting
    <3>. QED  BY <1>1, <2>1, <2>2, <3>2 DEF WaitSound, Is
  <2>3. CASE ~Is(w, "waiting")
    <3>1. wait'[w] = wait[w]
      BY <1>1, <2>3 DEF Disturbed
    <3>. QED  BY <2>1, <2>3, <3>1 DEF WaitSound, Is
  <2>. QED  BY <2>2, <2>3
<1>. QED  BY <1>1, <1>2 DEF WaitInv, Disturbed

\* A step of one wait, that leaves the array as it is.
LEMMA WaitsAreApart ==
  ASSUME WaitInv, NEW w \in Waits, NEW x, wait' = [wait EXCEPT ![w] = x],
         UNCHANGED <<arrived, requests>>, WaitSound(w)'
  PROVE  WaitInv'
<1>1. ASSUME NEW v \in Waits, v # w PROVE WaitSound(v)'
  BY <1>1 DEF WaitInv, WaitSound, Is
<1>. QED  BY <1>1 DEF WaitInv

LEMMA WaitStep ==
  ASSUME WaitInv, [Next]_vars
  PROVE  WaitInv'
<1>1. CASE Listens \/ Stop \/ StopReturns \/ UNCHANGED vars
  <2>1. UNCHANGED <<arrived, requests, wait>>
    BY <1>1 DEF Listens, Stop, StopReturns, vars
  <2>. QED  BY <2>1 DEF WaitInv, WaitSound, Is
<1>2. ASSUME NEW w \in Waits, Wait(w) PROVE WaitInv'
  <2>1. arrived \in Nat /\ Len(requests) \in Nat
    BY DEF WaitInv
  <2>2. wait' = [wait EXCEPT ![w] = Fresh] /\ UNCHANGED <<arrived, requests>>
    BY <1>2 DEF Wait
  <2>3. wait'[w] = Fresh
    BY <2>2 DEF WaitInv
  <2>4. /\ Fresh \in Waiting /\ Fresh.state = "waiting" /\ Fresh.startIdx = Len(requests)
        /\ Fresh.since = arrived
    BY <2>1 DEF Fresh, Waiting
  <2>5. WaitSound(w)'
    BY <2>1, <2>2, <2>3, <2>4 DEF WaitSound, Is
  <2>. QED  BY <2>2, <2>5, WaitsAreApart
<1>3. ASSUME NEW w \in Waits, Found(w) PROVE WaitInv'
  <2>. DEFINE k == wait[w].startIdx
              x == [state |-> "found", since |-> wait[w].since, request |-> requests[k + 1]]
  <2>1. /\ Is(w, "waiting") /\ Len(requests) > k
        /\ wait' = [wait EXCEPT ![w] = x] /\ UNCHANGED <<arrived, requests>>
    BY <1>3 DEF Found
  <2>2. WaitSound(w) /\ k \in Nat
    BY <2>1 DEF WaitInv, WaitSound, Waiting
  <2>3. requests[k + 1] > wait[w].since
    <3>1. k + 1 \in 1 .. Len(requests) /\ k + 1 > k
      BY <2>1, <2>2 DEF WaitInv
    <3>. QED  BY <2>1, <2>2, <3>1 DEF WaitSound
  <2>4. wait'[w] = x
    BY <2>1 DEF WaitInv
  <2>5. WaitSound(w)'
    BY <2>3, <2>4 DEF WaitSound, Is
  <2>. QED  BY <2>1, <2>5, WaitsAreApart
<1>4. ASSUME NEW w \in Waits, TimedOut(w) PROVE WaitInv'
  <2>. DEFINE x == [state |-> "timed_out", since |-> wait[w].since,
                    disturbed |-> wait[w].disturbed, until |-> arrived]
  <2>1. /\ Is(w, "waiting") /\ Len(requests) <= wait[w].startIdx
        /\ wait' = [wait EXCEPT ![w] = x] /\ UNCHANGED <<arrived, requests>>
    BY <1>4 DEF TimedOut
  <2>2. /\ wait[w] \in Waiting /\ wait[w].since <= arrived
        /\ wait[w].disturbed = FALSE =>
             Len(requests) - wait[w].startIdx = arrived - wait[w].since
    BY <2>1 DEF WaitInv, WaitSound
  <2>3. /\ wait[w].startIdx \in Nat /\ wait[w].since \in Nat
        /\ wait[w].disturbed \in BOOLEAN /\ arrived \in Nat /\ Len(requests) \in Nat
    BY <2>2 DEF Waiting, WaitInv
  <2>4. wait[w].disturbed = FALSE => arrived = wait[w].since
    BY <2>1, <2>2, <2>3
  <2>5. wait'[w] = x
    BY <2>1 DEF WaitInv
  <2>6. WaitSound(w)'
    BY <2>3, <2>4, <2>5 DEF WaitSound, Is
  <2>. QED  BY <2>1, <2>6, WaitsAreApart
<1>. QED  BY <1>1, <1>2, <1>3, <1>4, ArrivesKeepsWaits, ClearKeepsWaits DEF Next

\* For any cap of the captures and any reads, clears and stops meanwhile: a wait of
\* http_serve never reports a request from before its call, and times out without one only
\* if none came, or the array was cleared or full.
THEOREM WaitsSeeWhatCame == ServersSpec => []WaitsAreTrue
<1>1. ServersInit => WaitInv
  <2>. SUFFICES ASSUME Init PROVE WaitInv
    BY DEF ServersInit
  <2>1. \A w \in Waits : wait[w].state = "idle"
    BY DEF Init, NotCalled
  <2>. QED  BY <2>1 DEF Init, WaitInv, WaitSound, Is
<1>2. WaitInv /\ [ServersNext]_<<vars, sseVars, stdioVars>> => WaitInv'
  <2>1. [ServersNext]_<<vars, sseVars, stdioVars>> => [Next]_vars
    BY DEF ServersNext
  <2>. QED  BY <2>1, WaitStep
<1>3. WaitInv => WaitsAreTrue
  <2>. SUFFICES ASSUME WaitInv, NEW w \in Waits
                PROVE  /\ Is(w, "found") => wait[w].request > wait[w].since
                       /\ Is(w, "timed_out") /\ ~wait[w].disturbed =>
                            wait[w].until = wait[w].since
    BY DEF WaitsAreTrue, FoundIsNew, UndisturbedMissNothing
  <2>1. WaitSound(w)
    BY DEF WaitInv
  <2>. QED  BY <2>1 DEF WaitSound
<1>. QED  BY <1>1, <1>2, <1>3, PTL DEF ServersSpec

----------------------------------------------------------------------------
(* The SSE transport *)

\* What a POST found when it arrived was a stream with a client.
PostSound(q) ==
  \/ post[q] = Sse!Idle
  \/ /\ post[q] \in [at : {"reading", "running"} \cup Sse!Outcomes,
                     for : Streams \cup {NoSession}, session : Streams \cup {NoSession}]
     /\ post[q].session = NoSession \/ post[q].session \in openStreams \cup ended
     /\ Sse!At(q, "lost") => post[q].session \in ended

SseInv ==
  /\ sessions \subseteq openStreams /\ stale \subseteq sessions
  /\ DOMAIN post = Posts
  /\ \A q \in Posts : PostSound(q)

LEMMA SseStep ==
  ASSUME SseInv, [Sse!Next]_sseVars
  PROVE  SseInv'
<1>1. CASE UNCHANGED sseVars
  BY <1>1 DEF SseInv, PostSound, Sse!At, sseVars
<1>2. CASE Sse!Prune
  BY <1>2 DEF SseInv, PostSound, Sse!At, Sse!Prune
<1>3. ASSUME NEW s \in Streams, Sse!Connect(s) \/ Sse!Disconnect(s) \/ Sse!Age(s)
      PROVE  SseInv'
  <2>1. /\ post' = post /\ ended \subseteq ended'
        /\ openStreams \cup ended \subseteq openStreams' \cup ended'
    BY <1>3 DEF Sse!Connect, Sse!Disconnect, Sse!Age
  <2>2. sessions' \subseteq openStreams' /\ stale' \subseteq sessions'
    BY <1>3 DEF SseInv, Sse!Connect, Sse!Disconnect, Sse!Age
  <2>3. \A q \in Posts : PostSound(q)'
    BY <2>1 DEF SseInv, PostSound, Sse!At
  <2>. QED  BY <2>1, <2>2, <2>3 DEF SseInv
<1>4. ASSUME NEW q \in Posts, NEW s \in Streams \cup {NoSession}, Sse!Arrives(q, s)
      PROVE  SseInv'
  <2>. DEFINE found == IF s \in sessions THEN s ELSE NoSession
  <2>1. /\ post' = [post EXCEPT ![q] = Sse!Reading(s, found)]
        /\ UNCHANGED <<openStreams, ended, sessions>> /\ stale' = stale \ {s}
    BY <1>4 DEF Sse!Arrives
  <2>2. post'[q] = [at |-> "reading", for |-> s, session |-> found]
    BY <2>1 DEF SseInv, Sse!Reading
  <2>3. found \in Streams \cup {NoSession} /\ (found = NoSession \/ found \in openStreams)
    BY DEF SseInv
  <2>. HIDE DEF found
  <2>4. PostSound(q)'
    BY <2>1, <2>2, <2>3 DEF PostSound, Sse!At
  <2>5. ASSUME NEW p \in Posts, p # q PROVE PostSound(p)'
    BY <2>1, <2>5 DEF SseInv, PostSound, Sse!At
  <2>. QED  BY <2>1, <2>4, <2>5 DEF SseInv
<1>5. ASSUME NEW q \in Posts, NEW where \in {"reading", "running"} \cup Sse!Outcomes,
             ~Sse!At(q, "idle"), Sse!Step(q, where), UNCHANGED <<openStreams, ended, sessions, stale>>,
             where = "lost" => post[q].session \in ended
      PROVE  SseInv'
  <2>1. post' = [post EXCEPT ![q] = [@ EXCEPT !.at = where]]
    BY <1>5 DEF Sse!Step
  <2>2. /\ post[q] \in [at : {"reading", "running"} \cup Sse!Outcomes,
                        for : Streams \cup {NoSession}, session : Streams \cup {NoSession}]
        /\ post[q].session = NoSession \/ post[q].session \in openStreams \cup ended
    <3>1. PostSound(q)
      BY DEF SseInv
    <3>2. post[q] # Sse!Idle
      BY <1>5 DEF Sse!At, Sse!Idle
    <3>. QED  BY <3>1, <3>2 DEF PostSound
  <2>3. post'[q] = [post[q] EXCEPT !.at = where]
    BY <2>1 DEF SseInv
  <2>4. /\ post'[q] \in [at : {"reading", "running"} \cup Sse!Outcomes,
                         for : Streams \cup {NoSession}, session : Streams \cup {NoSession}]
        /\ post'[q].at = where /\ post'[q].session = post[q].session
    BY <2>2, <2>3
  <2>5. PostSound(q)'
    BY <1>5, <2>2, <2>4 DEF PostSound, Sse!At
  <2>6. ASSUME NEW p \in Posts, p # q PROVE PostSound(p)'
    BY <1>5, <2>1, <2>6 DEF SseInv, PostSound, Sse!At
  <2>. QED  BY <1>5, <2>1, <2>5, <2>6 DEF SseInv
<1>6. ASSUME NEW q \in Posts, Sse!Aborted(q) \/ Sse!BadJson(q) \/ Sse!Accepted(q) \/ Sse!Replies(q)
      PROVE  SseInv'
  <2>1. UNCHANGED <<openStreams, ended, sessions, stale>>
    BY <1>6 DEF Sse!Aborted, Sse!BadJson, Sse!Accepted, Sse!Replies
  <2>2. ~Sse!At(q, "idle")
    BY <1>6 DEF Sse!Aborted, Sse!BadJson, Sse!Accepted, Sse!Replies, Sse!At
  <2>3. PICK where \in {"aborted", "bad", "running", "silent", "returned", "streamed", "lost"} :
          /\ Sse!Step(q, where)
          /\ where = "lost" =>
               Sse!At(q, "running") /\ post[q].session # NoSession /\ post[q].session \notin openStreams
    BY <1>6 DEF Sse!Aborted, Sse!BadJson, Sse!Accepted, Sse!Replies
  <2>4. where = "lost" => post[q].session \in ended
    <3>1. PostSound(q)
      BY DEF SseInv
    <3>2. post[q] # Sse!Idle
      BY <2>2 DEF Sse!At, Sse!Idle
    <3>. QED  BY <2>3, <3>1, <3>2 DEF PostSound
  <2>5. where \in {"reading", "running"} \cup Sse!Outcomes
    BY DEF Sse!Outcomes
  <2>. QED  BY <1>5, <2>1, <2>2, <2>3, <2>4, <2>5
<1>. QED  BY <1>1, <1>2, <1>3, <1>4, <1>6 DEF Sse!Next

\* Whatever the timer prunes while tools run: an accepted message is answered on the
\* stream its POST found, unless that stream's client has left.
THEOREM OnlyTheLeftLose == ServersSpec => []LostWithTheClient
<1>1. ServersInit => SseInv
  <2>. SUFFICES ASSUME Sse!Init PROVE SseInv
    BY DEF ServersInit
  <2>. QED  BY DEF Sse!Init, SseInv, PostSound
<1>2. SseInv /\ [ServersNext]_<<vars, sseVars, stdioVars>> => SseInv'
  <2>1. [ServersNext]_<<vars, sseVars, stdioVars>> => [Sse!Next]_sseVars
    BY DEF ServersNext
  <2>. QED  BY <2>1, SseStep
<1>3. SseInv => LostWithTheClient
  <2>. SUFFICES ASSUME SseInv, NEW q \in Posts, Sse!At(q, "lost")
                PROVE  post[q].session \in ended
    BY DEF LostWithTheClient, Sse!LostWithTheClient
  <2>1. post[q] # Sse!Idle
    BY DEF Sse!At, Sse!Idle
  <2>. QED  BY <2>1 DEF SseInv, PostSound
<1>. QED  BY <1>1, <1>2, <1>3, PTL DEF ServersSpec

----------------------------------------------------------------------------
(* The lines of stdin *)

Text == Seq(Stdio!Chars)

\* What the loop of splitLines has found after each of the first n characters.
Nothing == [lines |-> <<>>, rest |-> <<>>]
Scans(text, n, f) ==
  f = [k \in 0 .. n |-> IF k = 0 THEN Nothing ELSE Stdio!Scan(f[k - 1], text[k])]

\* There is such a function, by induction over n; so the one that SplitLines defines by
\* recursion is one.
LEMMA ScansExist ==
  ASSUME NEW text, NEW n \in Nat
  PROVE  \E f : Scans(text, n, f)
<1>. DEFINE S == {i \in Nat : \E f : Scans(text, i, f)}
<1>1. 0 \in S
  <2>. DEFINE f == [k \in 0 .. 0 |-> Nothing]
  <2>1. f = [k \in 0 .. 0 |-> IF k = 0 THEN Nothing ELSE Stdio!Scan(f[k - 1], text[k])]
    OBVIOUS
  <2>2. Scans(text, 0, f)
    BY <2>1, Zenon DEF Scans
  <2>. QED  BY <2>2
<1>2. ASSUME NEW i \in Nat, i \in S PROVE i + 1 \in S
  <2>1. PICK f : Scans(text, i, f)
    BY <1>2
  <2>. DEFINE next == Stdio!Scan(f[i], text[i + 1])
              g == [k \in 0 .. i + 1 |-> IF k = i + 1 THEN next ELSE f[k]]
              h == [k \in 0 .. i + 1 |-> IF k = 0 THEN Nothing ELSE Stdio!Scan(g[k - 1], text[k])]
  <2>2. ASSUME NEW k \in 0 .. i + 1 PROVE g[k] = h[k]
    <3>1. CASE k = i + 1
      <4>1. k # 0 /\ k - 1 \in 0 .. i + 1 /\ k - 1 # i + 1 /\ k - 1 = i
        BY <3>1
      <4>2. g[k - 1] = f[i] /\ g[k] = next
        BY <3>1, <4>1
      <4>. HIDE DEF g
      <4>. QED  BY <3>1, <4>1, <4>2
    <3>2. CASE k \in 1 .. i
      <4>1. k # 0 /\ k - 1 \in 0 .. i + 1 /\ k - 1 # i + 1 /\ k # i + 1 /\ k \in 0 .. i
        BY <3>2
      <4>2. g[k - 1] = f[k - 1] /\ g[k] = f[k]
        BY <4>1
      <4>3. f[k] = Stdio!Scan(f[k - 1], text[k])
        BY <2>1, <4>1 DEF Scans
      <4>. HIDE DEF g
      <4>. QED  BY <4>1, <4>2, <4>3
    <3>3. CASE k = 0
      <4>1. 0 \in 0 .. i /\ 0 # i + 1
        OBVIOUS
      <4>2. g[k] = f[0]
        BY <3>3, <4>1
      <4>3. f[0] = Nothing
        BY <2>1, <4>1 DEF Scans
      <4>. HIDE DEF g
      <4>. QED  BY <3>3, <4>2, <4>3
    <3>. QED  BY <3>1, <3>2, <3>3
  <2>3. g = h
    <3>. HIDE DEF next
    <3>1. \A k \in 0 .. i + 1 : g[k] = h[k]
      BY <2>2
    <3>. QED  BY <3>1, Zenon
  <2>4. Scans(text, i + 1, g)
    <3>. HIDE DEF g
    <3>. QED  BY <2>3, Zenon DEF Scans
  <2>. QED  BY <2>4
<1>. HIDE DEF S
<1>3. n \in S
  BY <1>1, <1>2, NatSet
<1>. QED  BY <1>3 DEF S

LEMMA SplitScans ==
  ASSUME NEW text, Len(text) \in Nat
  PROVE  \E f : Scans(text, Len(text), f) /\ Stdio!SplitLines(text) = f[Len(text)]
<1>. DEFINE f == CHOOSE f : f = [k \in 0 .. Len(text) |-> IF k = 0 THEN [lines |-> <<>>, rest |-> <<>>] ELSE Stdio!Scan(f[k - 1], text[k])]
<1>1. \E g : g = [k \in 0 .. Len(text) |-> IF k = 0 THEN [lines |-> <<>>, rest |-> <<>>] ELSE Stdio!Scan(g[k - 1], text[k])]
  BY ScansExist, Zenon DEF Scans, Nothing
<1>2. f = [k \in 0 .. Len(text) |-> IF k = 0 THEN [lines |-> <<>>, rest |-> <<>>] ELSE Stdio!Scan(f[k - 1], text[k])]
  BY <1>1, Zenon
<1>3. Stdio!SplitLines(text) = f[Len(text)]
  BY Zenon DEF Stdio!SplitLines
<1>. HIDE DEF f
<1>. QED  BY <1>2, <1>3, Zenon DEF Scans, Nothing

\* The last newline of a text, or its beginning.
Cut(t, m) ==
  m \in 0 .. Len(t) /\ (m = 0 \/ t[m] = Stdio!NL) /\ \A j \in m + 1 .. Len(t) : t[j] # Stdio!NL

\* FramingIsExact of a text.
Exact(t, ls) ==
  /\ Len(ls) = Cardinality(Stdio!Ends(t))
  /\ \A i \in Stdio!Ends(t) :
       ls[Cardinality({j \in Stdio!Ends(t) : j <= i})] = Stdio!LineAt(t, i)

\* A text has been split into lines and a rest.
Framed(t, ls, rest) ==
  /\ t \in Text /\ ls \in Seq(Text) /\ Exact(t, ls)
  /\ \E m \in Nat : Cut(t, m) /\ rest = SubSeq(t, m + 1, Len(t))

\* A line is what it is, whatever follows it.
LEMMA LineOfPrefix ==
  ASSUME NEW p \in Text, NEW t \in Text, Len(p) <= Len(t),
         \A i \in 1 .. Len(p) : t[i] = p[i], NEW i \in 1 .. Len(p)
  PROVE  Stdio!LineAt(t, i) = Stdio!LineAt(p, i)
<1>. DEFINE B(u) == {j \in 1 .. i - 1 : u[j] = Stdio!NL}
            G(b) == 1 + (IF b = {} THEN 0 ELSE CHOOSE j \in b : \A k \in b : k <= j)
            F(u) == G(B(u))
            first == F(p)
            body(u) == SubSeq(u, first, i - 1)
<1>1. Len(p) \in Nat /\ Len(t) \in Nat /\ i \in Nat /\ i - 1 \in Nat
  BY DEF Text
<1>2. B(t) = B(p)
  <2>1. \A j \in 1 .. i - 1 : t[j] = p[j]
    BY <1>1
  <2>. QED  BY <2>1
<1>3. first \in 1 .. i
  <2>1. CASE B(p) = {}
    BY <1>1, <2>1
  <2>2. CASE B(p) # {}
    <3>. DEFINE b == CHOOSE j \in B(p) : \A k \in B(p) : k <= j
    <3>1. B(p) \in SUBSET (1 .. i - 1)
      OBVIOUS
    <3>2. \E j \in B(p) : \A k \in B(p) : k <= j
      <4>. HIDE DEF B
      <4>. QED  BY <1>1, <2>2, <3>1, Greatest
    <3>3. b \in B(p)
      <4>. HIDE DEF B
      <4>. QED  BY <3>2
    <3>4. b \in 1 .. i - 1 /\ first = 1 + b
      BY <2>2, <3>3
    <3>. HIDE DEF b, first
    <3>. QED  BY <1>1, <3>4
  <2>. QED  BY <2>1, <2>2
<1>4. body(t) = body(p)
  <2>. HIDE DEF first
  <2>1. \A j \in first .. i - 1 : j \in 1 .. Len(p) /\ t[j] = p[j]
    BY <1>1, <1>3
  <2>2. \A j \in first .. i - 1 : p[j] \in Stdio!Chars /\ t[j] \in Stdio!Chars
    BY <1>1, <2>1 DEF Text
  <2>3. first \in Int /\ i - 1 \in Int
    BY <1>1, <1>3
  <2>4. /\ body(p) \in Text /\ Len(body(p)) = IF first <= i - 1 THEN i - 1 - first + 1 ELSE 0
        /\ \A k \in 1 .. i - 1 - first + 1 : body(p)[k] = p[first + k - 1]
    BY <2>2, <2>3, SubSeqProperties DEF Text
  <2>5. /\ body(t) \in Text /\ Len(body(t)) = IF first <= i - 1 THEN i - 1 - first + 1 ELSE 0
        /\ \A k \in 1 .. i - 1 - first + 1 : body(t)[k] = t[first + k - 1]
    BY <2>2, <2>3, SubSeqProperties DEF Text
  <2>6. \A k \in 1 .. Len(body(p)) : body(p)[k] = body(t)[k]
    <3>. SUFFICES ASSUME NEW k \in 1 .. Len(body(p)) PROVE body(p)[k] = body(t)[k]
      OBVIOUS
    <3>1. first <= i - 1 /\ k \in 1 .. i - 1 - first + 1 /\ first + k - 1 \in first .. i - 1
      BY <2>3, <2>4
    <3>2. t[first + k - 1] = p[first + k - 1]
      BY <2>1, <3>1
    <3>. QED  BY <2>4, <2>5, <3>1, <3>2
  <2>. HIDE DEF body
  <2>. QED  BY <2>4, <2>5, <2>6, SeqEqual DEF Text
<1>5. \A u : Stdio!LineAt(u, i) =
        IF SubSeq(u, F(u), i - 1) # <<>>
           /\ SubSeq(u, F(u), i - 1)[Len(SubSeq(u, F(u), i - 1))] = Stdio!CR
        THEN SubSeq(SubSeq(u, F(u), i - 1), 1, Len(SubSeq(u, F(u), i - 1)) - 1)
        ELSE SubSeq(u, F(u), i - 1)
  BY Zenon DEF Stdio!LineAt
<1>6. F(t) = first
  <2>. HIDE DEF B, G
  <2>. QED  BY <1>2
<1>7. SubSeq(t, F(t), i - 1) = SubSeq(p, F(p), i - 1)
  BY <1>4, <1>6, Zenon
<1>. HIDE DEF B, G, F, body, first
<1>. QED  BY <1>5, <1>7, Zenon

LEMMA GrownText ==
  ASSUME NEW t \in Text, NEW c \in Stdio!Chars
  PROVE  /\ Append(t, c) \in Text /\ Len(t) \in Nat /\ Len(Append(t, c)) = Len(t) + 1
         /\ Append(t, c)[Len(t) + 1] = c
         /\ \A i \in 1 .. Len(t) : Append(t, c)[i] = t[i]
  BY DEF Text

\* The rest after some characters begins behind the last newline.
LEMMA RestOf ==
  ASSUME NEW t \in Text, NEW m \in Nat, Cut(t, m)
  PROVE  LET rest == SubSeq(t, m + 1, Len(t)) IN
         /\ rest \in Text /\ Len(rest) = Len(t) - m
         /\ \A k \in 1 .. Len(t) - m : rest[k] = t[m + k] /\ rest[k] # Stdio!NL
<1>1. Len(t) \in Nat /\ m <= Len(t) /\ \A j \in m + 1 .. Len(t) : t[j] # Stdio!NL
  BY DEF Cut, Text
<1>. DEFINE rest == SubSeq(t, m + 1, Len(t))
<1>2. \A j \in m + 1 .. Len(t) : t[j] \in Stdio!Chars
  BY <1>1 DEF Text
<1>3. /\ rest \in Text /\ Len(rest) = IF m + 1 <= Len(t) THEN Len(t) - (m + 1) + 1 ELSE 0
      /\ \A k \in 1 .. Len(t) - (m + 1) + 1 : rest[k] = t[(m + 1) + k - 1]
  BY <1>1, <1>2, SubSeqProperties DEF Text
<1>. HIDE DEF rest
<1>4. Len(rest) = Len(t) - m
  BY <1>1, <1>3
<1>5. ASSUME NEW k \in 1 .. Len(t) - m PROVE rest[k] = t[m + k] /\ rest[k] # Stdio!NL
  <2>1. /\ k \in 1 .. Len(t) - (m + 1) + 1 /\ (m + 1) + k - 1 = m + k
        /\ m + k \in m + 1 .. Len(t)
    BY <1>1
  <2>2. rest[k] = t[m + k]
    BY <1>3, <2>1
  <2>. QED  BY <1>1, <2>1, <2>2
<1>. QED  BY <1>3, <1>4, <1>5 DEF rest

\* A newline makes a line of the rest.
LEMMA LineOfRest ==
  ASSUME NEW t \in Text, NEW m \in Nat, Cut(t, m), NEW c \in Stdio!Chars
  PROVE  Stdio!LineAt(Append(t, c), Len(t) + 1) = Stdio!Strip(SubSeq(t, m + 1, Len(t)))
<1>. DEFINE u == Append(t, c)
            n == Len(t)
            i == n + 1
            B == {j \in 1 .. i - 1 : u[j] = Stdio!NL}
            F == 1 + (IF B = {} THEN 0 ELSE CHOOSE j \in B : \A k \in B : k <= j)
            rest == SubSeq(t, m + 1, n)
<1>1. n \in Nat /\ i - 1 = n /\ u \in Text /\ Len(u) = n + 1 /\ \A j \in 1 .. n : u[j] = t[j]
  BY GrownText
<1>2. m \in 0 .. n /\ (m = 0 \/ t[m] = Stdio!NL) /\ \A j \in m + 1 .. n : t[j] # Stdio!NL
  BY DEF Cut
<1>3. \A j \in 1 .. n : j \in B <=> t[j] = Stdio!NL
  BY <1>1
<1>4. B \subseteq 1 .. n
  BY <1>1
<1>. HIDE DEF B, u, n
<1>5. \A j \in B : j <= m
  <2>. SUFFICES ASSUME NEW j \in B, ~(j <= m) PROVE FALSE
    BY <1>2, <1>4
  <2>1. j \in m + 1 .. n /\ j \in 1 .. n
    BY <1>1, <1>2, <1>4
  <2>. QED  BY <1>2, <1>3, <2>1
<1>6. F = m + 1
  <2>1. CASE m = 0
    <3>1. B = {}
      BY <1>4, <1>5, <2>1
    <3>. QED  BY <2>1, <3>1
  <2>2. CASE m # 0
    <3>1. m \in 1 .. n
      BY <1>2, <2>2
    <3>2. m \in B
      BY <1>2, <1>3, <2>2, <3>1
    <3>3. \A j \in B : (\A k \in B : k <= j) => j = m
      BY <1>4, <1>5, <3>1, <3>2
    <3>4. (CHOOSE j \in B : \A k \in B : k <= j) = m
      BY <1>5, <3>2, <3>3
    <3>5. B # {}
      BY <3>2
    <3>6. F = 1 + m
      BY <3>4, <3>5, Zenon
    <3>. QED  BY <3>6
  <2>. QED  BY <2>1, <2>2
<1>7. SubSeq(u, m + 1, n) = rest
  <2>1. \A j \in m + 1 .. n : t[j] \in Stdio!Chars /\ u[j] = t[j] /\ u[j] \in Stdio!Chars
    <3>. SUFFICES ASSUME NEW j \in m + 1 .. n
                  PROVE  t[j] \in Stdio!Chars /\ u[j] = t[j] /\ u[j] \in Stdio!Chars
      OBVIOUS
    <3>1. j \in 1 .. n
      BY <1>1, <1>2
    <3>. QED  BY <1>1, <3>1 DEF Text, n
  <2>. DEFINE v == SubSeq(u, m + 1, n)
  <2>2. m + 1 \in Int /\ n \in Int
    BY <1>1
  <2>3. /\ rest \in Text /\ Len(rest) = IF m + 1 <= n THEN n - (m + 1) + 1 ELSE 0
        /\ \A k \in 1 .. n - (m + 1) + 1 : rest[k] = t[m + 1 + k - 1]
    BY <2>1, <2>2, SubSeqProperties DEF Text
  <2>4. /\ v \in Text /\ Len(v) = IF m + 1 <= n THEN n - (m + 1) + 1 ELSE 0
        /\ \A k \in 1 .. n - (m + 1) + 1 : v[k] = u[m + 1 + k - 1]
    BY <2>1, <2>2, SubSeqProperties DEF Text
  <2>. HIDE DEF v, rest
  <2>5. ASSUME NEW k \in 1 .. Len(v) PROVE v[k] = rest[k]
    <3>1. k \in 1 .. n - (m + 1) + 1 /\ m + 1 + k - 1 \in m + 1 .. n
      BY <2>2, <2>4
    <3>. QED  BY <2>1, <2>3, <2>4, <3>1
  <2>6. v = rest
    BY <2>3, <2>4, <2>5, SeqEqual DEF Text
  <2>. QED  BY <2>6 DEF v
<1>8. SubSeq(u, F, i - 1) = rest
  <2>. HIDE DEF F, rest
  <2>. QED  BY <1>1, <1>6, <1>7
<1>9. Stdio!LineAt(u, i) =
        IF SubSeq(u, F, i - 1) # <<>>
           /\ SubSeq(u, F, i - 1)[Len(SubSeq(u, F, i - 1))] = Stdio!CR
        THEN SubSeq(SubSeq(u, F, i - 1), 1, Len(SubSeq(u, F, i - 1)) - 1)
        ELSE SubSeq(u, F, i - 1)
  BY Zenon DEF Stdio!LineAt, B
<1>10. Stdio!Strip(rest) =
        IF rest # <<>> /\ rest[Len(rest)] = Stdio!CR
        THEN SubSeq(rest, 1, Len(rest) - 1) ELSE rest
  BY Zenon DEF Stdio!Strip, Stdio!Last, Stdio!Front
<1>11. Stdio!LineAt(u, i) = Stdio!Strip(rest)
  <2>. HIDE DEF F, rest, i
  <2>. QED  BY <1>8, <1>9, <1>10
<1>. QED  BY <1>11 DEF u, n, rest

\* A line that has text has some character other than blanks and returns.
LEMMA StripKeeps ==
  ASSUME NEW rest \in Text
  PROVE  /\ Stdio!Strip(rest) \in Text /\ Len(Stdio!Strip(rest)) <= Len(rest)
         /\ \A k \in 1 .. Len(Stdio!Strip(rest)) : Stdio!Strip(rest)[k] = rest[k]
<1>. DEFINE line == Stdio!Strip(rest)
<1>1. Len(rest) \in Nat /\ \A k \in 1 .. Len(rest) : rest[k] \in Stdio!Chars
  BY DEF Text
<1>2. CASE rest # <<>> /\ Stdio!Last(rest) = Stdio!CR
  <2>1. Len(rest) >= 1
    BY <1>1, <1>2, EmptySeq DEF Text
  <2>. DEFINE n == Len(rest) - 1
              front == SubSeq(rest, 1, n)
  <2>2. n \in Nat /\ n <= Len(rest) /\ n - 1 + 1 = n
    BY <1>1, <2>1
  <2>3. \A k \in 1 .. n : rest[k] \in Stdio!Chars
    BY <1>1
  <2>4. line = front
    BY <1>2, Zenon DEF Stdio!Strip, Stdio!Front
  <2>. HIDE DEF n, line
  <2>5. /\ front \in Text /\ Len(front) = IF 1 <= n THEN n - 1 + 1 ELSE 0
        /\ \A k \in 1 .. n - 1 + 1 : front[k] = rest[1 + k - 1]
    BY <2>2, <2>3, SubSeqProperties DEF Text
  <2>. HIDE DEF front
  <2>6. Len(front) = n /\ \A k \in 1 .. n : front[k] = rest[k]
    BY <2>2, <2>5
  <2>7. line \in Text /\ Len(line) <= Len(rest) /\ \A k \in 1 .. Len(line) : line[k] = rest[k]
    BY <2>2, <2>4, <2>5, <2>6
  <2>. QED  BY <2>7 DEF line
<1>3. CASE ~(rest # <<>> /\ Stdio!Last(rest) = Stdio!CR)
  <2>1. line = rest
    BY <1>3, Zenon DEF Stdio!Strip
  <2>. QED  BY <1>1, <2>1
<1>. QED  BY <1>2, <1>3

LEMMA TextIsX ==
  ASSUME NEW line \in Text, \A k \in 1 .. Len(line) : line[k] # Stdio!NL
  PROVE  Stdio!HasText(line) <=> \E k \in DOMAIN line : line[k] = "x"
<1>1. DOMAIN line = 1 .. Len(line)
  BY DEF Text
<1>2. \A k \in 1 .. Len(line) : line[k] \notin {Stdio!Blank, Stdio!CR} <=> line[k] = "x"
  BY DEF Text, Stdio!Chars, Stdio!Blank, Stdio!CR
<1>. QED  BY <1>1, <1>2 DEF Stdio!HasText

\* The messages so far, when a character comes.
LEMMA EndsGrow ==
  ASSUME NEW t \in Text, NEW m \in Nat, Cut(t, m), NEW c \in Stdio!Chars
  PROVE  LET u == Append(t, c)
             line == Stdio!Strip(SubSeq(t, m + 1, Len(t))) IN
         /\ IsFiniteSet(Stdio!Ends(t)) /\ Stdio!Ends(t) \subseteq 1 .. Len(t)
         /\ \A i \in Stdio!Ends(t) : Stdio!LineAt(u, i) = Stdio!LineAt(t, i)
         /\ Stdio!Ends(u) =
              IF c = Stdio!NL /\ Stdio!HasText(line) THEN Stdio!Ends(t) \cup {Len(t) + 1}
              ELSE Stdio!Ends(t)
<1>. DEFINE u == Append(t, c)
            n == Len(t)
            rest == SubSeq(t, m + 1, n)
            line == Stdio!Strip(rest)
            X(v, i) == \E k \in DOMAIN Stdio!LineAt(v, i) : Stdio!LineAt(v, i)[k] = "x"
<1>1. /\ n \in Nat /\ u \in Text /\ Len(u) = n + 1 /\ u[n + 1] = c
      /\ \A j \in 1 .. n : u[j] = t[j]
  BY GrownText
<1>2. Stdio!Ends(t) = {i \in 1 .. n : t[i] = Stdio!NL /\ X(t, i)}
  BY Zenon DEF Stdio!Ends
<1>3. Stdio!Ends(u) = {i \in 1 .. Len(u) : u[i] = Stdio!NL /\ X(u, i)}
  BY Zenon DEF Stdio!Ends
<1>4. IsFiniteSet(Stdio!Ends(t)) /\ Stdio!Ends(t) \subseteq 1 .. n
  <2>1. Stdio!Ends(t) \subseteq 1 .. n
    BY <1>2
  <2>. HIDE DEF n
  <2>2. IsFiniteSet(1 .. n)
    BY <1>1, FS_Interval
  <2>. QED  BY <2>1, <2>2, FS_Subset
<1>5. \A i \in 1 .. n : Stdio!LineAt(u, i) = Stdio!LineAt(t, i)
  <2>. HIDE DEF u, n
  <2>1. Len(t) <= Len(u) /\ Len(t) = n
    BY <1>1 DEF n
  <2>2. \A i \in 1 .. Len(t) : u[i] = t[i]
    BY <1>1, <2>1
  <2>. QED  BY <1>1, <2>1, <2>2, LineOfPrefix
<1>6. \A i \in 1 .. n : X(u, i) <=> X(t, i)
  BY <1>5
<1>7. X(u, n + 1) <=> Stdio!HasText(line)
  <2>1. Stdio!LineAt(u, n + 1) = line
    BY LineOfRest
  <2>2. rest \in Text /\ \A k \in 1 .. Len(rest) : rest[k] # Stdio!NL
    BY RestOf
  <2>. HIDE DEF rest
  <2>3. line \in Text /\ Len(line) <= Len(rest) /\ \A k \in 1 .. Len(line) : line[k] = rest[k]
    BY <2>2, StripKeeps
  <2>. HIDE DEF line, u, n
  <2>4. Len(rest) \in Nat /\ Len(line) \in Nat
    BY <2>2, <2>3 DEF Text
  <2>5. \A k \in 1 .. Len(line) : line[k] # Stdio!NL
    BY <2>2, <2>3, <2>4
  <2>6. Stdio!HasText(line) <=> \E k \in DOMAIN line : line[k] = "x"
    BY <2>3, <2>5, TextIsX
  <2>. QED  BY <2>1, <2>6, Zenon
<1>. HIDE DEF u, n, line, rest, X
<1>8. \A i \in 1 .. n : i \in Stdio!Ends(u) <=> i \in Stdio!Ends(t)
  <2>. SUFFICES ASSUME NEW i \in 1 .. n PROVE i \in Stdio!Ends(u) <=> i \in Stdio!Ends(t)
    OBVIOUS
  <2>1. i \in 1 .. Len(u) /\ u[i] = t[i]
    BY <1>1
  <2>. QED  BY <1>2, <1>3, <1>6, <2>1
<1>9. n + 1 \in Stdio!Ends(u) <=> c = Stdio!NL /\ Stdio!HasText(line)
  <2>1. n + 1 \in 1 .. Len(u)
    BY <1>1
  <2>. QED  BY <1>1, <1>3, <1>7, <2>1
<1>10. Stdio!Ends(u) \subseteq 1 .. n + 1
  BY <1>1, <1>3
<1>11. Stdio!Ends(u) = IF c = Stdio!NL /\ Stdio!HasText(line) THEN Stdio!Ends(t) \cup {n + 1}
                       ELSE Stdio!Ends(t)
  <2>1. \A i \in 1 .. n + 1 : i \in 1 .. n \/ i = n + 1
    BY <1>1
  <2>2. n + 1 \notin 1 .. n
    BY <1>1
  <2>3. CASE c = Stdio!NL /\ Stdio!HasText(line)
    BY <1>4, <1>8, <1>9, <1>10, <2>1, <2>2, <2>3
  <2>4. CASE ~(c = Stdio!NL /\ Stdio!HasText(line))
    BY <1>4, <1>8, <1>9, <1>10, <2>1, <2>2, <2>4
  <2>. QED  BY <2>3, <2>4
<1>12. \A i \in Stdio!Ends(t) : Stdio!LineAt(u, i) = Stdio!LineAt(t, i)
  BY <1>4, <1>5
<1>. QED  BY <1>4, <1>11, <1>12 DEF u, n, rest, line

\* One more character.
LEMMA CharacterScanned ==
  ASSUME NEW t, NEW pre \in Seq(Text), NEW a \in Seq(Text), NEW rest,
         Framed(t, pre \o a, rest), NEW c \in Stdio!Chars
  PROVE  LET s == Stdio!Scan([lines |-> a, rest |-> rest], c) IN
         /\ s = [lines |-> s.lines, rest |-> s.rest] /\ s.lines \in Seq(Text)
         /\ Framed(Append(t, c), pre \o s.lines, s.rest)
<1>. DEFINE s == Stdio!Scan([lines |-> a, rest |-> rest], c)
            u == Append(t, c)
            n == Len(t)
            ls == pre \o a
            line == Stdio!Strip(rest)
            E == Stdio!Ends(t)
            F == Stdio!Ends(u)
<1>1. PICK m \in Nat : Cut(t, m) /\ rest = SubSeq(t, m + 1, n)
  BY DEF Framed
<1>2. t \in Text /\ ls \in Seq(Text) /\ Exact(t, ls)
  BY DEF Framed
<1>3. /\ n \in Nat /\ u \in Text /\ Len(u) = n + 1 /\ u[n + 1] = c
      /\ \A j \in 1 .. n : u[j] = t[j]
  BY <1>2, GrownText
<1>4. /\ IsFiniteSet(E) /\ E \subseteq 1 .. n
      /\ \A i \in E : Stdio!LineAt(u, i) = Stdio!LineAt(t, i)
      /\ F = IF c = Stdio!NL /\ Stdio!HasText(line) THEN E \cup {n + 1} ELSE E
  BY <1>1, <1>2, EndsGrow
<1>5. rest \in Text /\ line \in Text
  BY <1>1, <1>2, RestOf, StripKeeps
<1>6. /\ Len(ls) = Cardinality(E)
      /\ \A i \in E : ls[Cardinality({j \in E : j <= i})] = Stdio!LineAt(t, i)
  BY <1>2 DEF Exact
<1>7. /\ Cut(u, n + 1) \/ c # Stdio!NL
      /\ Cut(u, m) \/ c = Stdio!NL
  <2>1. n + 1 \in 0 .. Len(u) /\ n + 1 + 1 .. Len(u) = {}
    BY <1>3
  <2>2. c = Stdio!NL => Cut(u, n + 1)
    BY <1>3, <2>1 DEF Cut
  <2>3. m \in 0 .. n /\ (m = 0 \/ t[m] = Stdio!NL) /\ \A j \in m + 1 .. n : t[j] # Stdio!NL
    BY <1>1 DEF Cut
  <2>4. m \in 0 .. Len(u) /\ (m = 0 \/ u[m] = Stdio!NL)
    <3>1. m = 0 \/ m \in 1 .. n
      BY <1>3, <2>3
    <3>. QED  BY <1>3, <2>3, <3>1
  <2>5. ASSUME c # Stdio!NL, NEW j \in m + 1 .. Len(u) PROVE u[j] # Stdio!NL
    <3>1. CASE j = n + 1
      BY <1>3, <2>5, <3>1
    <3>2. CASE j # n + 1
      <4>1. j \in m + 1 .. n /\ j \in 1 .. n
        BY <1>3, <2>3, <3>2
      <4>. QED  BY <1>3, <2>3, <4>1
    <3>. QED  BY <3>1, <3>2
  <2>. QED  BY <2>2, <2>4, <2>5 DEF Cut
<1>8. SubSeq(u, n + 1 + 1, Len(u)) = <<>>
  <2>. HIDE DEF u, n
  <2>1. n + 1 + 1 > Len(u) /\ n + 1 + 1 \in Int /\ Len(u) \in Int
    BY <1>3
  <2>. QED  BY <1>3, <2>1, SubSeqEmpty DEF Text
<1>. HIDE DEF u, n, E, F, ls, line
<1>9. CASE c # Stdio!NL
  <2>1. s = [lines |-> a, rest |-> Append(rest, c)]
    BY <1>9 DEF Stdio!Scan
  <2>2. Exact(u, ls)
    BY <1>4, <1>6, <1>9 DEF Exact, E, F
  <2>3. Append(rest, c) = SubSeq(u, m + 1, Len(u))
    <3>1. Cut(u, m)
      BY <1>7, <1>9
    <3>. DEFINE r == SubSeq(u, m + 1, Len(u))
    <3>2. r \in Text /\ Len(r) = Len(u) - m /\ \A k \in 1 .. Len(u) - m : r[k] = u[m + k]
      BY <1>3, <3>1, RestOf
    <3>3. Len(rest) = n - m /\ \A k \in 1 .. n - m : rest[k] = t[m + k]
      BY <1>1, <1>2, RestOf DEF n
    <3>4. m <= n
      BY <1>1 DEF Cut, n
    <3>. HIDE DEF r
    <3>. DEFINE v == Append(rest, c)
    <3>5. v \in Text /\ Len(v) = n - m + 1 /\ v[n - m + 1] = c /\ \A k \in 1 .. n - m : v[k] = rest[k]
      BY <1>5, <3>3, GrownText
    <3>. HIDE DEF v
    <3>6. ASSUME NEW k \in 1 .. Len(v) PROVE v[k] = r[k]
      <4>1. CASE k = n - m + 1
        <5>1. k \in 1 .. Len(u) - m /\ m + k = n + 1
          BY <1>3, <3>4, <4>1
        <5>. QED  BY <1>3, <3>2, <3>5, <4>1, <5>1
      <4>2. CASE k # n - m + 1
        <5>1. k \in 1 .. n - m /\ k \in 1 .. Len(u) - m /\ m + k \in 1 .. n
          BY <1>3, <3>4, <3>5, <4>2
        <5>2. v[k] = t[m + k] /\ r[k] = u[m + k] /\ u[m + k] = t[m + k]
          BY <1>3, <3>2, <3>3, <3>5, <5>1
        <5>. QED  BY <5>2
      <4>. QED  BY <4>1, <4>2
    <3>7. Len(v) = Len(r)
      BY <1>3, <3>2, <3>4, <3>5
    <3>8. v = r
      BY <3>2, <3>5, <3>6, <3>7, SeqEqual DEF Text
    <3>. QED  BY <3>8 DEF v, r
  <2>4. Framed(u, pre \o a, Append(rest, c))
    BY <1>2, <1>3, <1>7, <1>9, <2>2, <2>3 DEF Framed, ls
  <2>. DEFINE v == Append(rest, c)
  <2>. HIDE DEF s, v
  <2>5. s.lines = a /\ s.rest = v /\ s = [lines |-> s.lines, rest |-> s.rest]
    BY <2>1 DEF v
  <2>6. Framed(u, pre \o s.lines, s.rest)
    BY <2>4, <2>5 DEF v
  <2>. QED  BY <2>5, <2>6 DEF s, u
<1>10. CASE c = Stdio!NL /\ Stdio!HasText(line)
  <2>. DEFINE new == Append(a, line)
  <2>1. s = [lines |-> new, rest |-> <<>>]
    <3>1. \A x : Stdio!Scan(x, c) = [lines |-> Append(x.lines, Stdio!Strip(x.rest)), rest |-> <<>>]
                 \/ ~Stdio!HasText(Stdio!Strip(x.rest))
      BY <1>10 DEF Stdio!Scan
    <3>. DEFINE x == [lines |-> a, rest |-> rest]
    <3>2. x.lines = a /\ x.rest = rest
      OBVIOUS
    <3>. HIDE DEF x
    <3>3. Stdio!Scan(x, c) = [lines |-> new, rest |-> <<>>]
      BY <1>10, <3>1, <3>2, Zenon DEF line
    <3>. QED  BY <3>3 DEF x
  <2>2. new \in Seq(Text) /\ pre \o new = Append(ls, line)
    BY <1>5, JoinedAppend DEF ls
  <2>. DEFINE ms == Append(ls, line)
  <2>3. /\ ms \in Seq(Text) /\ Len(ls) \in Nat /\ Len(ms) = Len(ls) + 1
        /\ ms[Len(ls) + 1] = line /\ \A k \in 1 .. Len(ls) : ms[k] = ls[k]
    BY <1>2, <1>5
  <2>4. F = E \cup {n + 1} /\ n + 1 \notin E
    BY <1>3, <1>4, <1>10
  <2>5. Cardinality(F) = Len(ms) /\ IsFiniteSet(F)
    BY <1>4, <1>6, <2>3, <2>4, FS_AddElement
  <2>. HIDE DEF new, ms
  <2>6. ASSUME NEW i \in F PROVE ms[Cardinality({j \in F : j <= i})] = Stdio!LineAt(u, i)
    <3>1. CASE i \in E
      <4>. DEFINE B == {j \in E : j <= i}
      <4>1. {j \in F : j <= i} = B
        BY <1>3, <1>4, <2>4, <3>1
      <4>2. B # {} /\ B \subseteq E
        BY <1>4, <3>1
      <4>. HIDE DEF B
      <4>3. IsFiniteSet(B) /\ Cardinality(B) <= Cardinality(E) /\ Cardinality(B) \in Nat
        <5>1. IsFiniteSet(B) /\ Cardinality(B) <= Cardinality(E)
          BY <1>4, <4>2, FS_Subset, Zenon
        <5>. QED  BY <5>1, FS_CardinalityType, Zenon
      <4>4. Cardinality(B) # 0
        BY <4>2, <4>3, FS_EmptySet
      <4>5. Cardinality(B) \in 1 .. Len(ls)
        BY <1>6, <2>3, <4>3, <4>4
      <4>6. ms[Cardinality(B)] = ls[Cardinality(B)]
        BY <2>3, <4>5
      <4>7. ls[Cardinality(B)] = Stdio!LineAt(t, i)
        BY <1>6, <3>1 DEF B
      <4>. QED  BY <1>4, <3>1, <4>1, <4>6, <4>7
    <3>2. CASE i = n + 1
      <4>1. {j \in F : j <= i} = F
        <5>1. \A j \in E : j <= n + 1
          BY <1>3, <1>4
        <5>2. \A j \in F : j <= n + 1
          BY <1>3, <2>4, <5>1
        <5>. QED  BY <3>2, <5>2
      <4>2. Stdio!LineAt(u, n + 1) = line
        BY <1>1, <1>2, LineOfRest DEF u, n, line
      <4>. QED  BY <2>3, <2>5, <3>2, <4>1, <4>2
    <3>. QED  BY <2>4, <3>1, <3>2
  <2>7. Exact(u, ms)
    BY <2>5, <2>6 DEF Exact, F
  <2>8. Framed(u, ms, <<>>)
    BY <1>3, <1>7, <1>8, <1>10, <2>3, <2>7 DEF Framed
  <2>. HIDE DEF s
  <2>9. s.lines = new /\ s.rest = <<>> /\ s = [lines |-> s.lines, rest |-> s.rest]
    BY <2>1
  <2>10. Framed(u, pre \o s.lines, s.rest)
    BY <2>2, <2>8, <2>9 DEF ms
  <2>. QED  BY <2>2, <2>9, <2>10 DEF s, u
<1>11. CASE c = Stdio!NL /\ ~Stdio!HasText(line)
  <2>1. s = [lines |-> a, rest |-> <<>>]
    <3>1. \A x : Stdio!HasText(Stdio!Strip(x.rest)) \/ Stdio!Scan(x, c) = [x EXCEPT !.rest = <<>>]
      BY <1>11 DEF Stdio!Scan
    <3>. QED  BY <1>11, <3>1 DEF line
  <2>2. Exact(u, ls)
    BY <1>4, <1>6, <1>11 DEF Exact, E, F
  <2>3. Framed(u, ls, <<>>)
    BY <1>2, <1>3, <1>7, <1>8, <1>11, <2>2 DEF Framed
  <2>. HIDE DEF s
  <2>. QED  BY <2>1, <2>3 DEF s, u, ls
<1>. QED  BY <1>9, <1>10, <1>11

\* What was consumed ends with a newline, and the buffer follows it.
LEMMA Consumed ==
  ASSUME NEW t, NEW ls, NEW rest, Framed(t, ls, rest)
  PROVE  rest \in Text /\ \E p \in Text : t = p \o rest /\ Framed(p, ls, <<>>)
<1>1. PICK m \in Nat : Cut(t, m) /\ rest = SubSeq(t, m + 1, Len(t))
  BY DEF Framed
<1>. DEFINE p == SubSeq(t, 1, m)
<1>2. t \in Text /\ ls \in Seq(Text) /\ Exact(t, ls) /\ Len(t) \in Nat
  BY DEF Framed, Text
<1>3. m \in 0 .. Len(t) /\ (m = 0 \/ t[m] = Stdio!NL) /\ \A j \in m + 1 .. Len(t) : t[j] # Stdio!NL
  BY <1>1 DEF Cut
<1>4. p \in Text /\ rest \in Text /\ p \o rest = t
  BY <1>1, <1>2, <1>3, JoinedAgain DEF Text
<1>5. Len(p) = m /\ \A i \in 1 .. m : p[i] = t[i]
  <2>1. 1 \in Int /\ m \in Int /\ \A i \in 1 .. m : t[i] \in Stdio!Chars
    BY <1>2, <1>3 DEF Text
  <2>2. /\ Len(p) = IF 1 <= m THEN m - 1 + 1 ELSE 0
        /\ \A i \in 1 .. m - 1 + 1 : p[i] = t[1 + i - 1]
    BY <2>1, SubSeqProperties
  <2>. HIDE DEF p
  <2>. QED  BY <2>2
<1>. HIDE DEF p
<1>6. ASSUME NEW i \in 1 .. m PROVE Stdio!LineAt(t, i) = Stdio!LineAt(p, i)
  <2>1. Len(p) <= Len(t) /\ i \in 1 .. Len(p) /\ \A j \in 1 .. Len(p) : t[j] = p[j]
    BY <1>2, <1>3, <1>5
  <2>. QED  BY <1>2, <1>4, <2>1, LineOfPrefix
<1>7. Stdio!Ends(p) = Stdio!Ends(t) /\ Stdio!Ends(t) \subseteq 1 .. m
  <2>. DEFINE X(v, i) == \E k \in DOMAIN Stdio!LineAt(v, i) : Stdio!LineAt(v, i)[k] = "x"
  <2>1. \A v : Stdio!Ends(v) = {i \in 1 .. Len(v) : v[i] = Stdio!NL /\ X(v, i)}
    BY Zenon DEF Stdio!Ends
  <2>2. \A i \in 1 .. m : X(p, i) <=> X(t, i)
    BY <1>6
  <2>. HIDE DEF X
  <2>3. \A i \in 1 .. Len(t) : t[i] = Stdio!NL => i \in 1 .. m
    BY <1>2, <1>3
  <2>4. \A i \in 1 .. m : i \in 1 .. Len(t) /\ p[i] = t[i]
    BY <1>2, <1>3, <1>5
  <2>. QED  BY <1>5, <2>1, <2>2, <2>3, <2>4
<1>8. Exact(p, ls)
  BY <1>2, <1>6, <1>7 DEF Exact
<1>9. Cut(p, m) /\ SubSeq(p, m + 1, Len(p)) = <<>>
  <2>1. m + 1 .. Len(p) = {} /\ m \in 0 .. Len(p) /\ m < m + 1 /\ m + 1 \in Int
    BY <1>5
  <2>2. m = 0 \/ p[m] = Stdio!NL
    BY <1>3, <1>5
  <2>3. SubSeq(p, m + 1, Len(p)) = <<>>
    BY <1>5, <2>1, SubSeqEmpty
  <2>. QED  BY <2>1, <2>2, <2>3 DEF Cut
<1>. QED  BY <1>2, <1>4, <1>8, <1>9 DEF Framed

\* However the input is cut: the loop over the buffer and the chunk goes on where the
\* input was consumed up to.
LEMMA TextScanned ==
  ASSUME NEW p \in Text, NEW pre \in Seq(Text), Framed(p, pre, <<>>), NEW text \in Text
  PROVE  LET split == Stdio!SplitLines(text) IN Framed(p \o text, pre \o split.lines, split.rest)
<1>. DEFINE n == Len(text)
            w(k) == SubSeq(text, 1, k)
<1>1. n \in Nat /\ \A k \in 1 .. n : text[k] \in Stdio!Chars
  BY DEF Text
<1>2. PICK f : Scans(text, n, f) /\ Stdio!SplitLines(text) = f[n]
  BY <1>1, SplitScans
<1>3. f[0] = Nothing /\ \A k \in 1 .. n : f[k] = Stdio!Scan(f[k - 1], text[k])
  <2>1. \A k \in 0 .. n : f[k] = IF k = 0 THEN Nothing ELSE Stdio!Scan(f[k - 1], text[k])
    BY <1>2, Zenon DEF Scans
  <2>2. 0 \in 0 .. n /\ \A k \in 1 .. n : k \in 0 .. n /\ k # 0
    BY <1>1
  <2>. QED  BY <2>1, <2>2
<1>. DEFINE Good(k) == /\ f[k] = [lines |-> f[k].lines, rest |-> f[k].rest]
                       /\ f[k].lines \in Seq(Text)
                       /\ Framed(p \o w(k), pre \o f[k].lines, f[k].rest)
            S == {k \in Nat : k <= n => Good(k)}
<1>. HIDE DEF n
<1>4. 0 \in S
  <2>1. w(0) = <<>> /\ p \o <<>> = p /\ pre \o <<>> = pre
    BY SubSeqEmpty, ConcatEmptySeq DEF Text
  <2>2. f[0].lines = <<>> /\ f[0].rest = <<>> /\ <<>> \in Seq(Text)
    BY <1>3 DEF Nothing
  <2>3. f[0] = [lines |-> f[0].lines, rest |-> f[0].rest]
    BY <1>3, <2>2 DEF Nothing
  <2>. HIDE DEF w
  <2>4. Good(0)
    BY <2>1, <2>2, <2>3
  <2>. QED  BY <2>4
<1>5. ASSUME NEW k \in Nat, k \in S PROVE k + 1 \in S
  <2>. SUFFICES ASSUME k + 1 <= n PROVE Good(k + 1)
    OBVIOUS
  <2>1. k + 1 \in 1 .. n /\ (k + 1) - 1 = k /\ k <= n
    BY <1>1
  <2>2. Good(k)
    BY <1>5, <2>1
  <2>3. text[k + 1] \in Stdio!Chars /\ f[k + 1] = Stdio!Scan(f[k], text[k + 1])
    BY <1>1, <1>3, <2>1
  <2>4. w(k) \in Text /\ w(k + 1) = Append(w(k), text[k + 1])
    <3>. DEFINE e == text[k + 1]
                x == w(k)
                v == Append(x, e)
    <3>1. /\ x \in Text /\ Len(x) = k /\ \A i \in 1 .. k : x[i] = text[i]
      <4>1. \A i \in 1 .. k : text[i] \in Stdio!Chars
        BY <1>1, <2>1
      <4>2. /\ w(k) \in Text /\ Len(w(k)) = IF 1 <= k THEN k - 1 + 1 ELSE 0
            /\ \A i \in 1 .. k - 1 + 1 : w(k)[i] = text[1 + i - 1]
        BY <4>1, SubSeqProperties DEF Text
      <4>. HIDE DEF w
      <4>. QED  BY <4>2
    <3>2. /\ w(k + 1) \in Text /\ Len(w(k + 1)) = k + 1
          /\ \A i \in 1 .. k + 1 : w(k + 1)[i] = text[i]
      <4>1. \A i \in 1 .. k + 1 : text[i] \in Stdio!Chars
        BY <1>1, <2>1
      <4>2. /\ w(k + 1) \in Text /\ Len(w(k + 1)) = IF 1 <= k + 1 THEN k + 1 - 1 + 1 ELSE 0
            /\ \A i \in 1 .. k + 1 - 1 + 1 : w(k + 1)[i] = text[1 + i - 1]
        BY <4>1, SubSeqProperties DEF Text
      <4>. HIDE DEF w
      <4>. QED  BY <4>2
    <3>. HIDE DEF w, e, x
    <3>3. e \in Stdio!Chars /\ text[k + 1] = e
      BY <2>3 DEF e
    <3>4. /\ v \in Text /\ Len(v) = k + 1 /\ v[k + 1] = e /\ \A i \in 1 .. k : v[i] = x[i]
      BY <3>1, <3>3, GrownText
    <3>. HIDE DEF v
    <3>5. ASSUME NEW i \in 1 .. k + 1 PROVE w(k + 1)[i] = v[i]
      <4>1. CASE i = k + 1
        BY <3>2, <3>3, <3>4, <4>1
      <4>2. CASE i # k + 1
        <5>1. i \in 1 .. k
          BY <4>2
        <5>. QED  BY <3>1, <3>2, <3>4, <5>1
      <4>. QED  BY <4>1, <4>2
    <3>6. w(k + 1) = v
      BY <3>2, <3>4, <3>5, SeqEqual DEF Text
    <3>. QED  BY <3>1, <3>6 DEF v, x, e
  <2>5. p \o w(k + 1) = Append(p \o w(k), text[k + 1])
    <3>. DEFINE e == text[k + 1]
                x == w(k)
    <3>1. x \in Seq(Stdio!Chars) /\ e \in Stdio!Chars /\ p \in Seq(Stdio!Chars) /\ w(k + 1) = Append(x, e)
      BY <2>3, <2>4 DEF Text
    <3>. HIDE DEF w, x, e
    <3>2. p \o Append(x, e) = Append(p \o x, e)
      BY <3>1, JoinedAppend
    <3>. QED  BY <3>1, <3>2 DEF x, e
  <2>. DEFINE a == f[k].lines
              r == f[k].rest
              c == text[k + 1]
              t == p \o w(k)
              s == f[k + 1]
  <2>6. a \in Seq(Text) /\ c \in Stdio!Chars /\ Framed(t, pre \o a, r)
    BY <2>2, <2>3
  <2>7. s = Stdio!Scan([lines |-> a, rest |-> r], c)
    BY <2>2, <2>3
  <2>8. p \o w(k + 1) = Append(t, c)
    BY <2>5
  <2>. HIDE DEF a, r, c, t, w
  <2>9. LET x == Stdio!Scan([lines |-> a, rest |-> r], c) IN
        /\ x = [lines |-> x.lines, rest |-> x.rest] /\ x.lines \in Seq(Text)
        /\ Framed(Append(t, c), pre \o x.lines, x.rest)
    BY <2>6, CharacterScanned
  <2>10. /\ s = [lines |-> s.lines, rest |-> s.rest] /\ s.lines \in Seq(Text)
         /\ Framed(Append(t, c), pre \o s.lines, s.rest)
    BY <2>7, <2>9, Zenon
  <2>. QED  BY <2>8, <2>10
<1>. HIDE DEF S
<1>6. n \in S
  BY <1>1, <1>4, <1>5, NatSet
<1>7. Good(n)
  BY <1>1, <1>6 DEF S
<1>8. w(n) = text
  BY SubSeqFull DEF n, Text
<1>. QED  BY <1>2, <1>7, <1>8 DEF n

StdioInv == Framed(input, lines, buffer)

LEMMA StdioStep ==
  ASSUME StdioInv, [Stdio!Next]_stdioVars
  PROVE  StdioInv'
<1>1. CASE UNCHANGED stdioVars
  BY <1>1 DEF StdioInv, Framed, Exact, Cut, stdioVars
<1>2. CASE Stdio!Next
  <2>1. PICK n \in 1 .. MaxChunk : \E chunk \in [1 .. n -> Stdio!Chars] : Stdio!Read(chunk)
    BY <1>2 DEF Stdio!Next
  <2>0. PICK chunk \in [1 .. n -> Stdio!Chars] : Stdio!Read(chunk)
    BY <2>1
  <2>2. chunk \in Text
    BY DEF Text
  <2>. DEFINE text == buffer \o chunk
              split == Stdio!SplitLines(text)
  <2>3. lines' = lines \o split.lines /\ buffer' = split.rest /\ input' = input \o chunk
    BY <2>0 DEF Stdio!Read
  <2>4. lines \in Seq(Text)
    BY DEF StdioInv, Framed
  <2>5. buffer \in Text /\ \E p \in Text : input = p \o buffer /\ Framed(p, lines, <<>>)
    BY Consumed DEF StdioInv
  <2>6. PICK p \in Text : input = p \o buffer /\ Framed(p, lines, <<>>)
    BY <2>5
  <2>7. text \in Text
    BY <2>2, <2>5, ConcatProperties DEF Text
  <2>8. p \o text = input \o chunk
    <3>1. p \in Seq(Stdio!Chars) /\ buffer \in Seq(Stdio!Chars) /\ chunk \in Seq(Stdio!Chars)
      BY <2>2, <2>5 DEF Text
    <3>2. (p \o buffer) \o chunk = p \o (buffer \o chunk)
      BY <3>1, ConcatAssociative
    <3>. QED  BY <2>6, <3>2, Zenon
  <2>. HIDE DEF text
  <2>9. Framed(p \o text, lines \o split.lines, split.rest)
    BY <2>4, <2>6, <2>7, TextScanned, Zenon
  <2>. HIDE DEF split
  <2>10. Framed(input', lines', buffer')
    BY <2>3, <2>8, <2>9, Zenon
  <2>. QED  BY <2>10 DEF StdioInv, Framed, Exact, Cut
<1>. QED  BY <1>1, <1>2

\* Wherever the chunks are cut, each message on stdin comes out once, whole and in order:
\* the loop of splitLines, over the buffer and the next chunk, finds what it would find in
\* the whole input.
THEOREM LinesAreFramed == ServersSpec => []FramingIsExact
<1>1. ServersInit => StdioInv
  <2>. SUFFICES ASSUME Stdio!Init PROVE StdioInv
    BY DEF ServersInit
  <2>1. input = <<>> /\ lines = <<>> /\ buffer = <<>>
    BY DEF Stdio!Init
  <2>2. Len(<<>>) = 0 /\ <<>> \in Text /\ <<>> \in Seq(Text)
    BY DEF Text
  <2>3. Stdio!Ends(<<>>) = {}
    BY <2>2 DEF Stdio!Ends
  <2>4. Exact(<<>>, <<>>)
    BY <2>2, <2>3, FS_EmptySet DEF Exact
  <2>5. Cut(<<>>, 0) /\ SubSeq(<<>>, 0 + 1, Len(<<>>)) = <<>>
    BY <2>2, SubSeqEmpty DEF Cut
  <2>. QED  BY <2>1, <2>2, <2>4, <2>5 DEF StdioInv, Framed
<1>2. StdioInv /\ [ServersNext]_<<vars, sseVars, stdioVars>> => StdioInv'
  <2>1. [ServersNext]_<<vars, sseVars, stdioVars>> => [Stdio!Next]_stdioVars
    BY DEF ServersNext
  <2>. QED  BY <2>1, StdioStep
<1>3. StdioInv => FramingIsExact
  <2>1. \A S : Stdio!Cardinality(S) = Cardinality(S)
    BY DEF Stdio!Cardinality, Cardinality
  <2>2. StdioInv => Exact(input, lines)
    BY DEF StdioInv, Framed
  <2>. QED  BY <2>1, <2>2 DEF Exact, FramingIsExact, Stdio!FramingIsExact
<1>. QED  BY <1>1, <1>2, <1>3, PTL DEF ServersSpec

----------------------------------------------------------------------------
(* The invariants *)

\* NATS: what is on its way goes on where the messages end.  Before the operation there
\* is nothing of it on its way, so that the handshake may turn its buffer round.
NatsPlain == [type : {"INFO", "PONG", "-ERR"}, n : {0}]
NatsEvents == NatsPlain \cup [type : {"MSG"}, n : Nat \ {0}]

NatsInv ==
  /\ call \in {"pending", "closing", "returned"} /\ open \in BOOLEAN /\ effects \in Nat
  /\ stage \in {"connecting", "info", "pong", "operating", "done"}
  /\ published \in Nat
  /\ eventBuf \in Seq(NatsEvents) /\ wire \in Seq(NatsEvents)
  /\ Numbered(messages)
  /\ stage \in {"connecting", "info", "pong"} =>
       /\ open = TRUE /\ effects = 0 /\ published = 0 /\ messages = <<>>
       /\ eventBuf \in Seq(NatsPlain) /\ wire \in Seq(NatsPlain)
  /\ stage = "operating" =>
       Chain(eventBuf \o wire, Counted(NatsEvents), Len(messages), published)
  /\ call # "pending" => stage = "done"

\* MQTT: the same, and the run is over when the call has returned.
MqttReplies == {"CONNACK", "PINGRESP", "PUBACK", "SUBACK"}
MqttPackets == [type : MqttReplies, n : {0}] \cup [type : {"PUBLISH"}, n : Nat \ {0}]

MqttInv ==
  /\ op \in Mqtt!Ops
  /\ call \in {"pending", "closing", "returned"} /\ open \in BOOLEAN /\ effects \in Nat
  /\ stage \in {"connecting", "connack", "awaiting", "collecting", "done"}
  /\ stage = "awaiting" => op # "connect"
  /\ published \in Nat /\ owed \subseteq MqttReplies
  /\ wire \in Seq(MqttPackets)
  /\ Numbered(messages) /\ acked = 1 .. Len(messages)
  /\ stage # "done" => Chain(wire, Counted(MqttPackets), Len(messages), published)
  /\ call # "pending" => ~Mqtt!Opening
  /\ call = "returned" => stage = "done" /\ open = FALSE

\* STOMP: what is on its way goes on where the messages end, up to the UNSUBSCRIBE; and
\* a wait that is over stays in the queue only until the call is.
StompReplies == {"CONNECTED", "RECEIPT", "DISCONNECTED"}
StompFrames ==
  [command : StompReplies \cup {"ERROR"}, n : {0}] \cup [command : {"MESSAGE"}, n : Nat \ {0}]

StompInv ==
  /\ call \in {"pending", "closing", "returned"} /\ open \in BOOLEAN /\ effects \in Nat
  /\ stage \in {"connecting", "connected", "receipt", "collecting", "unsub", "done"}
  /\ published \in Nat /\ owed \subseteq StompReplies
  /\ frameBuf \in Seq(StompFrames) /\ wire \in Seq(StompFrames)
  /\ Numbered(messages)
  /\ stage \in {"connecting", "connected", "receipt"} => open = TRUE
  /\ stage \in {"connecting", "connected", "receipt", "collecting"} =>
       Chain(frameBuf \o wire, Counted(StompFrames), Len(messages), published)
  /\ stage = "connecting" => waiters = <<>>
  /\ stage \in {"connected", "receipt", "collecting", "unsub"} => waiters = <<"run">>
  /\ stage = "done" => waiters \in {<<>>, <<"close">>, <<"stale">>}
  /\ waiters = <<"stale">> => call = "pending"
  /\ call # "pending" => stage = "done"

\* A WebSocket: the parts on their way go on where the messages, with the fragments of
\* the next one, end.  Number -n stands for the middle of message n.
WebSocketFrames ==
  [op : {"PING", "CLOSE"}, fin : {TRUE}, part : {0}]
    \cup [op : {"TEXT", "CONTINUATION"}, fin : BOOLEAN, part : Int]

Fits ==
  {x \in Int \X WebSocketFrames \X Int :
     LET from == x[1]  frame == x[2]  to == x[3] IN
     \/ frame.op \in {"PING", "CLOSE"} /\ to = from
     \/ frame.op = "TEXT" /\ from >= 0
          /\ to = (IF frame.fin THEN from + 1 ELSE -(from + 1)) /\ frame.part = to
     \/ frame.op = "CONTINUATION" /\ from < 0
          /\ to = (IF frame.fin THEN -from ELSE from) /\ frame.part = to}

\* All parts of message n but the last.
Begun(parts, n) == parts \in Seq(Int) /\ \A k \in 1 .. Len(parts) : parts[k] = -n

Whole(message, n) ==
  /\ message \in Seq(Int) /\ message # <<>> /\ message[Len(message)] = n
  /\ \A k \in 1 .. Len(message) - 1 : message[k] = -n

Received == IF frag = <<>> THEN Len(messages) ELSE -(Len(messages) + 1)

WebSocketInv ==
  /\ call \in {"pending", "closing", "returned"} /\ effects \in Nat
  /\ messages \in Seq(Seq(Int))
  /\ \A i \in 1 .. Len(messages) : Whole(messages[i], i)
  /\ call = "pending" =>
       /\ open = TRUE
       /\ served \in Int
       /\ parser \in Seq(WebSocketFrames) /\ wire \in Seq(WebSocketFrames)
       /\ Begun(frag, Len(messages) + 1)
       /\ Chain(parser \o wire, Fits, Received, served)

\* Kafka: a call that is over has a result, and it comes last.
KafkaInv ==
  /\ call \in {"pending", "closing", "returned"} /\ open \in BOOLEAN /\ effects \in Nat
  /\ result # "none" => stage = "over"
  /\ call # "pending" => result # "none"

ClientsInv ==
  /\ client = "nats" => NatsInv
  /\ client = "mqtt" => MqttInv
  /\ client = "stomp" => StompInv
  /\ client = "websocket" => WebSocketInv
  /\ client = "kafka" => KafkaInv

----------------------------------------------------------------------------
(* NATS *)

LEMMA NatsServes ==
  ASSUME NatsInv, Nats!Serve
  PROVE  NatsInv' /\ UNCHANGED <<call, open, effects>>
<1>1. PICK e \in NatsEvents :
        /\ wire' = Append(wire, e) /\ UNCHANGED Nats!natsClient
        /\ \/ e \in NatsPlain /\ published' = published
           \/ effects > 0 /\ e.n = published + 1 /\ published' = published + 1
  <2>1. CASE published' = published
    <3>1. PICK t \in {"INFO", "PONG", "-ERR"} : Nats!Emit(Nats!Ev(t))
      BY <2>1 DEF Nats!Serve, NatsInv
    <3>2. Nats!Ev(t) \in NatsPlain
      BY DEF Nats!Ev, NatsPlain
    <3>. QED  BY <2>1, <3>1, <3>2 DEF Nats!Emit, NatsEvents
  <2>2. CASE published' # published
    <3>1. effects > 0 /\ published' = published + 1 /\ Nats!Emit(Nats!Msg(published + 1))
      BY <2>2 DEF Nats!Serve, Nats!Emit
    <3>2. Nats!Msg(published + 1) \in NatsEvents /\ Nats!Msg(published + 1).n = published + 1
      BY DEF Nats!Msg, NatsEvents, NatsInv
    <3>. QED  BY <3>1, <3>2 DEF Nats!Emit
  <2>. QED  BY <2>1, <2>2
<1>2. UNCHANGED <<op, stage, eventBuf, messages, call, open, effects>>
  BY <1>1 DEF Nats!natsClient
<1>3. /\ published \in Nat /\ published' \in Nat /\ Len(messages) \in Nat
      /\ eventBuf \in Seq(NatsEvents) /\ wire \in Seq(NatsEvents)
      /\ wire' \in Seq(NatsEvents)
  BY <1>1 DEF NatsInv, Numbered
<1>4. CASE stage \in {"connecting", "info", "pong"}
  <2>1. e \in NatsPlain /\ published' = published /\ wire \in Seq(NatsPlain)
    BY <1>1, <1>4 DEF NatsInv
  <2>2. wire' \in Seq(NatsPlain)
    BY <1>1, <2>1
  <2>. QED  BY <1>2, <1>3, <1>4, <2>1, <2>2 DEF NatsInv
<1>5. CASE stage = "operating"
  <2>1. Chain(eventBuf \o wire, Counted(NatsEvents), Len(messages), published)
    BY <1>5 DEF NatsInv
  <2>2. /\ eventBuf \o wire \in Seq(NatsEvents)
        /\ eventBuf \o Append(wire, e) = Append(eventBuf \o wire, e)
    BY <1>3, JoinedAppend
  <2>3. e \in NatsPlain => e.n = 0
    BY DEF NatsPlain
  <2>4. Chain(Append(eventBuf \o wire, e), Counted(NatsEvents), Len(messages), published')
    BY <1>1, <1>3, <2>1, <2>2, <2>3, CountedSent, Zenon
  <2>. QED  BY <1>1, <1>2, <1>3, <1>5, <2>2, <2>4 DEF NatsInv
<1>6. CASE stage = "done"
  BY <1>2, <1>3, <1>6 DEF NatsInv
<1>. QED  BY <1>2, <1>4, <1>5, <1>6 DEF NatsInv

LEMMA NatsReceives ==
  ASSUME NatsInv, NEW k \in Nat, Nats!Data(k)
  PROVE  NatsInv' /\ UNCHANGED <<call, open, effects>>
<1>1. /\ eventBuf = <<>> /\ wire \in Seq(NatsEvents) /\ k \in 0 .. Len(wire)
      /\ eventBuf' = SubSeq(wire, 1, k) /\ wire' = SubSeq(wire, k + 1, Len(wire))
      /\ UNCHANGED <<op, stage, messages, call, open, effects, published>>
  BY DEF NatsInv, Nats!Data, Nats!Blocked
<1>2. eventBuf' \in Seq(NatsEvents) /\ wire' \in Seq(NatsEvents)
  BY <1>1, JoinedAgain
<1>3. CASE stage \in {"connecting", "info", "pong"}
  <2>1. wire \in Seq(NatsPlain)
    BY <1>3 DEF NatsInv
  <2>2. eventBuf' \in Seq(NatsPlain) /\ wire' \in Seq(NatsPlain)
    BY <1>1, <2>1, JoinedAgain
  <2>. QED  BY <1>1, <1>2, <1>3, <2>2 DEF NatsInv
<1>4. CASE stage = "operating"
  <2>1. Chain(<<>> \o wire, Counted(NatsEvents), Len(messages), published)
    BY <1>1, <1>4 DEF NatsInv
  <2>2. Chain(eventBuf' \o wire', Counted(NatsEvents), Len(messages), published)
    BY <1>1, <2>1, ChunkArrives
  <2>. QED  BY <1>1, <1>2, <1>4, <2>2 DEF NatsInv
<1>5. CASE stage = "done"
  BY <1>1, <1>2, <1>5 DEF NatsInv
<1>. QED  BY <1>3, <1>4, <1>5 DEF NatsInv

\* What it takes from the buffer during the handshake, and what ends the call.
LEMMA NatsTakes ==
  ASSUME NatsInv, Nats!TakeInfo \/ Nats!TakePong \/ Nats!TakeErr \/ Nats!TakeUnexpected
  PROVE  /\ NatsInv'
         /\ call = "pending" /\ open' = open /\ call' = call
         /\ \/ effects' = effects
            \/ effects' = effects + 1 /\ open = TRUE
<1>1. /\ eventBuf # <<>> /\ eventBuf \in Seq(NatsEvents) /\ call = "pending"
      /\ eventBuf' = Tail(eventBuf) /\ UNCHANGED <<op, call, open, wire, published, messages>>
  BY DEF NatsInv, Nats!TakeInfo, Nats!TakePong, Nats!TakeErr, Nats!TakeUnexpected, Nats!Take,
         Nats!Live
<1>2. eventBuf' \in Seq(NatsEvents)
  BY <1>1
<1>3. CASE Nats!TakeInfo
  <2>1. stage = "info" /\ stage' = "pong" /\ effects' = effects
    BY <1>3 DEF Nats!TakeInfo
  <2>2. eventBuf' \in Seq(NatsPlain)
    BY <1>1, <2>1 DEF NatsInv
  <2>. QED  BY <1>1, <1>2, <2>1, <2>2 DEF NatsInv
<1>4. CASE Nats!TakePong
  <2>1. stage = "pong" /\ open = TRUE /\ effects' \in {effects, effects + 1}
        /\ stage' \in {"operating", "done"}
    BY <1>4 DEF Nats!TakePong, Nats!Ends, NatsInv
  <2>2. /\ messages = <<>> /\ published = 0
        /\ eventBuf' \in Seq(NatsPlain) /\ wire \in Seq(NatsPlain)
    BY <1>1, <2>1 DEF NatsInv
  <2>3. Chain(eventBuf' \o wire, Counted(NatsEvents), 0, 0)
    <3>1. \A e \in NatsPlain : <<0, e, 0>> \in Counted(NatsEvents)
      BY DEF Counted, NatsEvents, NatsPlain
    <3>. DEFINE q == eventBuf' \o wire
    <3>2. q \in Seq(NatsPlain) /\ 0 \in Int
      BY <2>2
    <3>. HIDE DEF q
    <3>3. Chain(q, Counted(NatsEvents), 0, 0)
      BY <3>1, <3>2, ChainOfPlain
    <3>. QED  BY <3>3 DEF q
  <2>4. Len(messages) = 0
    BY <2>2
  <2>. QED  BY <1>1, <1>2, <2>1, <2>2, <2>3, <2>4 DEF NatsInv
<1>5. CASE Nats!TakeErr \/ Nats!TakeUnexpected
  <2>1. stage' = "done" /\ effects' = effects
    BY <1>5 DEF Nats!TakeErr, Nats!TakeUnexpected, Nats!Ends
  <2>. QED  BY <1>1, <1>2, <2>1 DEF NatsInv
<1>. QED  BY <1>3, <1>4, <1>5

LEMMA NatsTakesInOrder ==
  ASSUME NatsInv, Nats!TakeIgnored \/ Nats!TakeMsg
  PROVE  NatsInv' /\ UNCHANGED <<call, open, effects>>
<1>1. /\ stage = "operating" /\ call = "pending" /\ eventBuf # <<>>
      /\ eventBuf' = Tail(eventBuf) /\ UNCHANGED <<op, call, open, effects, wire, published>>
  BY DEF Nats!TakeIgnored, Nats!TakeMsg, Nats!Take, Nats!Live
<1>2. /\ eventBuf \in Seq(NatsEvents) /\ wire \in Seq(NatsEvents)
      /\ Numbered(messages) /\ Len(messages) \in Nat
      /\ Chain(eventBuf \o wire, Counted(NatsEvents), Len(messages), published)
  BY <1>1 DEF NatsInv, Numbered
<1>3. /\ eventBuf \o wire \in Seq(NatsEvents) /\ eventBuf \o wire # <<>>
      /\ Head(eventBuf \o wire) = Head(eventBuf)
      /\ Tail(eventBuf) \in Seq(NatsEvents) /\ Tail(eventBuf) \o wire = Tail(eventBuf \o wire)
  <2>1. eventBuf # <<>> /\ eventBuf \in Seq(NatsEvents) /\ wire \in Seq(NatsEvents)
    BY <1>1, <1>2
  <2>. QED  BY <2>1, JoinedTail
<1>. DEFINE e == Head(eventBuf)
            n == Len(messages)
<1>4. /\ e \in NatsEvents
      /\ e.n = 0 => Chain(eventBuf' \o wire, Counted(NatsEvents), n, published)
      /\ e.n # 0 => e.n = n + 1 /\ Chain(eventBuf' \o wire, Counted(NatsEvents), n + 1, published)
  <2>. DEFINE q == eventBuf \o wire
  <2>1. /\ q \in Seq(NatsEvents) /\ q # <<>> /\ Chain(q, Counted(NatsEvents), n, published)
        /\ Head(q) = e /\ Tail(q) = eventBuf' \o wire
    BY <1>1, <1>2, <1>3
  <2>. HIDE DEF q, e, n
  <2>2. /\ Head(q) \in NatsEvents
        /\ Head(q).n = 0 => Chain(Tail(q), Counted(NatsEvents), n, published)
        /\ Head(q).n # 0 =>
             Head(q).n = n + 1 /\ Chain(Tail(q), Counted(NatsEvents), n + 1, published)
    BY <2>1, CountedTaken
  <2>. QED  BY <2>1, <2>2
<1>5. CASE Nats!TakeIgnored
  <2>1. e.type = "INFO" /\ UNCHANGED <<stage, messages>>
    BY <1>5 DEF Nats!TakeIgnored, Nats!Take
  <2>2. e.n = 0
    BY <1>4, <2>1 DEF NatsEvents, NatsPlain
  <2>. QED  BY <1>1, <1>3, <1>4, <2>1, <2>2 DEF NatsInv
<1>6. CASE Nats!TakeMsg
  <2>1. e.type = "MSG" /\ messages' = Append(messages, e.n) /\ stage' \in {"operating", "done"}
    BY <1>1, <1>6 DEF Nats!TakeMsg, Nats!Take, Nats!Ends
  <2>2. e.n # 0
    BY <1>4, <2>1 DEF NatsEvents, NatsPlain
  <2>3. Numbered(messages') /\ Len(messages') = n + 1
    BY <1>2, <1>4, <2>1, <2>2, NumberedGrows
  <2>. QED  BY <1>1, <1>3, <1>4, <2>1, <2>2, <2>3 DEF NatsInv
<1>. QED  BY <1>5, <1>6

LEMMA NatsStep ==
  ASSUME NatsInv, Nats!Next
  PROVE  NatsInv' /\ [Call!Next]_(Call!vars)
<1>1. CASE Nats!Serve
  BY <1>1, NatsServes DEF Call!vars
<1>2. CASE Nats!Connected
  <2>1. /\ stage = "connecting" /\ stage' = "info"
        /\ UNCHANGED <<op, eventBuf, messages, call, open, effects, wire, published>>
    BY <1>2 DEF Nats!Connected
  <2>. QED  BY <2>1 DEF NatsInv, Call!vars
<1>3. CASE \E k \in 1 .. MaxSent - 1 : Nats!Data(k)
  <2>1. PICK k \in Nat : Nats!Data(k)
    BY <1>3 DEF Nats!Data, NatsInv
  <2>. QED  BY <2>1, NatsReceives DEF Call!vars
<1>4. CASE Nats!TakeInfo \/ Nats!TakePong \/ Nats!TakeErr \/ Nats!TakeUnexpected
  BY <1>4, NatsTakes DEF Call!vars, Call!Next, Call!Act
<1>5. CASE Nats!TakeIgnored \/ Nats!TakeMsg
  BY <1>5, NatsTakesInOrder DEF Call!vars
<1>6. CASE Nats!PutBack
  <2>1. /\ stage = "pong" /\ eventBuf # <<>>
        /\ eventBuf' = Append(Tail(eventBuf), Head(eventBuf))
        /\ UNCHANGED <<op, stage, messages, call, open, effects, wire, published>>
    BY <1>6 DEF Nats!PutBack
  <2>2. eventBuf \in Seq(NatsPlain) /\ eventBuf \in Seq(NatsEvents)
    BY <2>1 DEF NatsInv
  <2>3. eventBuf' \in Seq(NatsPlain) /\ eventBuf' \in Seq(NatsEvents)
    BY <2>1, <2>2
  <2>. QED  BY <2>1, <2>3 DEF NatsInv, Call!vars
<1>7. CASE Nats!Deadline
  <2>1. stage' = "done" /\ UNCHANGED <<op, eventBuf, messages, call, open, effects, wire, published>>
    BY <1>7 DEF Nats!Deadline, Nats!Ends
  <2>. QED  BY <2>1 DEF NatsInv, Call!vars
<1>8. CASE Nats!Fails \/ Nats!Closes
  <2>1. /\ stage' = "done" /\ open = TRUE /\ open' = FALSE /\ wire' = <<>>
        /\ UNCHANGED <<op, eventBuf, messages, call, effects, published>>
    BY <1>8 DEF Nats!Fails, Nats!Closes, Nats!Ends, NatsInv
  <2>2. wire' \in Seq(NatsEvents)
    BY <2>1
  <2>3. Call!Break
    BY <2>1 DEF Call!Break
  <2>. QED  BY <2>1, <2>2, <2>3 DEF NatsInv, Call!Next
<1>9. CASE Nats!Settle
  <2>1. /\ call = "pending" /\ call' = "closing" /\ stage' = "done"
        /\ UNCHANGED <<op, eventBuf, messages, open, effects, wire, published>>
    BY <1>9 DEF Nats!Settle, Nats!Ends, Nats!Live
  <2>2. Call!Settle
    BY <2>1 DEF Call!Settle
  <2>. QED  BY <2>1, <2>2 DEF NatsInv, Call!Next
<1>10. CASE Nats!Return
  <2>1. /\ call = "closing" /\ call' = "returned" /\ open' = FALSE
        /\ UNCHANGED <<op, stage, eventBuf, messages, effects, wire, published>>
    BY <1>10 DEF Nats!Return
  <2>2. Call!Return
    BY <2>1 DEF Call!Return
  <2>. QED  BY <2>1, <2>2 DEF NatsInv, Call!Next
<1>. QED  BY <1>1, <1>2, <1>3, <1>4, <1>5, <1>6, <1>7, <1>8, <1>9, <1>10 DEF Nats!Next, Nats!Takes

----------------------------------------------------------------------------
(* MQTT *)

LEMMA MqttServes ==
  ASSUME MqttInv, call # "closing", Mqtt!Serve
  PROVE  MqttInv' /\ UNCHANGED <<call, open, effects>>
<1>1. PICK e \in MqttPackets :
        /\ wire' = Append(wire, e) /\ UNCHANGED Mqtt!mqttClient /\ owed' \subseteq MqttReplies
        /\ \/ e.n = 0 /\ published' = published
           \/ e.n = published + 1 /\ published' = published + 1
  <2>1. CASE published' = published
    <3>1. PICK t \in MqttReplies :
            /\ wire' = Append(wire, Mqtt!Pkt(t)) /\ UNCHANGED Mqtt!mqttClient
            /\ owed' \subseteq MqttReplies
      BY <2>1 DEF Mqtt!Serve, MqttInv
    <3>2. Mqtt!Pkt(t) \in MqttPackets /\ Mqtt!Pkt(t).n = 0
      BY DEF Mqtt!Pkt, MqttPackets
    <3>. QED  BY <2>1, <3>1, <3>2
  <2>2. CASE published' # published
    <3>. DEFINE e == [type |-> "PUBLISH", n |-> published + 1]
    <3>1. /\ published' = published + 1 /\ wire' = Append(wire, e)
          /\ UNCHANGED <<Mqtt!mqttClient, owed>>
      BY <2>2 DEF Mqtt!Serve
    <3>2. e \in MqttPackets /\ e.n = published + 1 /\ owed \subseteq MqttReplies
      BY DEF MqttPackets, MqttInv
    <3>. QED  BY <3>1, <3>2
  <2>. QED  BY <2>1, <2>2
<1>2. UNCHANGED <<op, stage, messages, acked, call, open, effects>>
  BY <1>1 DEF Mqtt!mqttClient
<1>3. /\ published \in Nat /\ published' \in Nat /\ Len(messages) \in Nat
      /\ wire \in Seq(MqttPackets) /\ wire' \in Seq(MqttPackets)
  BY <1>1 DEF MqttInv, Numbered
<1>4. stage # "done" => Chain(wire', Counted(MqttPackets), Len(messages), published')
  <2>. SUFFICES ASSUME stage # "done"
                PROVE  Chain(wire', Counted(MqttPackets), Len(messages), published')
    OBVIOUS
  <2>1. Chain(wire, Counted(MqttPackets), Len(messages), published)
    BY DEF MqttInv
  <2>. QED  BY <1>1, <1>3, <2>1, CountedSent, Zenon
<1>. QED  BY <1>1, <1>2, <1>3, <1>4 DEF MqttInv, Mqtt!Opening

\* What is left on the wire by a packet that is taken from it.
LEMMA MqttTaken ==
  ASSUME MqttInv, NEW type, Mqtt!Next1(type), stage # "done"
  PROVE  /\ open = TRUE /\ call # "returned" /\ wire' \in Seq(MqttPackets)
         /\ UNCHANGED <<op, call, open, published>>
         /\ Head(wire) \in MqttPackets /\ Head(wire).type = type
         /\ type # "PUBLISH" => Chain(wire', Counted(MqttPackets), Len(messages), published)
         /\ type = "PUBLISH" =>
              /\ Head(wire).n = Len(messages) + 1
              /\ Chain(wire', Counted(MqttPackets), Len(messages) + 1, published)
<1>. DEFINE n == Len(messages)
<1>1. /\ open = TRUE /\ wire # <<>> /\ wire' = Tail(wire) /\ Head(wire).type = type
      /\ UNCHANGED <<op, call, open, published>>
  BY DEF Mqtt!Next1, MqttInv
<1>2. /\ wire \in Seq(MqttPackets) /\ call # "returned"
      /\ Chain(wire, Counted(MqttPackets), n, published)
  BY DEF MqttInv
<1>. HIDE DEF n
<1>3. /\ Head(wire) \in MqttPackets /\ Tail(wire) \in Seq(MqttPackets)
      /\ Head(wire).n = 0 => Chain(Tail(wire), Counted(MqttPackets), n, published)
      /\ Head(wire).n # 0 =>
           Head(wire).n = n + 1 /\ Chain(Tail(wire), Counted(MqttPackets), n + 1, published)
  BY <1>1, <1>2, CountedTaken
<1>4. Head(wire).n = 0 <=> type # "PUBLISH"
  BY <1>1, <1>3 DEF MqttPackets, MqttReplies
<1>. QED  BY <1>1, <1>2, <1>3, <1>4 DEF n

LEMMA MqttTakes ==
  ASSUME MqttInv, call # "closing",
         Mqtt!TakeConnack \/ Mqtt!Refused \/ Mqtt!TakeReply \/ Mqtt!TakeOther \/ Mqtt!TakePuback
  PROVE  /\ MqttInv'
         /\ call = "pending" /\ open' = open /\ call' = call
         /\ \/ effects' = effects
            \/ effects' = effects + 1 /\ open = TRUE
<1>1. PICK type : Mqtt!Next1(type)
  BY DEF Mqtt!TakeConnack, Mqtt!Refused, Mqtt!TakeReply, Mqtt!TakeOther, Mqtt!TakePuback
<1>2. stage # "done" /\ UNCHANGED <<messages, acked>>
  BY DEF Mqtt!TakeConnack, Mqtt!Refused, Mqtt!TakeReply, Mqtt!TakeOther, Mqtt!TakePuback
<1>3. /\ open = TRUE /\ call = "pending" /\ wire' \in Seq(MqttPackets)
      /\ UNCHANGED <<op, call, open, published>>
  BY <1>1, <1>2, MqttTaken DEF MqttInv
<1>4. CASE Mqtt!TakeConnack
  <2>1. /\ Mqtt!Next1("CONNACK")
        /\ stage' \in {"awaiting", "done"} /\ (stage' = "awaiting" => op # "connect")
        /\ effects' \in {effects, effects + 1} /\ owed' \subseteq MqttReplies
    <3>1. op # "connect" => Mqtt!Reply[op] \in MqttReplies
      BY DEF Mqtt!Reply, MqttInv, Mqtt!Ops, MqttReplies
    <3>2. owed \subseteq MqttReplies
      BY DEF MqttInv
    <3>. QED  BY <1>4, <3>1, <3>2 DEF Mqtt!TakeConnack, Mqtt!Ends
  <2>. "CONNACK" # "PUBLISH"
    OBVIOUS
  <2>2. Chain(wire', Counted(MqttPackets), Len(messages), published)
    BY <1>2, <2>1, MqttTaken
  <2>. QED  BY <1>2, <1>3, <2>1, <2>2 DEF MqttInv
<1>5. CASE Mqtt!TakeReply
  <2>1. /\ stage = "awaiting" /\ Mqtt!Next1(Mqtt!Reply[op])
        /\ stage' \in {"collecting", "done"}
        /\ effects' \in {effects, effects + 1} /\ owed' \subseteq MqttReplies
    BY <1>5 DEF Mqtt!TakeReply, Mqtt!Ends, MqttInv, MqttReplies
  <2>2. Mqtt!Reply[op] # "PUBLISH"
    BY DEF Mqtt!Reply, MqttInv, Mqtt!Ops
  <2>3. Chain(wire', Counted(MqttPackets), Len(messages), published)
    BY <1>2, <2>1, <2>2, MqttTaken
  <2>. QED  BY <1>2, <1>3, <2>1, <2>3 DEF MqttInv
<1>6. CASE Mqtt!TakePuback
  <2>1. stage = "collecting" /\ Mqtt!Next1("PUBACK") /\ UNCHANGED <<stage, effects, owed>>
    BY <1>6 DEF Mqtt!TakePuback
  <2>. "PUBACK" # "PUBLISH"
    OBVIOUS
  <2>2. Chain(wire', Counted(MqttPackets), Len(messages), published)
    BY <1>2, <2>1, MqttTaken
  <2>. QED  BY <1>2, <1>3, <2>1, <2>2 DEF MqttInv
<1>7. CASE Mqtt!Refused \/ Mqtt!TakeOther
  <2>1. stage' = "done" /\ UNCHANGED <<effects, owed>>
    BY <1>7 DEF Mqtt!Refused, Mqtt!TakeOther, Mqtt!Ends
  <2>. QED  BY <1>2, <1>3, <2>1 DEF MqttInv
<1>. QED  BY <1>4, <1>5, <1>6, <1>7

LEMMA MqttTakesMessage ==
  ASSUME MqttInv, call # "closing", Mqtt!TakeMessage
  PROVE  MqttInv' /\ UNCHANGED <<call, open, effects>>
<1>. DEFINE n == Len(messages)
<1>1. /\ stage = "collecting" /\ Mqtt!Next1("PUBLISH")
      /\ messages' = Append(messages, Head(wire).n) /\ acked' = acked \cup {Head(wire).n}
      /\ stage' \in {"collecting", "done"} /\ UNCHANGED <<effects, owed>>
  BY DEF Mqtt!TakeMessage, Mqtt!Ends
<1>2. /\ open = TRUE /\ call = "pending" /\ wire' \in Seq(MqttPackets)
      /\ UNCHANGED <<op, call, open, published>>
      /\ Head(wire).n = n + 1 /\ Chain(wire', Counted(MqttPackets), n + 1, published)
  BY <1>1, MqttTaken DEF MqttInv
<1>3. Numbered(messages) /\ acked = 1 .. n /\ n \in Nat
  BY DEF MqttInv, Numbered
<1>4. Numbered(messages') /\ Len(messages') = n + 1
  BY <1>1, <1>2, <1>3, NumberedGrows
<1>5. acked' = 1 .. n + 1
  BY <1>1, <1>2, <1>3
<1>. QED  BY <1>1, <1>2, <1>4, <1>5 DEF MqttInv

LEMMA MqttStep ==
  ASSUME MqttInv, Mqtt!Next
  PROVE  MqttInv' /\ [Call!Next]_(Call!vars)
<1>1. CASE Mqtt!Settle
  <2>1. /\ call = "pending" /\ call' = "closing" /\ ~Mqtt!Opening
        /\ UNCHANGED <<op, stage, messages, acked, open, effects, wire, owed, published>>
    BY <1>1 DEF Mqtt!Settle, Mqtt!Opening
  <2>2. Call!Settle
    BY <2>1 DEF Call!Settle
  <2>. QED  BY <2>1, <2>2 DEF MqttInv, Mqtt!Opening, Call!Next
<1>2. CASE Mqtt!Return
  <2>1. call = "closing" /\ ~Mqtt!Opening
    BY <1>2 DEF Mqtt!Return, MqttInv
  <2>2. /\ call' = "returned" /\ open' = FALSE /\ stage' = "done"
        /\ UNCHANGED <<op, messages, acked, effects, wire, owed, published>>
    BY <1>2, <2>1 DEF Mqtt!Return
  <2>3. Call!Return
    BY <2>1, <2>2 DEF Call!Return
  <2>. QED  BY <2>1, <2>2, <2>3 DEF MqttInv, Mqtt!Opening, Call!Next
<1>3. CASE call # "closing" /\ Mqtt!Serve
  BY <1>3, MqttServes DEF Call!vars
<1>4. CASE call # "closing" /\ Mqtt!Connected
  <2>1. /\ stage = "connecting" /\ stage' = "connack" /\ owed' = owed \cup {"CONNACK"}
        /\ UNCHANGED <<op, messages, acked, call, open, effects, wire, published>>
    BY <1>4 DEF Mqtt!Connected
  <2>2. owed' \subseteq MqttReplies
    BY <2>1 DEF MqttInv, MqttReplies
  <2>. QED  BY <2>1, <2>2 DEF MqttInv, Mqtt!Opening, Call!vars
<1>5. CASE /\ call # "closing"
           /\ \/ Mqtt!TakeConnack \/ Mqtt!Refused \/ Mqtt!TakeReply \/ Mqtt!TakeOther
              \/ Mqtt!TakePuback
  BY <1>5, MqttTakes DEF Call!vars, Call!Next, Call!Act
<1>6. CASE call # "closing" /\ Mqtt!TakeMessage
  BY <1>6, MqttTakesMessage DEF Call!vars
<1>7. CASE call # "closing" /\ Mqtt!Deadline
  <2>1. /\ stage' = "done"
        /\ UNCHANGED <<op, messages, acked, call, open, effects, wire, owed, published>>
    BY <1>7 DEF Mqtt!Deadline, Mqtt!Ends
  <2>. QED  BY <2>1 DEF MqttInv, Mqtt!Opening, Call!vars
<1>8. CASE call # "closing" /\ Mqtt!Breaks
  <2>1. /\ open = TRUE /\ open' = FALSE /\ wire' = <<>> /\ stage' = "done"
        /\ UNCHANGED <<op, messages, acked, call, effects, owed, published>>
    BY <1>8 DEF Mqtt!Breaks, Mqtt!Ends, MqttInv
  <2>2. wire' \in Seq(MqttPackets)
    BY <2>1
  <2>3. Call!Break
    BY <2>1 DEF Call!Break
  <2>. QED  BY <2>1, <2>2, <2>3 DEF MqttInv, Mqtt!Opening, Call!Next
<1>. QED  BY <1>1, <1>2, <1>3, <1>4, <1>5, <1>6, <1>7, <1>8 DEF Mqtt!Next

----------------------------------------------------------------------------
(* STOMP *)

Reads == {"connecting", "connected", "receipt", "collecting"}

LEMMA StompServes ==
  ASSUME StompInv, Stomp!Serve \/ Stomp!Publish
  PROVE  StompInv' /\ UNCHANGED <<call, open, effects>>
<1>1. PICK e \in StompFrames :
        /\ wire' = Append(wire, e) /\ UNCHANGED Stomp!stompClient /\ owed' \subseteq StompReplies
        /\ \/ e.n = 0 /\ published' = published
           \/ e.n = published + 1 /\ published' = published + 1
  <2>1. CASE Stomp!Serve
    <3>1. PICK t \in StompReplies \cup {"ERROR"} :
            /\ wire' = Append(wire, Stomp!Frame(t)) /\ owed' \subseteq StompReplies
            /\ UNCHANGED Stomp!stompClient /\ published' = published
      BY <2>1 DEF Stomp!Serve, StompInv
    <3>2. Stomp!Frame(t) \in StompFrames /\ Stomp!Frame(t).n = 0
      BY DEF Stomp!Frame, StompFrames
    <3>. QED  BY <3>1, <3>2
  <2>2. CASE Stomp!Publish
    <3>. DEFINE e == [command |-> "MESSAGE", n |-> published + 1]
    <3>1. /\ published' = published + 1 /\ wire' = Append(wire, e)
          /\ UNCHANGED <<Stomp!stompClient, owed>>
      BY <2>2 DEF Stomp!Publish
    <3>2. e \in StompFrames /\ e.n = published + 1 /\ owed \subseteq StompReplies
      BY DEF StompFrames, StompInv
    <3>. QED  BY <3>1, <3>2
  <2>. QED  BY <2>1, <2>2
<1>2. UNCHANGED <<op, stage, waiters, frameBuf, messages, call, open, effects>>
  BY <1>1 DEF Stomp!stompClient
<1>3. /\ published \in Nat /\ published' \in Nat /\ Len(messages) \in Nat
      /\ frameBuf \in Seq(StompFrames) /\ wire \in Seq(StompFrames)
      /\ wire' \in Seq(StompFrames)
  BY <1>1 DEF StompInv, Numbered
<1>4. stage \in Reads =>
        Chain(frameBuf \o wire', Counted(StompFrames), Len(messages), published')
  <2>. SUFFICES ASSUME stage \in Reads
                PROVE  Chain(frameBuf \o wire', Counted(StompFrames), Len(messages), published')
    OBVIOUS
  <2>1. Chain(frameBuf \o wire, Counted(StompFrames), Len(messages), published)
    BY DEF StompInv, Reads
  <2>2. /\ frameBuf \o wire \in Seq(StompFrames)
        /\ frameBuf \o Append(wire, e) = Append(frameBuf \o wire, e)
    BY <1>3, JoinedAppend
  <2>3. Chain(Append(frameBuf \o wire, e), Counted(StompFrames), Len(messages), published')
    BY <1>1, <1>3, <2>1, <2>2, CountedSent, Zenon
  <2>. QED  BY <1>1, <2>2, <2>3
<1>. QED  BY <1>1, <1>2, <1>3, <1>4 DEF StompInv, Reads

LEMMA StompReceives ==
  ASSUME StompInv, NEW k \in Nat, Stomp!Data(k)
  PROVE  StompInv' /\ UNCHANGED <<call, open, effects>>
<1>1. /\ frameBuf = <<>> /\ wire \in Seq(StompFrames) /\ k \in 0 .. Len(wire)
      /\ frameBuf' = SubSeq(wire, 1, k) /\ wire' = SubSeq(wire, k + 1, Len(wire))
      /\ UNCHANGED <<op, stage, waiters, messages, call, open, effects, owed, published>>
  BY DEF StompInv, Stomp!Data, Stomp!Blocked
<1>2. frameBuf' \in Seq(StompFrames) /\ wire' \in Seq(StompFrames)
  BY <1>1, JoinedAgain
<1>3. ASSUME stage \in Reads
      PROVE  Chain(frameBuf' \o wire', Counted(StompFrames), Len(messages), published)
  <2>1. Chain(<<>> \o wire, Counted(StompFrames), Len(messages), published)
    BY <1>1, <1>3 DEF StompInv, Reads
  <2>. QED  BY <1>1, <2>1, ChunkArrives
<1>. QED  BY <1>1, <1>2, <1>3 DEF StompInv, Reads

\* What is left in the buffer by a frame that is taken from it, before it is known how
\* the action goes on.
LEMMA StompTaken ==
  ASSUME StompInv, NEW who, Stomp!Take(who)
  PROVE  /\ frameBuf' \in Seq(StompFrames) /\ UNCHANGED <<op, wire, published>>
         /\ waiters # <<>> /\ Head(waiters) = who
         /\ Head(frameBuf) \in StompFrames
         /\ stage \in Reads /\ Head(frameBuf).command # "MESSAGE" =>
              Chain(frameBuf' \o wire, Counted(StompFrames), Len(messages), published)
         /\ stage \in Reads /\ Head(frameBuf).command = "MESSAGE" =>
              /\ Head(frameBuf).n = Len(messages) + 1
              /\ Chain(frameBuf' \o wire, Counted(StompFrames), Len(messages) + 1, published)
<1>. DEFINE n == Len(messages)
            e == Head(frameBuf)
            q == frameBuf \o wire
<1>1. /\ waiters # <<>> /\ Head(waiters) = who
      /\ frameBuf # <<>> /\ frameBuf' = Tail(frameBuf) /\ UNCHANGED <<op, wire, published>>
  BY DEF Stomp!Take
<1>2. frameBuf \in Seq(StompFrames) /\ wire \in Seq(StompFrames)
  BY DEF StompInv
<1>3. /\ q \in Seq(StompFrames) /\ q # <<>> /\ Head(q) = e
      /\ frameBuf' \in Seq(StompFrames) /\ Tail(q) = frameBuf' \o wire
  BY <1>1, <1>2, JoinedTail
<1>4. e \in StompFrames
  BY <1>1, <1>2
<1>5. e.n = 0 <=> e.command # "MESSAGE"
  BY <1>4 DEF StompFrames, StompReplies
<1>6. ASSUME stage \in Reads
      PROVE  /\ e.n = 0 => Chain(Tail(q), Counted(StompFrames), n, published)
             /\ e.n # 0 => e.n = n + 1 /\ Chain(Tail(q), Counted(StompFrames), n + 1, published)
  <2>1. Chain(q, Counted(StompFrames), n, published)
    BY <1>6 DEF StompInv, Reads
  <2>. HIDE DEF q, e, n
  <2>2. /\ Head(q).n = 0 => Chain(Tail(q), Counted(StompFrames), n, published)
        /\ Head(q).n # 0 =>
             Head(q).n = n + 1 /\ Chain(Tail(q), Counted(StompFrames), n + 1, published)
    BY <1>3, <2>1, CountedTaken
  <2>. QED  BY <1>3, <2>2
<1>. HIDE DEF q, n, e
<1>. QED  BY <1>1, <1>3, <1>4, <1>5, <1>6 DEF e, n

LEMMA OneWaiter == Head(<<"run">>) = "run" /\ Tail(<<"run">>) = <<>> /\ <<"run">> # <<>>
OBVIOUS

LEMMA StompTakes ==
  ASSUME StompInv,
         Stomp!TakeConnected \/ Stomp!Refused \/ Stomp!TakeReceipt \/ Stomp!TakeUnexpected
           \/ Stomp!Unsubscribed
  PROVE  StompInv' /\ [Call!Next]_(Call!vars)
<1>1. Stomp!Take("run") /\ UNCHANGED <<messages, call>>
  BY DEF Stomp!TakeConnected, Stomp!Refused, Stomp!TakeReceipt, Stomp!TakeUnexpected,
         Stomp!Unsubscribed, Stomp!RunTakes
<1>2. frameBuf' \in Seq(StompFrames) /\ UNCHANGED <<op, wire, published>>
  BY <1>1, StompTaken
<1>3. /\ stage # "done" /\ call = "pending" /\ waiters = <<"run">> /\ Tail(waiters) = <<>>
  BY OneWaiter DEF Stomp!TakeConnected, Stomp!Refused, Stomp!TakeReceipt, Stomp!TakeUnexpected,
         Stomp!Unsubscribed, StompInv
<1>4. CASE Stomp!TakeConnected
  <2>1. /\ stage = "connected" /\ Head(frameBuf).command = "CONNECTED"
        /\ \/ stage' = "done" /\ waiters' = <<>>
           \/ stage' = "receipt" /\ waiters' = waiters
        /\ effects' \in {effects, effects + 1} /\ open' = open /\ owed' \in {owed, {"RECEIPT"}}
    BY <1>3, <1>4 DEF Stomp!TakeConnected, Stomp!RunTakes, Stomp!Ends
  <2>2. Chain(frameBuf' \o wire, Counted(StompFrames), Len(messages), published)
    <3>. "CONNECTED" # "MESSAGE" /\ "connected" \in Reads
      BY DEF Reads
    <3>. QED  BY <1>1, <2>1, StompTaken
  <2>3. open = TRUE /\ owed' \subseteq StompReplies
    BY <2>1 DEF StompInv, StompReplies
  <2>4. StompInv'
    BY <1>1, <1>2, <1>3, <2>1, <2>2, <2>3 DEF StompInv
  <2>5. effects' = effects + 1 => Call!Act
    BY <1>1, <1>3, <2>1, <2>3 DEF Call!Act
  <2>. QED  BY <1>1, <2>1, <2>4, <2>5 DEF Call!Next, Call!vars
<1>5. CASE Stomp!TakeReceipt
  <2>1. /\ stage = "receipt" /\ Head(frameBuf).command = "RECEIPT"
        /\ \/ stage' = "done" /\ waiters' = <<>>
           \/ stage' = "collecting" /\ waiters' = waiters
        /\ effects' \in {effects, effects + 1} /\ UNCHANGED <<open, owed>>
    BY <1>3, <1>5 DEF Stomp!TakeReceipt, Stomp!RunTakes, Stomp!Ends
  <2>2. Chain(frameBuf' \o wire, Counted(StompFrames), Len(messages), published)
    <3>. "RECEIPT" # "MESSAGE" /\ "receipt" \in Reads
      BY DEF Reads
    <3>. QED  BY <1>1, <2>1, StompTaken
  <2>3. open = TRUE
    BY <2>1 DEF StompInv
  <2>4. StompInv'
    BY <1>1, <1>2, <1>3, <2>1, <2>2, <2>3 DEF StompInv
  <2>5. effects' = effects + 1 => Call!Act
    BY <1>1, <1>3, <2>1, <2>3 DEF Call!Act
  <2>. QED  BY <1>1, <2>1, <2>4, <2>5 DEF Call!Next, Call!vars
<1>6. CASE Stomp!Refused
  <2>1. /\ stage = "connected" /\ stage' = "done" /\ waiters' = <<>>
        /\ open' = FALSE /\ UNCHANGED <<effects, owed>>
    BY <1>3, <1>6 DEF Stomp!Refused, Stomp!Ends
  <2>2. Call!Break
    BY <1>1, <2>1 DEF Call!Break, StompInv
  <2>. QED  BY <1>1, <1>2, <1>3, <2>1, <2>2 DEF StompInv, Call!Next
<1>7. CASE Stomp!TakeUnexpected \/ Stomp!Unsubscribed
  <2>1. /\ stage' = "done" /\ waiters' = <<>> /\ UNCHANGED <<open, effects, owed>>
    BY <1>3, <1>7 DEF Stomp!TakeUnexpected, Stomp!Unsubscribed, Stomp!RunTakes, Stomp!Ends
  <2>. QED  BY <1>1, <1>2, <1>3, <2>1 DEF StompInv, Call!vars
<1>. QED  BY <1>4, <1>5, <1>6, <1>7

LEMMA StompTakesMessage ==
  ASSUME StompInv, Stomp!TakeMessage
  PROVE  StompInv' /\ UNCHANGED <<call, open, effects>>
<1>. DEFINE n == Len(messages)
<1>1. /\ stage = "collecting" /\ Stomp!Take("run") /\ Head(frameBuf).command = "MESSAGE"
      /\ messages' = Append(messages, Head(frameBuf).n)
      /\ UNCHANGED <<call, open, effects>>
  BY DEF Stomp!TakeMessage, Stomp!RunTakes
<1>2. call = "pending" /\ waiters = <<"run">> /\ Tail(waiters) = <<>>
  BY <1>1, OneWaiter DEF StompInv
<1>3. /\ \/ stage' = "done" /\ waiters' = <<>>
         \/ stage' = "unsub" /\ waiters' = <<"run">>
         \/ stage' = stage /\ waiters' = waiters
      /\ owed' \subseteq StompReplies \cup {"RECEIPT"}
  BY <1>2 DEF Stomp!TakeMessage, Stomp!Ends, Stomp!Unsubscribe, StompInv
<1>4. /\ frameBuf' \in Seq(StompFrames) /\ UNCHANGED <<op, wire, published>>
      /\ Head(frameBuf).n = n + 1
      /\ Chain(frameBuf' \o wire, Counted(StompFrames), n + 1, published)
  BY <1>1, StompTaken DEF Reads
<1>5. Numbered(messages') /\ Len(messages') = n + 1
  BY <1>1, <1>4, NumberedGrows DEF StompInv
<1>6. owed' \subseteq StompReplies
  BY <1>3 DEF StompReplies
<1>. QED  BY <1>1, <1>2, <1>3, <1>4, <1>5, <1>6 DEF StompInv

LEMMA StompStep ==
  ASSUME StompInv, Stomp!Next
  PROVE  StompInv' /\ [Call!Next]_(Call!vars)
<1>1. CASE Stomp!Serve \/ Stomp!Publish
  BY <1>1, StompServes DEF Call!vars
<1>2. CASE Stomp!Connected
  <2>1. /\ stage = "connecting" /\ stage' = "connected" /\ waiters' = <<"run">>
        /\ owed' = {"CONNECTED"}
        /\ UNCHANGED <<op, frameBuf, messages, call, open, effects, wire, published>>
    BY <1>2 DEF Stomp!Connected
  <2>2. owed' \subseteq StompReplies /\ <<"run">> # <<"stale">>
    BY <2>1 DEF StompReplies
  <2>. QED  BY <2>1, <2>2 DEF StompInv, Call!vars
<1>3. CASE \E k \in 1 .. MaxSent : Stomp!Data(k)
  <2>1. PICK k \in Nat : Stomp!Data(k)
    BY <1>3 DEF Stomp!Data, StompInv
  <2>. QED  BY <2>1, StompReceives DEF Call!vars
<1>4. CASE Stomp!TakeConnected \/ Stomp!Refused \/ Stomp!TakeReceipt \/ Stomp!TakeUnexpected
             \/ Stomp!Unsubscribed
  BY <1>4, StompTakes
<1>5. CASE Stomp!TakeMessage
  BY <1>5, StompTakesMessage DEF Call!vars
<1>6. CASE Stomp!Deadline
  <2>1. stage = "collecting" /\ waiters = <<"run">> /\ Tail(waiters) = <<>> /\ call = "pending"
    BY <1>6, OneWaiter DEF Stomp!Deadline, StompInv
  <2>2. /\ \/ stage' = "done" /\ waiters' = <<>>
           \/ stage' = "unsub" /\ waiters' = <<"run">>
        /\ owed' \subseteq owed \cup {"RECEIPT"}
        /\ UNCHANGED <<op, frameBuf, messages, call, open, effects, wire, published>>
    BY <1>6, <2>1 DEF Stomp!Deadline, Stomp!Ends, Stomp!Unsubscribe
  <2>3. owed' \subseteq StompReplies
    BY <2>2 DEF StompInv, StompReplies
  <2>. QED  BY <2>1, <2>2, <2>3 DEF StompInv, Call!vars
<1>7. CASE Stomp!UnsubscribeLate
  <2>1. /\ waiters = <<"run">> /\ stage' = "done" /\ call = "pending"
        /\ waiters' = [i \in DOMAIN waiters |-> "stale"]
        /\ UNCHANGED <<op, frameBuf, messages, call, open, effects, wire, owed, published>>
    BY <1>7 DEF Stomp!UnsubscribeLate, StompInv
  <2>2. waiters' = <<"stale">>
    BY <2>1
  <2>. QED  BY <2>1, <2>2 DEF StompInv, Call!vars
<1>8. CASE Stomp!Closes
  <2>1. /\ open = TRUE /\ open' = FALSE /\ wire' = <<>> /\ owed' = {}
        /\ UNCHANGED <<op, frameBuf, messages, call, effects, published>>
        /\ \/ stage' = "done" /\ waiters' = <<>>
           \/ stage = "collecting" /\ stage' = "unsub" /\ waiters' = <<"run">>
    BY <1>8 DEF Stomp!Closes, StompInv
  <2>2. wire' \in Seq(StompFrames) /\ <<"run">> # <<"stale">> /\ <<>> # <<"stale">>
    BY <2>1
  <2>3. Call!Break
    BY <2>1 DEF Call!Break
  <2>. QED  BY <2>1, <2>2, <2>3 DEF StompInv, Call!Next
<1>9. CASE Stomp!Settle
  <2>1. /\ call = "pending" /\ call' = "closing" /\ stage' = "done"
        /\ open' = (open /\ stage \notin {"connecting", "connected"})
        /\ waiters' \in {<<>>, <<"close">>}
        /\ owed' \subseteq owed \cup {"DISCONNECTED"} /\ wire' \in {wire, <<>>}
        /\ UNCHANGED <<op, frameBuf, messages, effects, published>>
    BY <1>9 DEF Stomp!Settle
  <2>2. open' \in {open, FALSE}
    BY <2>1 DEF StompInv
  <2>3. /\ wire' \in Seq(StompFrames) /\ owed' \subseteq StompReplies /\ open' \in BOOLEAN
        /\ waiters' # <<"stale">>
    <3>1. wire \in Seq(StompFrames) /\ <<>> \in Seq(StompFrames)
      BY DEF StompInv
    <3>2. owed' \subseteq StompReplies
      BY <2>1 DEF StompInv, StompReplies
    <3>3. <<"close">> # <<"stale">> /\ <<>> # <<"stale">>
      OBVIOUS
    <3>. QED  BY <2>1, <3>1, <3>2, <3>3
  <2>4. Call!Settle
    BY <2>1, <2>2 DEF Call!Settle
  <2>. QED  BY <2>1, <2>3, <2>4 DEF StompInv, Call!Next
<1>10. CASE Stomp!CloseTakes
  <2>1. /\ call = "closing" /\ call' = "returned" /\ open' = FALSE /\ waiters' = <<>>
        /\ UNCHANGED <<stage, messages, effects, owed>> /\ Stomp!Take("close")
    BY <1>10 DEF Stomp!CloseTakes
  <2>2. frameBuf' \in Seq(StompFrames) /\ UNCHANGED <<op, wire, published>>
    BY <2>1, StompTaken
  <2>3. Call!Return
    BY <2>1 DEF Call!Return
  <2>. QED  BY <2>1, <2>2, <2>3 DEF StompInv, Call!Next
<1>11. CASE Stomp!Return
  <2>1. /\ call = "closing" /\ call' = "returned" /\ open' = FALSE /\ waiters' = <<>>
        /\ UNCHANGED <<op, stage, frameBuf, messages, effects, wire, owed, published>>
    BY <1>11 DEF Stomp!Return
  <2>2. Call!Return
    BY <2>1 DEF Call!Return
  <2>. QED  BY <2>1, <2>2 DEF StompInv, Call!Next
<1>. QED  BY <1>1, <1>2, <1>3, <1>4, <1>5, <1>6, <1>7, <1>8, <1>9, <1>10, <1>11
          DEF Stomp!Next, Stomp!Takes

----------------------------------------------------------------------------
(* WebSocket *)

LEMMA WebSocketServes ==
  ASSUME WebSocketInv, WebSocket!Serve
  PROVE  WebSocketInv' /\ UNCHANGED <<call, open, effects>>
<1>1. UNCHANGED <<messages, frag, parser, call, open, effects>>
  BY DEF WebSocket!Serve, WebSocket!Emit, WebSocket!webSocketClient
<1>2. CASE call # "pending"
  BY <1>1, <1>2 DEF WebSocketInv
<1>3. CASE call = "pending"
  <2>1. /\ served \in Int /\ parser \in Seq(WebSocketFrames) /\ wire \in Seq(WebSocketFrames)
        /\ Chain(parser \o wire, Fits, Received, served)
        /\ Len(messages) \in Nat
    BY <1>3 DEF WebSocketInv
  <2>2. PICK e \in WebSocketFrames :
          wire' = Append(wire, e) /\ served' \in Int /\ <<served, e, served'>> \in Fits
    <3>1. ASSUME NEW o \in {"PING", "CLOSE"}, WebSocket!Emit(WebSocket!Frame(o, TRUE, 0)),
                 UNCHANGED served
          PROVE  \E e \in WebSocketFrames :
                   wire' = Append(wire, e) /\ served' \in Int /\ <<served, e, served'>> \in Fits
      <4>. DEFINE e == WebSocket!Frame(o, TRUE, 0)
      <4>1. e \in WebSocketFrames /\ e.op = o
        BY DEF WebSocket!Frame, WebSocketFrames
      <4>. HIDE DEF e
      <4>2. <<served, e, served>> \in Fits
        BY <2>1, <4>1 DEF Fits
      <4>. QED  BY <2>1, <3>1, <4>1, <4>2 DEF WebSocket!Emit, e
    <3>2. ASSUME NEW o \in {"TEXT", "CONTINUATION"}, NEW f \in BOOLEAN, NEW to \in Int,
                 WebSocket!Emit(WebSocket!Frame(o, f, to)), served' = to,
                 \/ o = "TEXT" /\ served >= 0 /\ to = (IF f THEN served + 1 ELSE -(served + 1))
                 \/ o = "CONTINUATION" /\ served < 0 /\ to = (IF f THEN -served ELSE served)
          PROVE  \E e \in WebSocketFrames :
                   wire' = Append(wire, e) /\ served' \in Int /\ <<served, e, served'>> \in Fits
      <4>. DEFINE e == WebSocket!Frame(o, f, to)
      <4>1. e \in WebSocketFrames /\ e.op = o /\ e.fin = f /\ e.part = to
        BY DEF WebSocket!Frame, WebSocketFrames
      <4>. HIDE DEF e
      <4>2. <<served, e, to>> \in Fits
        BY <2>1, <3>2, <4>1 DEF Fits
      <4>. QED  BY <3>2, <4>1, <4>2 DEF WebSocket!Emit, e
    <3>3. served + 1 \in Int /\ -(served + 1) \in Int /\ -served \in Int
      BY <2>1
    <3>4. \/ \E o \in {"PING", "CLOSE"} :
               WebSocket!Emit(WebSocket!Frame(o, TRUE, 0)) /\ UNCHANGED served
          \/ /\ served >= 0
             /\ \/ WebSocket!Emit(WebSocket!Frame("TEXT", TRUE, served + 1)) /\ served' = served + 1
                \/ /\ WebSocket!Emit(WebSocket!Frame("TEXT", FALSE, -(served + 1)))
                   /\ served' = -(served + 1)
          \/ /\ served < 0
             /\ \/ WebSocket!Emit(WebSocket!Frame("CONTINUATION", FALSE, served)) /\ served' = served
                \/ WebSocket!Emit(WebSocket!Frame("CONTINUATION", TRUE, -served)) /\ served' = -served
      BY DEF WebSocket!Serve
    <3>. QED  BY <2>1, <3>1, <3>2, <3>3, <3>4
  <2>3. wire' \in Seq(WebSocketFrames)
    BY <2>1, <2>2
  <2>4. /\ parser \o wire \in Seq(WebSocketFrames)
        /\ parser \o Append(wire, e) = Append(parser \o wire, e)
    BY <2>1, JoinedAppend
  <2>5. Received \in Int /\ Received' = Received
    BY <1>1, <2>1 DEF Received
  <2>6. Chain(Append(parser \o wire, e), Fits, Received, served')
    BY <2>1, <2>2, <2>4, <2>5, ChainGrows
  <2>7. Chain(parser' \o wire', Fits, Received', served')
    BY <1>1, <2>2, <2>4, <2>5, <2>6
  <2>. QED  BY <1>1, <1>3, <2>2, <2>3, <2>7 DEF WebSocketInv
<1>. QED  BY <1>1, <1>2, <1>3

LEMMA WebSocketReceives ==
  ASSUME WebSocketInv, NEW k \in Nat, WebSocket!Feed(k)
  PROVE  WebSocketInv' /\ UNCHANGED <<call, open, effects>>
<1>1. /\ call = "pending" /\ parser = <<>> /\ k \in 0 .. Len(wire)
      /\ parser' = SubSeq(wire, 1, k) /\ wire' = SubSeq(wire, k + 1, Len(wire))
      /\ UNCHANGED <<messages, frag, call, open, effects, served>>
  BY DEF WebSocketInv, WebSocket!Feed, WebSocket!Live, WebSocket!Quiet
<1>2. wire \in Seq(WebSocketFrames) /\ Chain(<<>> \o wire, Fits, Received, served)
  BY <1>1 DEF WebSocketInv
<1>3. /\ parser' \in Seq(WebSocketFrames) /\ wire' \in Seq(WebSocketFrames)
      /\ Chain(parser' \o wire', Fits, Received, served)
  BY <1>1, <1>2, ChunkArrives
<1>4. Received' = Received
  BY <1>1 DEF Received
<1>. QED  BY <1>1, <1>3, <1>4 DEF WebSocketInv

\* The call finishes with the messages it has.
LEMMA WebSocketFinishes ==
  ASSUME WebSocketInv, call = "pending", NEW how, WebSocket!Finish(how),
         UNCHANGED <<messages, effects>>
  PROVE  WebSocketInv' /\ [Call!Next]_(Call!vars)
<1>1. call' = "returned" /\ open' = FALSE
  BY DEF WebSocket!Finish
<1>2. Call!Finish
  BY <1>1 DEF Call!Finish
<1>. QED  BY <1>1, <1>2 DEF WebSocketInv, Call!Next

\* What is left of the parser's frames by the one that is shifted.
LEMMA WebSocketShifted ==
  ASSUME WebSocketInv, NEW o, WebSocket!Shift(o)
  PROVE  /\ call = "pending" /\ UNCHANGED <<effects, wire, served>>
         /\ parser \in Seq(WebSocketFrames) /\ wire \in Seq(WebSocketFrames)
         /\ Tail(parser) \in Seq(WebSocketFrames)
         /\ Head(parser) \in WebSocketFrames /\ Head(parser).op = o
         /\ \E y \in Int : /\ <<Received, Head(parser), y>> \in Fits
                           /\ Chain(Tail(parser) \o wire, Fits, y, served)
<1>1. /\ call = "pending" /\ parser # <<>> /\ Head(parser).op = o
      /\ UNCHANGED <<effects, wire, served>>
  BY DEF WebSocket!Shift, WebSocket!Live
<1>2. /\ parser \in Seq(WebSocketFrames) /\ wire \in Seq(WebSocketFrames)
      /\ Chain(parser \o wire, Fits, Received, served)
  BY <1>1 DEF WebSocketInv
<1>. DEFINE q == parser \o wire
<1>3. /\ q \in Seq(WebSocketFrames) /\ q # <<>> /\ Head(q) = Head(parser)
      /\ Tail(parser) \in Seq(WebSocketFrames) /\ Tail(q) = Tail(parser) \o wire
      /\ Chain(q, Fits, Received, served)
  BY <1>1, <1>2, JoinedTail
<1>. HIDE DEF q
<1>4. \E y \in Int : <<Received, Head(q), y>> \in Fits /\ Chain(Tail(q), Fits, y, served)
  BY <1>3, ChainShrinks
<1>5. Head(parser) \in WebSocketFrames
  BY <1>1, <1>2
<1>. QED  BY <1>1, <1>2, <1>3, <1>4, <1>5

\* A frame that has been shifted and ends no message.
LEMMA WebSocketContinues ==
  ASSUME WebSocketInv, call = "pending", WebSocket!Continue,
         parser \in Seq(WebSocketFrames), Tail(parser) \in Seq(WebSocketFrames),
         UNCHANGED <<messages, effects, wire, served>>,
         Begun(frag', Len(messages) + 1),
         Chain(Tail(parser) \o wire, Fits, Received', served)
  PROVE  WebSocketInv' /\ [Call!Next]_(Call!vars)
<1>1. parser' = Tail(parser) /\ UNCHANGED <<call, open>>
  BY DEF WebSocket!Continue
<1>. QED  BY <1>1 DEF WebSocketInv, Call!vars

\* ... and one that ends the next.
LEMMA WebSocketHandles ==
  ASSUME WebSocketInv, call = "pending", NEW body, WebSocket!HandleMessage(body),
         Whole(body, Len(messages) + 1),
         parser \in Seq(WebSocketFrames), Tail(parser) \in Seq(WebSocketFrames),
         frag' = <<>>, UNCHANGED <<effects, wire, served>>,
         Chain(Tail(parser) \o wire, Fits, Len(messages) + 1, served)
  PROVE  WebSocketInv' /\ [Call!Next]_(Call!vars)
<1>1. CASE messages' = messages /\ \E how : WebSocket!Finish(how)
  BY <1>1, WebSocketFinishes
<1>2. CASE WebSocket!Continue /\ messages' = Append(messages, body)
  <2>1. parser' = Tail(parser) /\ UNCHANGED <<call, open>>
    BY <1>2 DEF WebSocket!Continue
  <2>2. /\ messages \in Seq(Seq(Int)) /\ Len(messages) \in Nat /\ body \in Seq(Int)
        /\ \A i \in 1 .. Len(messages) : Whole(messages[i], i)
    BY DEF WebSocketInv, Whole
  <2>3. /\ messages' \in Seq(Seq(Int)) /\ Len(messages') = Len(messages) + 1
        /\ \A i \in 1 .. Len(messages) + 1 :
             messages'[i] = IF i = Len(messages) + 1 THEN body ELSE messages[i]
    BY <1>2, <2>2
  <2>4. ASSUME NEW i \in 1 .. Len(messages') PROVE Whole(messages'[i], i)
    <3>1. CASE i = Len(messages) + 1
      BY <2>3, <3>1
    <3>2. CASE i \in 1 .. Len(messages)
      BY <2>2, <2>3, <3>2
    <3>. QED  BY <2>2, <2>3, <3>1, <3>2
  <2>5. Begun(frag', Len(messages') + 1)
    BY DEF Begun
  <2>6. Received' = Len(messages) + 1
    BY <2>3 DEF Received
  <2>. QED  BY <2>1, <2>3, <2>4, <2>5, <2>6 DEF WebSocketInv, Call!vars
<1>. QED  BY <1>1, <1>2 DEF WebSocket!HandleMessage

LEMMA WebSocketTakes ==
  ASSUME WebSocketInv, WebSocket!Takes
  PROVE  WebSocketInv' /\ [Call!Next]_(Call!vars)
<1>1. ASSUME NEW o, WebSocket!Shift(o)
      PROVE  /\ call = "pending" /\ UNCHANGED <<effects, wire, served>>
             /\ parser \in Seq(WebSocketFrames) /\ Tail(parser) \in Seq(WebSocketFrames)
             /\ Begun(frag, Len(messages) + 1) /\ Len(messages) \in Nat
             /\ Received \in Int /\ (Received >= 0 <=> frag = <<>>)
  <2>1. call = "pending" /\ Begun(frag, Len(messages) + 1) /\ Len(messages) \in Nat
    BY <1>1 DEF WebSocketInv, WebSocket!Shift, WebSocket!Live
  <2>2. Received \in Int /\ (Received >= 0 <=> frag = <<>>)
    BY <2>1 DEF Received
  <2>. QED  BY <1>1, <2>1, <2>2, WebSocketShifted
<1>2. CASE WebSocket!Ping
  <2>1. WebSocket!Shift("PING") /\ WebSocket!Continue /\ UNCHANGED <<messages, frag>>
    BY <1>2 DEF WebSocket!Ping
  <2>2. PICK y \in Int : /\ <<Received, Head(parser), y>> \in Fits
                         /\ Chain(Tail(parser) \o wire, Fits, y, served)
    BY <2>1, WebSocketShifted
  <2>3. Head(parser).op = "PING"
    BY <2>1 DEF WebSocket!Shift
  <2>4. y = Received /\ Received' = Received
    BY <2>1, <2>2, <2>3 DEF Fits, Received
  <2>. QED  BY <1>1, <2>1, <2>2, <2>4, WebSocketContinues
<1>3. CASE WebSocket!Close
  BY <1>1, <1>3, WebSocketFinishes DEF WebSocket!Close
<1>4. CASE WebSocket!Text
  <2>. DEFINE frame == Head(parser)
              n == Len(messages)
  <2>1. WebSocket!Shift("TEXT") /\ frame.op = "TEXT"
    BY <1>4 DEF WebSocket!Text, WebSocket!Shift
  <2>2. frame \in WebSocketFrames /\ n \in Nat /\ n + 1 # 0
    BY <1>1, <2>1, WebSocketShifted
  <2>3. PICK y \in Int : /\ <<Received, frame, y>> \in Fits
                         /\ Chain(Tail(parser) \o wire, Fits, y, served)
    BY <2>1, WebSocketShifted
  <2>4. /\ Received >= 0 /\ frame.part = y
        /\ y = IF frame.fin THEN Received + 1 ELSE -(Received + 1)
    BY <2>1, <2>3 DEF Fits
  <2>5. frag = <<>> /\ Received = n
    BY <1>1, <2>1, <2>4 DEF Received
  <2>6. CASE frame.fin
    <3>1. WebSocket!HandleMessage(<<frame.part>>) /\ frag' = frag
      BY <1>4, <2>6 DEF WebSocket!Text
    <3>2. y = n + 1 /\ frame.part = n + 1
      BY <2>4, <2>5, <2>6
    <3>3. Whole(<<frame.part>>, n + 1)
      BY <2>2, <3>2 DEF Whole
    <3>. QED  BY <1>1, <2>1, <2>3, <2>5, <3>1, <3>2, <3>3, WebSocketHandles
  <2>7. CASE ~frame.fin
    <3>1. WebSocket!Continue /\ frag' = <<frame.part>> /\ messages' = messages
      BY <1>4, <2>7 DEF WebSocket!Text
    <3>2. y = -(n + 1) /\ frame.part = -(n + 1)
      BY <2>4, <2>5, <2>7
    <3>3. Begun(frag', n + 1) /\ Received' = y
      BY <2>2, <3>1, <3>2 DEF Begun, Received
    <3>. QED  BY <1>1, <2>1, <2>3, <3>1, <3>3, WebSocketContinues
  <2>. QED  BY <2>6, <2>7
<1>5. CASE WebSocket!Continuation
  <2>. DEFINE frame == Head(parser)
              n == Len(messages)
              parts == Append(frag, frame.part)
  <2>1. WebSocket!Shift("CONTINUATION") /\ frame.op = "CONTINUATION"
    BY <1>5 DEF WebSocket!Continuation, WebSocket!Shift
  <2>2. frame \in WebSocketFrames /\ n \in Nat /\ frag \in Seq(Int) /\ Len(frag) \in Nat
    BY <1>1, <2>1, WebSocketShifted DEF Begun
  <2>3. PICK y \in Int : /\ <<Received, frame, y>> \in Fits
                         /\ Chain(Tail(parser) \o wire, Fits, y, served)
    BY <2>1, WebSocketShifted
  <2>4. /\ Received < 0 /\ frame.part = y
        /\ y = IF frame.fin THEN -Received ELSE Received
    BY <2>1, <2>3 DEF Fits
  <2>5. frag # <<>> /\ Received = -(n + 1)
    <3>1. frag # <<>>
      BY <1>1, <2>1, <2>4
    <3>. QED  BY <3>1 DEF Received
  <2>6. /\ parts \in Seq(Int) /\ Len(parts) = Len(frag) + 1
        /\ parts[Len(frag) + 1] = y /\ \A k \in 1 .. Len(frag) : parts[k] = -(n + 1)
    <3>1. \A k \in 1 .. Len(frag) : frag[k] = -(n + 1)
      BY <1>1, <2>1 DEF Begun
    <3>. QED  BY <2>2, <2>4, <3>1
  <2>. HIDE DEF parts
  <2>7. CASE frame.fin
    <3>1. WebSocket!HandleMessage(parts) /\ frag' = <<>>
      BY <1>5, <2>5, <2>7 DEF WebSocket!Continuation, parts
    <3>2. y = n + 1
      BY <2>2, <2>4, <2>5, <2>7
    <3>3. Whole(parts, n + 1)
      BY <2>2, <2>6, <3>2 DEF Whole
    <3>. QED  BY <1>1, <2>1, <2>3, <3>1, <3>2, <3>3, WebSocketHandles
  <2>8. CASE ~frame.fin
    <3>1. WebSocket!Continue /\ frag' = parts /\ messages' = messages
      BY <1>5, <2>5, <2>8 DEF WebSocket!Continuation, parts
    <3>2. y = -(n + 1)
      BY <2>4, <2>5, <2>8
    <3>3. Begun(parts, n + 1)
      BY <2>2, <2>6, <3>2 DEF Begun
    <3>4. Received' = y
      <4>1. frag' # <<>>
        BY <2>2, <2>6, <3>1
      <4>. QED  BY <3>1, <3>2, <4>1 DEF Received
    <3>. QED  BY <1>1, <2>1, <2>3, <3>1, <3>3, <3>4, WebSocketContinues
  <2>. QED  BY <2>7, <2>8
<1>. QED  BY <1>2, <1>3, <1>4, <1>5 DEF WebSocket!Takes

LEMMA WebSocketStep ==
  ASSUME WebSocketInv, WebSocket!Next
  PROVE  WebSocketInv' /\ [Call!Next]_(Call!vars)
<1>1. CASE WebSocket!Serve
  BY <1>1, WebSocketServes DEF Call!vars
<1>2. CASE WebSocket!Connected
  <2>1. UNCHANGED <<messages, frag, parser, call, open, effects, wire, served>>
    BY <1>2 DEF WebSocket!Connected
  <2>. QED  BY <2>1 DEF WebSocketInv, Received, Call!vars
<1>3. CASE \E k \in 0 .. MaxSent : WebSocket!Upgraded(k) \/ WebSocket!Data(k)
  <2>1. PICK k \in Nat : WebSocket!Feed(k)
    BY <1>3 DEF WebSocket!Upgraded, WebSocket!Data
  <2>. QED  BY <2>1, WebSocketReceives DEF Call!vars
<1>4. CASE WebSocket!Takes
  BY <1>4, WebSocketTakes
<1>5. CASE WebSocket!SendMessages
  <2>1. /\ call = "pending" /\ effects' = effects + 1
        /\ UNCHANGED <<messages, frag, parser, call, open, wire, served>>
    BY <1>5 DEF WebSocket!SendMessages, WebSocket!Live
  <2>2. Call!Act
    BY <2>1 DEF Call!Act, WebSocketInv
  <2>. QED  BY <2>1, <2>2 DEF WebSocketInv, Received, Call!Next
<1>6. CASE WebSocket!Breaks \/ WebSocket!Timeout
  <2>1. call = "pending" /\ UNCHANGED <<messages, effects>> /\ \E how : WebSocket!Finish(how)
    BY <1>6 DEF WebSocket!Breaks, WebSocket!Timeout, WebSocket!Live
  <2>. QED  BY <2>1, WebSocketFinishes
<1>. QED  BY <1>1, <1>2, <1>3, <1>4, <1>5, <1>6 DEF WebSocket!Next

----------------------------------------------------------------------------
(* Kafka *)

LEMMA KafkaStep ==
  ASSUME KafkaInv, Kafka!Next
  PROVE  KafkaInv' /\ [Call!Next]_(Call!vars)
<1>. USE DEF KafkaInv
<1>1. CASE Kafka!Serve
  BY <1>1 DEF Kafka!Serve, Kafka!kafkaClient, Call!vars
<1>2. CASE Kafka!Connected
  <2>1. /\ open = TRUE /\ stage = "connecting" /\ effects' \in {effects, effects + 1}
        /\ UNCHANGED <<result, call, open>>
    BY <1>2 DEF Kafka!Connected
  <2>2. call = "pending" /\ result = "none"
    BY <2>1
  <2>3. effects' = effects + 1 => Call!Act
    BY <2>1, <2>2 DEF Call!Act
  <2>. QED  BY <2>1, <2>2, <2>3 DEF Call!Next, Call!vars
<1>3. CASE Kafka!Response
  <2>1. open = TRUE /\ call' = call
    BY <1>3 DEF Kafka!Response
  <2>2. CASE UNCHANGED <<stage, result, open, effects>>
    BY <2>1, <2>2 DEF Call!vars
  <2>3. CASE /\ stage \in {"handshake", "authenticate"} /\ stage' = "over"
             /\ open' = FALSE /\ effects' = effects
    <3>1. result = "none" /\ call = "pending" /\ call' = "pending"
      BY <2>1, <2>3
    <3>2. Call!Break
      BY <2>1, <2>3 DEF Call!Break
    <3>. QED  BY <2>3, <3>1, <3>2 DEF Call!Next
  <2>4. CASE /\ stage = "handshake" /\ UNCHANGED <<result, open, effects>>
    BY <2>1, <2>4 DEF Call!vars
  <2>5. CASE /\ stage = "authenticate" /\ effects' = effects + 1 /\ UNCHANGED <<result, open>>
    <3>1. result = "none" /\ call = "pending"
      BY <2>5
    <3>2. Call!Act
      BY <2>1, <2>5, <3>1 DEF Call!Act
    <3>. QED  BY <2>1, <2>5, <3>1, <3>2 DEF Call!Next
  <2>6. CASE /\ stage = "operating" /\ stage' = "over" /\ UNCHANGED <<open, effects>>
    BY <2>1, <2>6 DEF Call!vars
  <2>. QED  BY <1>3, <2>2, <2>3, <2>4, <2>5, <2>6 DEF Kafka!Response, Kafka!Reject
<1>4. CASE Kafka!ConnectionFails \/ Kafka!ConnectTimer \/ Kafka!GlobalTimer
  <2>1. /\ open = TRUE /\ stage \notin {"over"} /\ open' = FALSE /\ stage' = "over"
        /\ UNCHANGED <<call, effects>>
    BY <1>4 DEF Kafka!ConnectionFails, Kafka!ConnectTimer, Kafka!GlobalTimer, Kafka!Breaks
  <2>2. result = "none" /\ call = "pending"
    BY <2>1
  <2>3. Call!Break
    BY <2>1 DEF Call!Break
  <2>. QED  BY <2>1, <2>2, <2>3 DEF Call!Next
<1>5. CASE Kafka!Settle
  <2>1. /\ call = "pending" /\ result # "none" /\ call' = "closing"
        /\ UNCHANGED <<stage, result, open, effects>>
    BY <1>5 DEF Kafka!Settle
  <2>2. Call!Settle
    BY <2>1 DEF Call!Settle
  <2>. QED  BY <2>1, <2>2 DEF Call!Next
<1>6. CASE Kafka!Return
  <2>1. /\ call = "closing" /\ call' = "returned" /\ open' = FALSE
        /\ UNCHANGED <<stage, result, effects>>
    BY <1>6 DEF Kafka!Return
  <2>2. Call!Return
    BY <2>1 DEF Call!Return
  <2>. QED  BY <2>1, <2>2 DEF Call!Next
<1>. QED  BY <1>1, <1>2, <1>3, <1>4, <1>5, <1>6 DEF Kafka!Next

----------------------------------------------------------------------------
(* Whichever client it is *)

LEMMA EmptyEnds ==
  ASSUME NEW S
  PROVE  /\ <<>> \in Seq(S) /\ <<>> \o <<>> = <<>> /\ Numbered(<<>>) /\ Len(<<>>) = 0
         /\ Chain(<<>>, Counted(S), 0, 0) /\ Chain(<<>>, Fits, 0, 0)
<1>1. <<>> \in Seq(S) /\ <<>> \in Seq(Nat) /\ Len(<<>>) = 0 /\ 0 \in Int
  OBVIOUS
<1>2. <<>> \o <<>> = <<>>
  BY <1>1, ConcatEmptySeq
<1>. QED  BY <1>1, <1>2, ChainIsEmpty DEF Numbered

LEMMA ClientsBegin ==
  ASSUME ClientsInit
  PROVE  ClientsInv /\ Call!Init
<1>1. CASE client = "nats" /\ Nats!Init
  <2>1. NatsInv
    BY <1>1, EmptyEnds DEF Nats!Init, NatsInv
  <2>. QED  BY <1>1, <2>1 DEF ClientsInv, Nats!Init, Call!Init
<1>2. CASE client = "mqtt" /\ Mqtt!Init
  <2>1. 1 .. Len(<<>>) = {}
    BY EmptyEnds
  <2>2. MqttInv
    BY <1>2, <2>1, EmptyEnds DEF Mqtt!Init, MqttInv, Mqtt!Opening
  <2>. QED  BY <1>2, <2>2 DEF ClientsInv, Mqtt!Init, Call!Init
<1>3. CASE client = "stomp" /\ Stomp!Init
  <2>1. StompInv
    BY <1>3, EmptyEnds DEF Stomp!Init, StompInv
  <2>. QED  BY <1>3, <2>1 DEF ClientsInv, Stomp!Init, Call!Init
<1>4. CASE client = "websocket" /\ WebSocket!Init
  <2>1. /\ messages = <<>> /\ frag = <<>> /\ parser = <<>> /\ wire = <<>> /\ served = 0
        /\ call = "pending" /\ open = TRUE /\ effects = 0
    BY <1>4 DEF WebSocket!Init
  <2>2. messages \in Seq(Seq(Int)) /\ Len(messages) = 0 /\ Received = 0
    BY <2>1 DEF Received
  <2>3. Begun(frag, Len(messages) + 1)
    BY <2>1 DEF Begun
  <2>4. WebSocketInv
    BY <2>1, <2>2, <2>3, EmptyEnds DEF WebSocketInv
  <2>. QED  BY <1>4, <2>1, <2>4 DEF ClientsInv, Call!Init
<1>5. CASE client = "kafka" /\ Kafka!Init
  BY <1>5 DEF ClientsInv, KafkaInv, Kafka!Init, Call!Init
<1>. QED  BY <1>1, <1>2, <1>3, <1>4, <1>5 DEF ClientsInit

LEMMA ClientsStep ==
  ASSUME ClientsInv, [ClientsNext]_clientVars
  PROVE  ClientsInv' /\ [Call!Next]_(Call!vars)
<1>1. CASE client = "nats" /\ Nats!Next /\ client' = client
  BY <1>1, NatsStep DEF ClientsInv
<1>2. CASE client = "mqtt" /\ Mqtt!Next /\ client' = client
  BY <1>2, MqttStep DEF ClientsInv
<1>3. CASE client = "stomp" /\ Stomp!Next /\ client' = client
  BY <1>3, StompStep DEF ClientsInv
<1>4. CASE client = "websocket" /\ WebSocket!Next /\ client' = client
  BY <1>4, WebSocketStep DEF ClientsInv
<1>5. CASE client = "kafka" /\ Kafka!Next /\ client' = client
  BY <1>5, KafkaStep DEF ClientsInv
<1>6. CASE UNCHANGED clientVars
  <2>. USE <1>6 DEF clientVars, callVars, queueVars, natsOnly, mqttOnly, stompOnly,
                    webSocketOnly, kafkaOnly
  <2>1. NatsInv => NatsInv'
    BY DEF NatsInv
  <2>2. MqttInv => MqttInv'
    BY DEF MqttInv, Mqtt!Opening
  <2>3. StompInv => StompInv'
    BY DEF StompInv
  <2>4. WebSocketInv => WebSocketInv'
    BY DEF WebSocketInv, Received
  <2>5. KafkaInv => KafkaInv'
    BY DEF KafkaInv
  <2>6. client' = client /\ UNCHANGED Call!vars
    BY DEF Call!vars
  <2>. QED  BY <2>1, <2>2, <2>3, <2>4, <2>5, <2>6 DEF ClientsInv
<1>. QED  BY <1>1, <1>2, <1>3, <1>4, <1>5, <1>6 DEF ClientsNext

\* Of every client, for any bounds and whatever the other side does: what the call returns
\* as received is what was sent, in order, from the first message on, whole; of MQTT it is
\* just what has been acknowledged; and no STOMP frame goes to a wait that is over.
THEOREM ClientsReturnWhatWasSent == ClientsSpec => []MessagesAreTrue
<1>1. ClientsInv => MessagesAreTrue
  <2>. SUFFICES ASSUME ClientsInv PROVE MessagesAreTrue
    OBVIOUS
  <2>1. ASSUME Numbered(messages)
        PROVE  DOMAIN messages = 1 .. Len(messages) /\ \A i \in DOMAIN messages : messages[i] = i
    BY <2>1 DEF Numbered
  <2>2. CASE client = "stomp"
    <3>1. StompInv
      BY <2>2 DEF ClientsInv
    <3>2. Stomp!Blocked => waiters \in {<<"run">>, <<"close">>}
      BY <3>1 DEF Stomp!Blocked, StompInv
    <3>3. "stale" \notin Stomp!ToSet(<<"run">>) /\ "stale" \notin Stomp!ToSet(<<"close">>)
      BY DEF Stomp!ToSet
    <3>. QED  BY <2>1, <2>2, <3>1, <3>2, <3>3 DEF StompInv, MessagesAreTrue,
                                                  Stomp!FramesReachTheReader
  <2>3. CASE client = "nats"
    BY <2>1, <2>3 DEF ClientsInv, NatsInv, MessagesAreTrue, Nats!InOrder
  <2>4. CASE client = "mqtt"
    <3>1. Numbered(messages) /\ acked = 1 .. Len(messages)
      BY <2>4 DEF ClientsInv, MqttInv
    <3>2. Mqtt!ToSet(messages) = 1 .. Len(messages)
      BY <2>1, <3>1 DEF Mqtt!ToSet
    <3>. QED  BY <2>1, <2>4, <3>1, <3>2 DEF MessagesAreTrue, Mqtt!ReturnedIsAcked
  <2>5. CASE client = "websocket"
    <3>1. /\ messages \in Seq(Seq(Int))
          /\ \A i \in 1 .. Len(messages) : Whole(messages[i], i)
      BY <2>5 DEF ClientsInv, WebSocketInv
    <3>2. WebSocket!MessagesAreWhole
      BY <3>1 DEF WebSocket!MessagesAreWhole, Whole, WebSocket!Last
    <3>. QED  BY <2>5, <3>2 DEF MessagesAreTrue
  <2>. QED  BY <2>2, <2>3, <2>4, <2>5 DEF MessagesAreTrue
<1>2. ClientsInit => ClientsInv
  BY ClientsBegin
<1>3. ClientsInv /\ [ClientsNext]_clientVars => ClientsInv'
  BY ClientsStep
<1>. QED  BY <1>1, <1>2, <1>3, PTL DEF ClientsSpec

\* Each of the five clients implements the safety part of ClientCall: nothing of the
\* operation is sent once the outcome is settled or the socket closed, the outcome is
\* settled once, and a call that has returned has closed its socket.
THEOREM ClientsAreCalls == ClientsSpec => Call!Safe
<1>1. ClientsInit => ClientsInv /\ Call!Init
  BY ClientsBegin
<1>2. ClientsInv /\ [ClientsNext]_clientVars => ClientsInv' /\ [Call!Next]_(Call!vars)
  BY ClientsStep
<1>. QED  BY <1>1, <1>2, PTL DEF ClientsSpec, Call!Safe

\* What that comes to for the other side and for the server the call runs in: a call that
\* has returned leaves no socket open, and every frame of its operation is sent on an open
\* socket, before the call has settled.
Settled == call = "returned" => ~open
SentInTime == effects' # effects => call = "pending" /\ open

COROLLARY CallsLeaveNothing == ClientsSpec => []Settled /\ [][SentInTime]_(Call!vars)
<1>. USE DEF Settled, SentInTime, Call!vars
<1>1. Call!Init => Settled
  BY DEF Call!Init
<1>2. Settled /\ [Call!Next]_(Call!vars) => Settled'
  BY DEF Call!Next, Call!Act, Call!Break, Call!Settle, Call!Return, Call!Finish
<1>3. [Call!Next]_(Call!vars) => [SentInTime]_(Call!vars)
  BY DEF Call!Next, Call!Act, Call!Break, Call!Settle, Call!Return, Call!Finish
<1>4. Call!Safe => []Settled /\ [][SentInTime]_(Call!vars)
  BY <1>1, <1>2, <1>3, PTL DEF Call!Safe
<1>. QED  BY <1>4, ClientsAreCalls
=============================================================================
