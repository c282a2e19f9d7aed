----------------------------- MODULE HttpServe -----------------------------
(***************************************************************************)
(* One http_serve session (lib/httpServeOps.js): a mock server that        *)
(* captures requests, the tools that read and clear what it captured, and  *)
(* the wait operations that poll the same array.  Sessions share nothing.  *)
(* Requests are numbered as they arrive; the module follows those a wait's *)
(* filters accept.                                                         *)
(*                                                                         *)
(* Node's http.Server is external: listen may fail, and close ends when the*)
(* connections, closed by closeAllConnections, are gone.                   *)
(***************************************************************************)
EXTENDS Naturals, Sequences, SequencesExt

CONSTANTS
  Waits,          \* the wait operations
  MAX_CAPTURED,
  MaxRequests,    \* bound: requests that arrive
  MaxStops        \* bound: stop operations in flight

ASSUME ServeAssumption ==
  MAX_CAPTURED \in Nat \ {0} /\ MaxRequests \in Nat /\ MaxStops \in Nat

VARIABLES
  phase,       \* starting, failed, active, closing (server.close called), stopped
  arrived,     \* number of the last request
  requests,    \* session.requests
  read,        \* what the clearing reads have returned, in order
  dropped,     \* requests captured and cleared without being returned
  wait,        \* the state of each wait
  stops        \* stop operations awaiting server.close

vars == <<phase, arrived, requests, read, dropped, wait, stops>>

InTable == phase \in {"active", "closing"}

\* A wait: its startIdx, the last request that had arrived, and whether the array was
\* cleared, or full when a request came, since.
NotCalled == [state |-> "idle"]
Fresh == [state |-> "waiting", startIdx |-> Len(requests), since |-> arrived,
          disturbed |-> FALSE]
Is(w, st) == wait[w].state = st
Disturbed == [w \in Waits |-> IF Is(w, "waiting") THEN [wait[w] EXCEPT !.disturbed = TRUE]
                                                  ELSE wait[w]]

Init ==
  /\ phase = "starting"
  /\ arrived = 0
  /\ requests = <<>> /\ read = <<>> /\ dropped = {}
  /\ wait = [w \in Waits |-> NotCalled]
  /\ stops = 0

----------------------------------------------------------------------------

\* server.listen settles.
Listens ==
  /\ phase = "starting"
  /\ phase' \in {"active", "failed"}
  /\ UNCHANGED <<arrived, requests, read, dropped, wait, stops>>

\* A request has been read: it is captured unless the array is full.  Its answer, at
\* once or after the route's delay, changes nothing of the session.
Arrives ==
  /\ phase = "active" /\ arrived < MaxRequests
  /\ arrived' = arrived + 1
  /\ IF Len(requests) < MAX_CAPTURED
     THEN requests' = Append(requests, arrived') /\ UNCHANGED wait
     ELSE wait' = Disturbed /\ UNCHANGED requests
  /\ UNCHANGED <<phase, read, dropped, stops>>

\* Mutant: a limited read clears what it returns, and only that.
ClearReturned(n) ==
  /\ InTable
  /\ requests # <<>>
  /\ LET cutoff == IF Len(requests) > n THEN Len(requests) - n ELSE 0 IN
       /\ read' = read \o SubSeq(requests, cutoff + 1, Len(requests))
       /\ requests' = SubSeq(requests, 1, cutoff)
  /\ wait' = Disturbed
  /\ UNCHANGED <<phase, arrived, dropped, stops>>

\* operation:'requests' with clear and limit n, the newest n; clear_requests is n = 0.
\* Without clear nothing changes.
Clear(n) ==
  /\ InTable
  /\ requests # <<>>
  /\ LET cutoff == IF Len(requests) > n THEN Len(requests) - n ELSE 0 IN
       /\ read' = read \o SubSeq(requests, cutoff + 1, Len(requests))
       /\ dropped' = dropped \cup ToSet(SubSeq(requests, 1, cutoff))
  /\ requests' = <<>>
  /\ wait' = Disturbed
  /\ UNCHANGED <<phase, arrived, stops>>

\* Mutant: an array already full counts from its first entry.
WaitFromStart(w) ==
  /\ InTable /\ Is(w, "idle")
  /\ wait' = [wait EXCEPT ![w] = IF Len(requests) < MAX_CAPTURED THEN Fresh
                                 ELSE [Fresh EXCEPT !.startIdx = 0]]
  /\ UNCHANGED <<phase, arrived, requests, read, dropped, stops>>

Wait(w) ==
  /\ InTable /\ Is(w, "idle")
  /\ wait' = [wait EXCEPT ![w] = Fresh]
  /\ UNCHANGED <<phase, arrived, requests, read, dropped, stops>>

\* check(), every 50 ms: the first request from startIdx on.
Found(w) ==
  /\ Is(w, "waiting")
  /\ Len(requests) > wait[w].startIdx
  /\ wait' = [wait EXCEPT ![w] = [state |-> "found", since |-> @.since,
                                  request |-> requests[@.startIdx + 1]]]
  /\ UNCHANGED <<phase, arrived, requests, read, dropped, stops>>

\* Mutant: the deadline is tested before the array.
TimedOutFirst(w) ==
  /\ Is(w, "waiting")
  /\ wait' = [wait EXCEPT ![w] = [state |-> "timed_out", since |-> @.since,
                                  disturbed |-> @.disturbed, until |-> arrived]]
  /\ UNCHANGED <<phase, arrived, requests, read, dropped, stops>>

\* Mutant: the timer chain ends when the session has gone.
TimedOutInTable(w) ==
  /\ Is(w, "waiting") /\ InTable
  /\ Len(requests) <= wait[w].startIdx
  /\ wait' = [wait EXCEPT ![w] = [state |-> "timed_out", since |-> @.since,
                                  disturbed |-> @.disturbed, until |-> arrived]]
  /\ UNCHANGED <<phase, arrived, requests, read, dropped, stops>>

\* ... or, past the deadline, none; the session may be gone by then.
TimedOut(w) ==
  /\ Is(w, "waiting")
  /\ Len(requests) <= wait[w].startIdx
  /\ wait' = [wait EXCEPT ![w] = [state |-> "timed_out", since |-> @.since,
                                  disturbed |-> @.disturbed, until |-> arrived]]
  /\ UNCHANGED <<phase, arrived, requests, read, dropped, stops>>

\* opStop up to the callback of server.close: the session stays in the table and in use.
Stop ==
  /\ InTable /\ stops < MaxStops
  /\ phase' = "closing"
  /\ stops' = stops + 1
  /\ UNCHANGED <<arrived, requests, read, dropped, wait>>

\* The "close" event answers every stop under way.
StopReturns ==
  /\ phase = "closing"
  /\ phase' = "stopped"
  /\ stops' = 0
  /\ UNCHANGED <<arrived, requests, read, dropped, wait>>

Next ==
  \/ Listens \/ Arrives \/ Stop \/ StopReturns
  \/ \E n \in 0 .. MAX_CAPTURED : Clear(n)
  \/ \E w \in Waits : Wait(w) \/ Found(w) \/ TimedOut(w)

Spec == Init /\ [][Next]_vars

\* Timers fire, and server.close ends once the connections are closed.
FairSpec ==
  /\ Spec
  /\ WF_vars(StopReturns)
  /\ \A w \in Waits : WF_vars(Found(w) \/ TimedOut(w))

----------------------------------------------------------------------------
(* Properties *)

TypeOK ==
  /\ phase \in {"starting", "failed", "active", "closing", "stopped"}
  /\ arrived \in 0 .. MaxRequests
  /\ Len(requests) <= MAX_CAPTURED
  /\ ToSet(requests) \cup ToSet(read) \cup dropped \subseteq 1 .. arrived
  /\ stops \in 0 .. MaxStops /\ (stops > 0 <=> phase = "closing")

\* A wait never returns a request from before its call, however the array was read,
\* cleared and filled again under its startIdx.
FoundIsNew == \A w \in Waits : Is(w, "found") => wait[w].request > wait[w].since

\* A wait times out only if no request came since its call, or the array was cleared or
\* full meanwhile.
UndisturbedMissNothing ==
  \A w \in Waits :
    Is(w, "timed_out") /\ ~wait[w].disturbed => wait[w].until = wait[w].since

\* The clearing reads show each captured request at most once and in order of arrival.
ReadInOrder ==
  LET shown == read \o requests
  IN  \A i, j \in DOMAIN shown : i < j => shown[i] < shown[j]

\* Every wait returns, also when its session is stopped meanwhile.
WaitsEnd == \A w \in Waits : Is(w, "waiting") ~> ~Is(w, "waiting")

\* "Block until a request matching path_match / method_match arrives, or timeout".
MissNothing == \A w \in Waits : Is(w, "timed_out") => wait[w].until = wait[w].since
=============================================================================
