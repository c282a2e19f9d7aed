---------------------------- MODULE BrowserPool ----------------------------
(***************************************************************************)
(* The session table of lib/browserLaunch.js: concurrent browser_launch    *)
(* and browser_close calls, split where the handlers await Playwright.     *)
(* A launch call and the session it creates share one name.                *)
(*                                                                         *)
(* Playwright and Chromium are external: a promise may resolve or reject,  *)
(* and a browser may die by itself at any time.                            *)
(***************************************************************************)
EXTENDS Integers, FiniteSets

CONSTANTS
  Calls,           \* the browser_launch calls
  MAX_SESSIONS,    \* MCP_MAX_BROWSER_SESSIONS
  MaxClosers       \* bound: browser_close calls in flight for one session

ASSUME PoolAssumption ==
  IsFiniteSet(Calls) /\ MAX_SESSIONS \in Nat \ {0} /\ MaxClosers \in Nat

VARIABLES
  stage,           \* how far each launch call has come
  pendingLaunches,
  sessions,        \* the keys of SESSIONS
  browsers,        \* the Chromium processes that run
  closers          \* browser_close calls awaiting browser.close(), per session

vars == <<stage, pendingLaunches, sessions, browsers, closers>>

Stages == {"idle", "refused", "badproxy", "launching", "context", "aborting", "badstate",
           "failed", "open"}

At(st) == {c \in Calls : stage[c] = st}

Init ==
  /\ stage = [c \in Calls |-> "idle"]
  /\ pendingLaunches = 0
  /\ sessions = {}
  /\ browsers = {}
  /\ closers = [c \in Calls |-> 0]

----------------------------------------------------------------------------

\* launchSession up to chromium.launch: the cap check and the reservation.
Refuse(c) ==
  /\ stage[c] = "idle"
  /\ Cardinality(sessions) + pendingLaunches >= MAX_SESSIONS
  /\ stage' = [stage EXCEPT ![c] = "refused"]
  /\ UNCHANGED <<pendingLaunches, sessions, browsers, closers>>

Reserve(c) ==
  /\ stage[c] = "idle"
  /\ Cardinality(sessions) + pendingLaunches < MAX_SESSIONS
  /\ pendingLaunches' = pendingLaunches + 1
  /\ stage' = [stage EXCEPT ![c] = "launching"]
  /\ UNCHANGED <<sessions, browsers, closers>>

\* A proxy.server that is truthy but no string throws on its toLowerCase(), after the
\* reservation and before the try: the call fails, and keeps its reservation for good.
ReserveThrows(c) ==
  /\ stage[c] = "idle"
  /\ Cardinality(sessions) + pendingLaunches < MAX_SESSIONS
  /\ pendingLaunches' = pendingLaunches + 1
  /\ stage' = [stage EXCEPT ![c] = "badproxy"]
  /\ UNCHANGED <<sessions, browsers, closers>>

\* Mutant: a failed launch does not hand its reservation back.
LaunchFailsReserved(c) ==
  /\ stage[c] = "launching"
  /\ stage' = [stage EXCEPT ![c] = "failed"]
  /\ UNCHANGED <<pendingLaunches, sessions, browsers, closers>>

LaunchFails(c) ==
  /\ stage[c] = "launching"
  /\ pendingLaunches' = pendingLaunches - 1
  /\ stage' = [stage EXCEPT ![c] = "failed"]
  /\ UNCHANGED <<sessions, browsers, closers>>

\* Mutant: the session is registered before its context exists.
LaunchRegisters(c) ==
  /\ stage[c] = "launching"
  /\ pendingLaunches' = pendingLaunches - 1
  /\ browsers' = browsers \cup {c}
  /\ sessions' = sessions \cup {c}
  /\ stage' = [stage EXCEPT ![c] = "context"]
  /\ UNCHANGED closers

\* The reservation ends with the launch.  A storage_state that is not an object
\* is rejected only now, with the browser running.
LaunchResolves(c) ==
  /\ stage[c] = "launching"
  /\ pendingLaunches' = pendingLaunches - 1
  /\ browsers' = browsers \cup {c}
  /\ \E next \in {"context", "badstate"} : stage' = [stage EXCEPT ![c] = next]
  /\ UNCHANGED <<sessions, closers>>

\* newContext and newPage resolved: the session is registered.
Opened(c) ==
  /\ stage[c] = "context"
  /\ c \in browsers
  /\ sessions' = sessions \cup {c}
  /\ stage' = [stage EXCEPT ![c] = "open"]
  /\ UNCHANGED <<pendingLaunches, browsers, closers>>

\* Mutant: a context that cannot be created fails the call at once.
ContextFailsOutright(c) ==
  /\ stage[c] = "context"
  /\ stage' = [stage EXCEPT ![c] = "failed"]
  /\ UNCHANGED <<pendingLaunches, sessions, browsers, closers>>

ContextFails(c) ==
  /\ stage[c] = "context"
  /\ stage' = [stage EXCEPT ![c] = "aborting"]
  /\ UNCHANGED <<pendingLaunches, sessions, browsers, closers>>

\* Mutant: the abort waits for a browser that may be gone.
AbortedIfAlive(c) ==
  /\ stage[c] = "aborting"
  /\ c \in browsers
  /\ browsers' = browsers \ {c}
  /\ stage' = [stage EXCEPT ![c] = "failed"]
  /\ UNCHANGED <<pendingLaunches, sessions, closers>>

Aborted(c) ==
  /\ stage[c] = "aborting"
  /\ browsers' = browsers \ {c}
  /\ stage' = [stage EXCEPT ![c] = "failed"]
  /\ UNCHANGED <<pendingLaunches, sessions, closers>>

\* closeSession: the entry stays in SESSIONS, usable, until close() returns.
CloseBegins(c) ==
  /\ c \in sessions
  /\ closers[c] < MaxClosers
  /\ closers' = [closers EXCEPT ![c] = @ + 1]
  /\ UNCHANGED <<stage, pendingLaunches, sessions, browsers>>

\* Mutant: the entry is dropped only when close() did not throw.
CloseReturnsIfAlive(c) ==
  /\ closers[c] > 0
  /\ closers' = [closers EXCEPT ![c] = @ - 1]
  /\ sessions' = IF c \in browsers THEN sessions \ {c} ELSE sessions
  /\ browsers' = browsers \ {c}
  /\ UNCHANGED <<stage, pendingLaunches>>

\* close() resolved, or rejected because the browser is gone: both drop the entry.
CloseReturns(c) ==
  /\ closers[c] > 0
  /\ closers' = [closers EXCEPT ![c] = @ - 1]
  /\ browsers' = browsers \ {c}
  /\ sessions' = sessions \ {c}
  /\ UNCHANGED <<stage, pendingLaunches>>

\* The browser dies by itself; nothing listens for it.
Dies(c) ==
  /\ c \in browsers
  /\ browsers' = browsers \ {c}
  /\ UNCHANGED <<stage, pendingLaunches, sessions, closers>>

Settles(c) ==
  \/ LaunchFails(c) \/ LaunchResolves(c)
  \/ Opened(c) \/ ContextFails(c) \/ Aborted(c)

Next ==
  \E c \in Calls : \/ Refuse(c) \/ Reserve(c) \/ ReserveThrows(c) \/ Settles(c)
                   \/ CloseBegins(c) \/ CloseReturns(c) \/ Dies(c)

Spec == Init /\ [][Next]_vars

\* Playwright bounds launch, context creation and close with timeouts, so that
\* every promise the handlers await settles.
FairSpec == Spec /\ \A c \in Calls : WF_vars(Settles(c)) /\ WF_vars(CloseReturns(c))

----------------------------------------------------------------------------
(* Properties *)

\* The stage of each call, and a table that holds only sessions that opened.
TypeOK ==
  /\ stage \in [Calls -> Stages]
  /\ sessions \subseteq At("open")
  /\ browsers \subseteq Calls
  /\ closers \in [Calls -> 0 .. MaxClosers]

\* The reservations are those of the launches in flight, and of the calls a malformed
\* proxy made throw: no other way a launch ends leaks one, which would in the end refuse
\* every call, and none returns one twice, which would lift the cap.
ReservationsExact == pendingLaunches = Cardinality(At("launching") \cup At("badproxy"))

\* What the count is for, and what a malformed proxy breaks: a reservation is held only
\* while its launch is under way.
ReservationsReturned == pendingLaunches = Cardinality(At("launching"))

\* Every running Chromium can still be closed: it has a session, or a call that
\* is on its way, but for those whose storage_state was rejected too late.
NoStrayBrowser == browsers \subseteq sessions \cup At("context") \cup At("aborting")
                                  \cup At("badstate")

\* "Max concurrent browser sessions (MAX_SESSIONS)", which the reservation count
\* is there to keep under concurrent launches.
CapHolds == Cardinality(sessions) <= MAX_SESSIONS

\* Every launch that got past the cap check is answered.
LaunchSettles ==
  \A c \in Calls : stage[c] = "launching" ~> stage[c] \in {"badstate", "failed", "open"}

\* A close drops the session and its browser, whatever else goes on, the death
\* of the browser and a second close included.
CloseSettles == \A c \in Calls : closers[c] > 0 ~> c \notin sessions \cup browsers
=============================================================================
