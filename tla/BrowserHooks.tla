---------------------------- MODULE BrowserHooks ----------------------------
(***************************************************************************)
(* What browser_network_start/stop and browser_route/unroute leave on the  *)
(* tabs of a session (lib/browserActions/network.js), while browser_* calls*)
(* of BrowserTabs open, switch and close them.  A route handler is named   *)
(* after the browser_route call that installed it, a set of capture        *)
(* listeners is numbered by the browser_network_start call.                *)
(*                                                                         *)
(* Playwright is external: page.route and page.unroute change the page's   *)
(* handlers at once, then await the browser.                               *)
(***************************************************************************)
EXTENDS BrowserTabs

CONSTANTS
  Calls,       \* browser_route and browser_unroute calls
  Patterns,    \* url_pattern values
  MaxStarts    \* bound: captures started

VARIABLES
  capturing,   \* entry.networkCapturing
  capture,     \* the number of the current listeners (entry._reqHandler ...)
  listeners,   \* the capture listeners attached to each tab
  routes,      \* entry.routes: pattern -> handler
  handlers,    \* the <<pattern, handler>> pairs installed on each tab
  call         \* the state of each route or unroute call

hookVars == <<capturing, capture, listeners, routes, handlers, call>>
vars == <<tabVars, hookVars>>

\* A call: not made, awaiting page.route for "pattern", awaiting page.unroute
\* after having dealt with the patterns "seen", or over.  Only an unroute call
\* with no url_pattern is "sweeping".
Idle == [kind |-> "idle"]
Over == [kind |-> "over"]
Routing(p) == [kind |-> "route", pattern |-> p]
Unrouting(p) == [kind |-> "unroute", pattern |-> p]
Sweeping(seen) == [kind |-> "sweep", seen |-> seen]

CallStates == {Idle, Over} \cup {Routing(p) : p \in Patterns}
              \cup {Unrouting(p) : p \in Patterns}
              \cup {Sweeping(ps) : ps \in SUBSET Patterns}

HooksInit ==
  /\ Init
  /\ capturing = FALSE
  /\ capture = 0
  /\ listeners = [t \in Tabs |-> {}]
  /\ routes = <<>>
  /\ handlers = [t \in Tabs |-> {}]
  /\ call = [c \in Calls |-> Idle]

----------------------------------------------------------------------------

StartCapture ==
  /\ ~capturing
  /\ capture < MaxStarts
  /\ capture' = capture + 1
  /\ listeners' = [listeners EXCEPT ![active] = @ \cup {capture'}]
  /\ capturing' = TRUE
  /\ UNCHANGED <<routes, handlers, call>>

\* Mutant: the flag is cleared before it is tested.
StopCaptureCleared ==
  /\ capturing' = FALSE
  /\ UNCHANGED <<listeners, capture, routes, handlers, call>>

\* The listeners come off the tab that is active now.
StopCapture ==
  /\ listeners' = [listeners EXCEPT ![active] = IF capturing THEN @ \ {capture} ELSE @]
  /\ capturing' = FALSE
  /\ UNCHANGED <<capture, routes, handlers, call>>

\* routeRequest: the handler is on the page at once, in entry.routes after the await.
Route(c, p) ==
  /\ call[c] = Idle
  /\ active \in live
  /\ handlers' = [handlers EXCEPT ![active] = @ \cup {<<p, c>>}]
  /\ call' = [call EXCEPT ![c] = Routing(p)]
  /\ UNCHANGED <<capturing, capture, listeners, routes>>

RouteReturns(c) ==
  /\ call[c].kind = "route"
  /\ LET p == call[c].pattern IN
       routes' = [q \in DOMAIN routes \cup {p} |-> IF q = p THEN c ELSE routes[q]]
  /\ call' = [call EXCEPT ![c] = Over]
  /\ UNCHANGED <<capturing, capture, listeners, handlers>>

\* The tab is gone before page.route has settled.
RouteFails(c) ==
  /\ call[c].kind = "route"
  /\ \E t \in Tabs \ live : <<call[c].pattern, c>> \in handlers[t]
  /\ call' = [call EXCEPT ![c] = Over]
  /\ UNCHANGED <<capturing, capture, listeners, routes, handlers>>

\* page.unroute on the active tab, for the handler the table names.
Uninstall(p) == handlers' = [handlers EXCEPT ![active] = @ \ {<<p, routes[p]>>}]

Unroute(c, p) ==
  /\ call[c] = Idle
  /\ p \in DOMAIN routes
  /\ Uninstall(p)
  /\ call' = [call EXCEPT ![c] = Unrouting(p)]
  /\ UNCHANGED <<capturing, capture, listeners, routes>>

\* Mutant: the entry is left in the table.
UnrouteReturnsKeeping(c) ==
  /\ call[c].kind = "unroute"
  /\ call' = [call EXCEPT ![c] = Over]
  /\ UNCHANGED <<routes, capturing, capture, listeners, handlers>>

\* The entry is deleted, whichever handler it names by now.  A sweep under way
\* would visit the pattern again if it came back.
UnrouteReturns(c) ==
  /\ call[c].kind = "unroute"
  /\ LET p == call[c].pattern IN
       /\ routes' = [q \in DOMAIN routes \ {p} |-> routes[q]]
       /\ call' = [d \in Calls |->
                     CASE d = c -> Over
                       [] d # c /\ call[d].kind = "sweep" -> Sweeping(call[d].seen \ {p})
                       [] OTHER -> call[d]]
  /\ UNCHANGED <<capturing, capture, listeners, handlers>>

\* One iteration over the live Map, in any order: an entry added on the way is
\* visited too, one that was replaced after its turn is not.
SweepOne(c, p) ==
  /\ \/ call[c] = Idle
     \/ call[c].kind = "sweep" /\ p \notin call[c].seen
  /\ p \in DOMAIN routes
  /\ Uninstall(p)
  /\ call' = [call EXCEPT ![c] = Sweeping(IF @ = Idle THEN {p} ELSE @.seen \cup {p})]
  /\ UNCHANGED <<capturing, capture, listeners, routes>>

\* Nothing is left to visit: routes.clear(), which restarts other sweeps.
SweepReturns(c) ==
  /\ \/ call[c] = Idle /\ routes = <<>>
     \/ call[c].kind = "sweep" /\ DOMAIN routes \subseteq call[c].seen
  /\ routes' = <<>>
  /\ call' = [d \in Calls |->
                CASE d = c -> Over
                  [] d # c /\ call[d].kind = "sweep" -> Sweeping({})
                  [] OTHER -> call[d]]
  /\ UNCHANGED <<capturing, capture, listeners, handlers>>

HookStep ==
  \/ StartCapture \/ StopCapture
  \/ \E c \in Calls :
       \/ RouteReturns(c) \/ RouteFails(c) \/ UnrouteReturns(c)
       \/ SweepReturns(c)
       \/ \E p \in Patterns : Route(c, p) \/ Unroute(c, p) \/ SweepOne(c, p)

HooksNext ==
  \/ TabStep /\ UNCHANGED hookVars
  \/ HookStep /\ UNCHANGED tabVars

HooksSpec == HooksInit /\ [][HooksNext]_vars

----------------------------------------------------------------------------
(* Properties *)

\* The types, and a table whose handlers are those of calls that are over.
HooksTypeOK ==
  /\ capturing \in BOOLEAN
  /\ capture \in 0 .. MaxStarts
  /\ listeners \in [Tabs -> SUBSET (1 .. capture)]
  /\ DOMAIN routes \subseteq Patterns
  /\ \A p \in DOMAIN routes : call[routes[p]] = Over
  /\ handlers \in [Tabs -> SUBSET (Patterns \X Calls)]
  /\ call \in [Calls -> CallStates]

\* As long as the session is on its first and only tab, its listeners are those
\* of the capture that is on: no request is recorded twice, or after a stop.
OneTabIsExact ==
  (\A t \in Tabs \ {Main} : stage[t] = "idle")
    => listeners[Main] = IF capturing THEN {capture} ELSE {}

\* A handler the table names is on some tab, unless a call is unrouting it.
RoutesAreInstalled ==
  \A p \in DOMAIN routes :
    \/ \E t \in Tabs : <<p, routes[p]>> \in handlers[t]
    \/ \E c \in Calls : \/ call[c] = Unrouting(p)
                        \/ call[c].kind = "sweep" /\ p \in call[c].seen

\* "Stop network capture for a session": no tab records while capture is off.
StoppedIsSilent == ~capturing => \A t \in live : listeners[t] = {}

\* "Remove a previously registered browser_route interception": no open tab
\* intercepts a pattern that is not routed, once the calls have returned.
UnroutedMeansUnintercepted ==
  (\A c \in Calls : call[c] \in {Idle, Over})
    => \A t \in live : \A h \in handlers[t] : h[1] \in DOMAIN routes
=============================================================================
