------------------------- MODULE BrowserPagesProofs -------------------------
(***************************************************************************)
(* What capture, interception and the action log do on the tabs of a       *)
(* session, for every number of tabs, calls, patterns and captures, and    *)
(* for logs, recordings and replays of any length.                         *)
(***************************************************************************)
EXTENDS MCBrowserPages, KeySequenceTheorems

----------------------------------------------------------------------------
(* Capture and interception *)

\* The active tab, listed or not by now, is one that was listed once.
TabsInv ==
  /\ pages \in Seq(Tabs) /\ IsInjective(pages)
  /\ DOMAIN stage = Tabs /\ \A t \in ToSet(pages) : stage[t] = "listed"
  /\ active \in Tabs /\ stage[active] = "listed"

\* With one tab, its listeners are those of the capture that is on.
CaptureInv ==
  /\ DOMAIN listeners = Tabs
  /\ OneTabIsExact

\* A handler that is not in the table yet stays on its tab.
RouteInv ==
  /\ DOMAIN handlers = Tabs /\ DOMAIN call = Calls
  /\ \A p \in DOMAIN routes : call[routes[p]] = Over /\ routes[p] \in Calls
  /\ \A c \in Calls : call[c].kind = "route" =>
       \E t \in Tabs : <<call[c].pattern, c>> \in handlers[t]
  /\ RoutesAreInstalled

LEMMA TabStepKeepsTabs ==
  ASSUME TabsInv, [TabStep]_tabVars
  PROVE  /\ TabsInv'
         /\ \A t \in Tabs : stage[t] # "idle" => stage'[t] # "idle"
<1>. DEFINE Kept == TabsInv' /\ \A t \in Tabs : stage[t] # "idle" => stage'[t] # "idle"
<1>1. ASSUME NEW t \in Tabs, NEW st, stage[t] # "listed", st # "idle",
             stage' = [stage EXCEPT ![t] = st], UNCHANGED <<pages, active>>
      PROVE  Kept
  BY <1>1 DEF TabsInv
<1>2. ASSUME NEW t \in Tabs, stage[t] # "listed", List(t) PROVE Kept
  <2>1. /\ pages' = Append(pages, t) /\ active' = t
        /\ stage' = [stage EXCEPT ![t] = "listed"] /\ t \notin ToSet(pages)
    BY <1>2 DEF List, TabsInv
  <2>2. \A q : Range(q) = ToSet(q)
    BY DEF Range, ToSet
  <2>3. pages' \in Seq(Tabs) /\ IsInjective(pages') /\ ToSet(pages') = ToSet(pages) \cup {t}
    BY <2>1, <2>2, KeyAdded DEF TabsInv
  <2>. QED  BY <2>1, <2>3 DEF TabsInv
<1>3. ASSUME NEW t \in Tabs, Opening(t) PROVE Kept
  <2>1. CASE NewPage(t) \/ CreationFails(t) \/ LoadFails(t) \/ Aborted(t)
    BY <1>1, <2>1 DEF NewPage, CreationFails, LoadFails, Aborted
  <2>2. CASE Created(t)
    BY <1>1, <1>2, <2>2 DEF Created
  <2>3. CASE Loaded(t)
    BY <1>2, <2>3 DEF Loaded
  <2>. QED  BY <1>3, <2>1, <2>2, <2>3 DEF Opening
<1>4. ASSUME NEW t \in Tabs, SwitchPage(t) PROVE Kept
  <2>1. t \in ToSet(pages) /\ active' = t /\ UNCHANGED <<pages, stage>>
    BY <1>4 DEF SwitchPage, Listed
  <2>. QED  BY <2>1 DEF TabsInv
<1>5. ASSUME NEW t \in Tabs, CloseReturns(t) PROVE Kept
  <2>1. /\ pages' = RemoveFirst(pages, t) /\ stage' = stage
        /\ active' = IF active = t /\ pages' # <<>> THEN Head(pages') ELSE active
    BY <1>5 DEF CloseReturns, Without
  <2>2. pages' \in Seq(Tabs) /\ IsInjective(pages') /\ ToSet(pages') = ToSet(pages) \ {t}
    BY <2>1, FirstRemoved DEF TabsInv
  <2>3. ASSUME pages' # <<>> PROVE Head(pages') \in ToSet(pages) /\ Head(pages') \in Tabs
    <3>1. Head(pages') = pages'[1] /\ 1 \in DOMAIN pages' /\ Head(pages') \in Tabs
      BY <2>2, <2>3
    <3>. QED  BY <2>2, <3>1 DEF ToSet
  <2>. QED  BY <2>1, <2>2, <2>3 DEF TabsInv
<1>6. ASSUME \/ \E t \in Tabs : CloseBegins(t) \/ ClosesItself(t)
             \/ UNCHANGED tabVars
      PROVE  Kept
  <2>1. UNCHANGED <<pages, stage, active>>
    BY <1>6 DEF CloseBegins, ClosesItself, tabVars
  <2>. QED  BY <2>1 DEF TabsInv
<1>. QED  BY <1>3, <1>4, <1>5, <1>6 DEF TabStep

LEMMA CaptureStep ==
  ASSUME TabsInv, CaptureInv, Main \in Tabs, [HooksNext]_vars
  PROVE  CaptureInv'
<1>1. CASE UNCHANGED hookVars /\ [TabStep]_tabVars
  <2>1. \A t \in Tabs : stage[t] # "idle" => stage'[t] # "idle"
    BY <1>1, TabStepKeepsTabs
  <2>2. UNCHANGED <<capturing, capture, listeners>>
    BY <1>1 DEF hookVars
  <2>. QED  BY <2>1, <2>2 DEF CaptureInv, OneTabIsExact
<1>2. CASE HookStep /\ UNCHANGED tabVars
  <2>1. (\A t \in Tabs \ {Main} : stage[t] = "idle") => active = Main
    BY DEF TabsInv
  <2>2. stage' = stage
    BY <1>2 DEF tabVars
  <2>3. CASE StartCapture
    BY <2>1, <2>2, <2>3 DEF StartCapture, CaptureInv, OneTabIsExact
  <2>4. CASE StopCapture
    BY <2>1, <2>2, <2>4 DEF StopCapture, CaptureInv, OneTabIsExact
  <2>5. CASE ~(StartCapture \/ StopCapture)
    <3>1. UNCHANGED <<capturing, capture, listeners>>
      BY <1>2, <2>5
         DEF HookStep, RouteReturns, RouteFails, UnrouteReturns, SweepReturns,
             Route, Unroute, SweepOne
    <3>. QED  BY <2>2, <3>1 DEF CaptureInv, OneTabIsExact
  <2>. QED  BY <2>3, <2>4, <2>5
<1>. QED  BY <1>1, <1>2 DEF HooksNext, vars

LEMMA RouteStep ==
  ASSUME TabsInv, RouteInv, [HooksNext]_vars
  PROVE  RouteInv'
<1>. USE DEF Idle, Over, Routing, Unrouting, Sweeping
<1>1. CASE UNCHANGED <<routes, handlers, call>>
  BY <1>1 DEF RouteInv, RoutesAreInstalled
<1>2. ASSUME StartCapture \/ StopCapture \/ UNCHANGED vars \/ UNCHANGED hookVars
      PROVE  UNCHANGED <<routes, handlers, call>>
  BY <1>2 DEF StartCapture, StopCapture, hookVars, vars
<1>3. ASSUME NEW c \in Calls, NEW p \in Patterns, Route(c, p) PROVE RouteInv'
  BY <1>3 DEF Route, RouteInv, RoutesAreInstalled, TabsInv
<1>4. ASSUME NEW c \in Calls, RouteReturns(c) PROVE RouteInv'
  <2>. DEFINE p == call[c].pattern
  <2>1. /\ call[c].kind = "route" /\ handlers' = handlers /\ call' = [call EXCEPT ![c] = Over]
        /\ DOMAIN routes' = DOMAIN routes \cup {p} /\ routes'[p] = c
        /\ \A q \in DOMAIN routes \ {p} : routes'[q] = routes[q]
    BY <1>4 DEF RouteReturns
  <2>. HIDE DEF p
  <2>2. \A q \in DOMAIN routes' : call'[routes'[q]] = Over /\ routes'[q] \in Calls
    BY <2>1 DEF RouteInv
  <2>3. \A d \in Calls : call'[d].kind = "route" =>
          \E t \in Tabs : <<call'[d].pattern, d>> \in handlers'[t]
    BY <2>1 DEF RouteInv
  <2>4. RoutesAreInstalled'
    <3>. SUFFICES ASSUME NEW q \in DOMAIN routes'
                  PROVE  \/ \E t \in Tabs : <<q, routes'[q]>> \in handlers'[t]
                         \/ \E d \in Calls : \/ call'[d] = Unrouting(q)
                                             \/ call'[d].kind = "sweep" /\ q \in call'[d].seen
      BY DEF RoutesAreInstalled
    <3>1. CASE q = p
      BY <2>1, <3>1 DEF RouteInv, p
    <3>2. CASE q # p
      <4>1. q \in DOMAIN routes /\ routes'[q] = routes[q]
        BY <2>1, <3>2
      <4>2. \A d \in Calls : d # c => call'[d] = call[d]
        BY <2>1 DEF RouteInv
      <4>. QED  BY <2>1, <4>1, <4>2 DEF RouteInv, RoutesAreInstalled
    <3>. QED  BY <3>1, <3>2
  <2>. QED  BY <2>1, <2>2, <2>3, <2>4 DEF RouteInv
<1>5. ASSUME NEW c \in Calls, RouteFails(c) PROVE RouteInv'
  BY <1>5 DEF RouteFails, RouteInv, RoutesAreInstalled
<1>6. ASSUME NEW c \in Calls, NEW p \in Patterns, Unroute(c, p) PROVE RouteInv'
  BY <1>6 DEF Unroute, Uninstall, RouteInv, RoutesAreInstalled, TabsInv
<1>7. ASSUME NEW c \in Calls, UnrouteReturns(c) PROVE RouteInv'
  <2>. DEFINE p == call[c].pattern
  <2>1. /\ handlers' = handlers /\ DOMAIN call' = Calls /\ call[c] # Over
        /\ DOMAIN routes' = DOMAIN routes \ {p} /\ \A q \in DOMAIN routes' : routes'[q] = routes[q]
    BY <1>7 DEF UnrouteReturns
  <2>2. /\ call'[c] = Over /\ call[c].kind = "unroute"
        /\ \A d \in Calls \ {c} : call'[d] = IF call[d].kind = "sweep"
                                             THEN Sweeping(call[d].seen \ {p}) ELSE call[d]
    BY <1>7 DEF UnrouteReturns
  <2>. HIDE DEF p
  <2>3. \A q \in DOMAIN routes' : call'[routes'[q]] = Over /\ routes'[q] \in Calls
    BY <2>1, <2>2 DEF RouteInv
  <2>4. \A d \in Calls : call'[d].kind = "route" =>
          \E t \in Tabs : <<call'[d].pattern, d>> \in handlers'[t]
    BY <2>1, <2>2 DEF RouteInv
  <2>5. RoutesAreInstalled'
    <3>. SUFFICES ASSUME NEW q \in DOMAIN routes'
                  PROVE  \/ \E t \in Tabs : <<q, routes'[q]>> \in handlers'[t]
                         \/ \E d \in Calls : \/ call'[d] = Unrouting(q)
                                             \/ call'[d].kind = "sweep" /\ q \in call'[d].seen
      BY DEF RoutesAreInstalled
    <3>1. q \in DOMAIN routes /\ q # p /\ routes'[q] = routes[q]
      BY <2>1
    <3>2. CASE \E t \in Tabs : <<q, routes[q]>> \in handlers[t]
      BY <2>1, <3>1, <3>2
    <3>3. ASSUME NEW d \in Calls, call[d] = Unrouting(q)
          PROVE  call'[d] = Unrouting(q)
      <4>1. call[d].kind = "unroute" /\ call[d].pattern = q
        BY <3>3
      <4>2. d # c
        BY <3>1, <4>1 DEF p
      <4>3. call'[d] = call[d]
        BY <2>2, <4>1, <4>2
      <4>. QED  BY <3>3, <4>3
    <3>4. ASSUME NEW d \in Calls, call[d].kind = "sweep", q \in call[d].seen
          PROVE  call'[d].kind = "sweep" /\ q \in call'[d].seen
      <4>1. d # c
        BY <2>2, <3>4
      <4>2. call'[d] = Sweeping(call[d].seen \ {p})
        BY <2>2, <3>4, <4>1
      <4>3. call'[d].kind = "sweep" /\ call'[d].seen = call[d].seen \ {p}
        BY <4>2
      <4>. QED  BY <3>1, <3>4, <4>3
    <3>. QED  BY <3>1, <3>2, <3>3, <3>4 DEF RouteInv, RoutesAreInstalled
  <2>. QED  BY <2>1, <2>3, <2>4, <2>5 DEF RouteInv
<1>8. ASSUME NEW c \in Calls, NEW p \in Patterns, SweepOne(c, p) PROVE RouteInv'
  <2>. DEFINE seen == IF call[c] = Idle THEN {p} ELSE call[c].seen \cup {p}
  <2>1. /\ call' = [call EXCEPT ![c] = Sweeping(seen)] /\ p \in seen
        /\ call[c].kind = "sweep" => call[c].seen \subseteq seen
    <3>1. call' = [call EXCEPT ![c] = Sweeping(seen)]
      BY <1>8 DEF SweepOne
    <3>2. call[c].kind = "sweep" => call[c] # Idle
      OBVIOUS
    <3>. QED  BY <3>1, <3>2
  <2>. HIDE DEF seen
  <2>2. /\ call[c].kind \in {"idle", "sweep"} /\ routes' = routes
        /\ handlers' = [handlers EXCEPT ![active] = @ \ {<<p, routes[p]>>}]
        /\ p \in DOMAIN routes
    BY <1>8 DEF SweepOne, Uninstall
  <2>3. /\ DOMAIN call' = Calls /\ call'[c].kind = "sweep" /\ call'[c].seen = seen
        /\ \A d \in Calls \ {c} : call'[d] = call[d]
    BY <2>1 DEF RouteInv
  <2>4. \A t \in Tabs : \A h \in handlers[t] : h # <<p, routes[p]>> => h \in handlers'[t]
    BY <2>2 DEF RouteInv
  <2>5. \A q \in DOMAIN routes' : call'[routes'[q]] = Over /\ routes'[q] \in Calls
    BY <2>2, <2>3 DEF RouteInv
  <2>6. \A d \in Calls : call'[d].kind = "route" =>
          \E t \in Tabs : <<call'[d].pattern, d>> \in handlers'[t]
    BY <2>2, <2>3, <2>4 DEF RouteInv
  <2>7. RoutesAreInstalled'
    BY <2>1, <2>2, <2>3, <2>4 DEF RouteInv, RoutesAreInstalled
  <2>. QED  BY <2>2, <2>3, <2>5, <2>6, <2>7 DEF RouteInv
<1>9. ASSUME NEW c \in Calls, SweepReturns(c) PROVE RouteInv'
  BY <1>9 DEF SweepReturns, RouteInv, RoutesAreInstalled
<1>. QED
  BY <1>1, <1>2, <1>3, <1>4, <1>5, <1>6, <1>7, <1>8, <1>9 DEF HooksNext, HookStep

\* The initial state of the hooks, and steps of the composition.
LEMMA HooksBegin ==
  ASSUME HooksInit, Main \in Tabs
  PROVE  TabsInv /\ CaptureInv /\ RouteInv
<1>1. /\ pages = <<Main>> /\ active = Main /\ DOMAIN stage = Tabs /\ stage[Main] = "listed"
  BY DEF HooksInit, Init
<1>2. pages \in Seq(Tabs) /\ IsInjective(pages) /\ ToSet(pages) = {Main}
  BY <1>1 DEF IsInjective, ToSet
<1>3. TabsInv
  BY <1>1, <1>2 DEF TabsInv
<1>4. CaptureInv
  BY DEF HooksInit, CaptureInv, OneTabIsExact
<1>5. RouteInv
  BY DEF HooksInit, RouteInv, RoutesAreInstalled, Idle
<1>. QED  BY <1>3, <1>4, <1>5

LEMMA HooksStep == [PagesNext]_<<vars, logVars>> => [HooksNext]_vars
  BY DEF PagesNext

LEMMA TabsAreKept ==
  TabsInv /\ [HooksNext]_vars => TabsInv'
<1>1. [HooksNext]_vars => [TabStep]_tabVars
  BY DEF HooksNext, vars
<1>. QED  BY <1>1, TabStepKeepsTabs

\* While a session has had one tab, whatever the number of captures started and stopped:
\* the listeners on it are just those of the capture that is on.
THEOREM OneTabStaysExact == PagesSpec => []OneTabIsExact
<1>1. PagesInit => TabsInv /\ CaptureInv
  BY HooksBegin, TabsAssumption DEF PagesInit
<1>2. TabsInv /\ CaptureInv /\ [PagesNext]_<<vars, logVars>> => TabsInv' /\ CaptureInv'
  BY HooksStep, TabsAreKept, CaptureStep, TabsAssumption
<1>3. CaptureInv => OneTabIsExact
  BY DEF CaptureInv
<1>. QED  BY <1>1, <1>2, <1>3, PTL DEF PagesSpec

\* However route, unroute and unroute-all calls overlap on however many tabs: what the
\* table of routes names is installed, but for the patterns a call is taking off.
THEOREM RoutesStayInstalled == PagesSpec => []RoutesAreInstalled
<1>1. PagesInit => TabsInv /\ RouteInv
  BY HooksBegin, TabsAssumption DEF PagesInit
<1>2. TabsInv /\ RouteInv /\ [PagesNext]_<<vars, logVars>> => TabsInv' /\ RouteInv'
  BY HooksStep, TabsAreKept, RouteStep
<1>3. RouteInv => RoutesAreInstalled
  BY DEF RouteInv
<1>. QED  BY <1>1, <1>2, <1>3, PTL DEF PagesSpec
----------------------------------------------------------------------------
(* The action log *)

Statuses == {"ok", "error", "skipped", "pending"}
Entries == [action : Int, status : Statuses]
ReplayStates ==
  [at : {"loop", "awaiting", "stopped", "done"}, array : Int, before : Seq(Int), i : Int,
   results : Seq(Entries), stopOnError : BOOLEAN, includeSideEffects : BOOLEAN]

\* A replay over an array that has not shifted since: it still begins with what was
\* there, and the entries of the report are its first ones.
Unshifted(x, A) ==
  /\ Len(x.before) <= Len(A) /\ \A k \in 1 .. Len(x.before) : A[k] = x.before[k]
  /\ Len(x.results) <= Len(A)
  /\ \A k \in 1 .. Len(x.results) : x.results[k].action = A[k]

\* Of a replay x over the array A.
ReplayInv(x, A) ==
  /\ x \in ReplayStates
  /\ x.before # <<>> /\ A # <<>>
  /\ x.at = "loop" => x.i = Len(x.results) + 1
  /\ x.at = "awaiting" => x.i = Len(x.results) /\ x.i >= 1
  /\ Head(A) > Head(x.before) \/ Unshifted(x, A)
  /\ x.at = "done" => Head(A) > Head(x.before) \/ Len(x.before) <= Len(x.results)

LogInv ==
  /\ recorded \in Nat
  /\ arrays \in Seq(Seq(Int)) /\ Len(arrays) >= 1
  /\ \A k \in 1 .. Len(arrays) :
       Increasing(arrays[k]) /\ Below(ToSet(arrays[k]), {recorded + 1})
  /\ DOMAIN replay = Replays
  /\ \A r \in Replays : replay[r].at # "idle" =>
       /\ replay[r].array \in 1 .. Len(arrays)
       /\ ReplayInv(replay[r], arrays[replay[r].array])

\* The log pushes, then shifts if it is full: it grows at its end, or begins later.
LEMMA PushedAndShifted ==
  ASSUME NEW A \in Seq(Int), Increasing(A), NEW n \in Int, Below(ToSet(A), {n}),
         NEW B, \/ B = Append(A, n)
                \/ Len(Append(A, n)) > MAX_ACTION_LOG /\ B = Tail(Append(A, n))
  PROVE  /\ B \in Seq(Int) /\ B # <<>> /\ Increasing(B) /\ Below(ToSet(B), {n + 1})
         /\ \/ B = Append(A, n)
            \/ A # <<>> /\ Head(B) > Head(A)
<1>. DEFINE P == Append(A, n)
<1>1. /\ P \in Seq(Int) /\ P # <<>> /\ Increasing(P) /\ ToSet(P) = ToSet(A) \cup {n}
      /\ Len(P) = Len(A) + 1 /\ Len(A) \in Nat
      /\ A # <<>> => Head(P) = Head(A)
  BY AppendIncreasing
<1>2. \A x \in ToSet(P) : x \in Int /\ x < n + 1
  <2>1. \A x \in ToSet(A) : x \in Int /\ x < n
    BY DEF Below, ToSet
  <2>. QED  BY <1>1, <2>1
<1>3. CASE B = P
  BY <1>1, <1>2, <1>3 DEF Below
<1>4. CASE Len(P) > MAX_ACTION_LOG /\ B = Tail(P)
  <2>1. Len(P) >= 2 /\ A # <<>>
    BY <1>1, <1>4, LogBounds DEF Log!ActionLogAssumption
  <2>. HIDE DEF P
  <2>2. /\ B \in Seq(Int) /\ Increasing(B) /\ Below({Head(P)}, ToSet(B))
        /\ ToSet(P) = {Head(P)} \cup ToSet(B)
    BY <1>1, <1>4, TailIncreasing
  <2>3. B # <<>> /\ Head(B) = B[1] /\ 1 \in DOMAIN B
    <3>1. Len(B) = Len(P) - 1 /\ Len(B) \in Nat
      BY <1>1, <1>4, <2>1
    <3>2. Len(B) >= 1
      BY <1>1, <2>1, <3>1
    <3>. QED  BY <2>2, <3>2
  <2>4. Head(B) > Head(A)
    <3>1. B[1] \in ToSet(B) /\ B[1] \in Int /\ Head(P) \in Int
      BY <1>1, <2>2, <2>3 DEF ToSet
    <3>2. Head(P) < B[1]
      BY <2>2, <3>1 DEF Below
    <3>. QED  BY <1>1, <2>1, <2>3, <3>1, <3>2
  <2>. QED  BY <1>2, <2>1, <2>2, <2>3, <2>4 DEF Below
<1>. QED  BY <1>3, <1>4

LEMMA FieldsOfReplay ==
  ASSUME NEW x \in ReplayStates
  PROVE  /\ x.before \in Seq(Int) /\ Len(x.before) \in Nat
         /\ x.results \in Seq(Entries) /\ Len(x.results) \in Nat /\ x.i \in Int
<1>1. x.before \in Seq(Int) /\ x.results \in Seq(Entries) /\ x.i \in Int
  BY DEF ReplayStates
<1>. QED  BY <1>1

LEMMA UnshiftedHead ==
  ASSUME NEW x \in ReplayStates, x.before # <<>>, NEW A, Unshifted(x, A)
  PROVE  Head(A) = Head(x.before)
<1>1. 1 \in 1 .. Len(x.before) /\ Head(x.before) = x.before[1]
  BY FieldsOfReplay
<1>. QED  BY <1>1 DEF Unshifted

\* A replay that waits while the array it is over grows or shifts.
LEMMA ReplayKept ==
  ASSUME NEW A \in Seq(Int), NEW B \in Seq(Int), A # <<>>, B # <<>>,
         NEW x, ReplayInv(x, A),
         \/ \E n \in Int : B = Append(A, n)
         \/ Head(B) > Head(A)
  PROVE  ReplayInv(x, B)
<1>1. /\ x \in ReplayStates /\ x.before # <<>>
      /\ Head(A) > Head(x.before) \/ Unshifted(x, A)
  BY DEF ReplayInv
<1>2. Head(A) \in Int /\ Head(B) \in Int /\ Head(x.before) \in Int
  BY <1>1, FieldsOfReplay
<1>3. CASE Head(B) > Head(A)
  <2>1. Head(B) > Head(x.before)
    BY <1>1, <1>2, <1>3, UnshiftedHead
  <2>. QED  BY <2>1 DEF ReplayInv
<1>4. ASSUME NEW n \in Int, B = Append(A, n) PROVE ReplayInv(x, B)
  <2>1. /\ Head(B) = Head(A) /\ Len(B) = Len(A) + 1 /\ Len(A) \in Nat
        /\ \A k \in 1 .. Len(A) : B[k] = A[k]
    BY <1>4
  <2>2. Unshifted(x, A) => Unshifted(x, B)
    BY <1>1, <2>1, FieldsOfReplay, SMTT(20) DEF Unshifted
  <2>. QED  BY <2>1, <2>2 DEF ReplayInv
<1>. QED  BY <1>3, <1>4

\* One replay moves; the log does not.
LEMMA OneReplayMoves ==
  ASSUME LogInv, NEW r \in Replays, NEW y, replay' = [replay EXCEPT ![r] = y],
         y.array \in 1 .. Len(arrays), ReplayInv(y, arrays[y.array]),
         UNCHANGED <<recorded, arrays>>
  PROVE  LogInv'
BY DEF LogInv

LEMMA LogGrows ==
  ASSUME LogInv, Log!Record
  PROVE  LogInv'
<1>. DEFINE m == Len(arrays)
            A == arrays[m]
            n == recorded + 1
            P == Append(A, n)
            B == IF Len(P) > MAX_ACTION_LOG THEN Tail(P) ELSE P
<1>1. /\ m \in 1 .. Len(arrays) /\ A \in Seq(Int) /\ Increasing(A) /\ Below(ToSet(A), {n})
      /\ recorded \in Nat /\ n \in Int
  <2>1. arrays \in Seq(Seq(Int)) /\ Len(arrays) >= 1 /\ recorded \in Nat
    BY DEF LogInv
  <2>2. Len(arrays) \in 1 .. Len(arrays)
    BY <2>1
  <2>3. arrays[Len(arrays)] \in Seq(Int)
    BY <2>1, <2>2
  <2>4. Increasing(arrays[Len(arrays)]) /\ Below(ToSet(arrays[Len(arrays)]), {recorded + 1})
    BY <2>2 DEF LogInv
  <2>. QED  BY <2>1, <2>2, <2>3, <2>4
<1>7. arrays' = [arrays EXCEPT ![m] = B] /\ recorded' = n /\ replay' = replay
  BY DEF Log!Record, Log!Current
<1>2. B = P \/ (Len(P) > MAX_ACTION_LOG /\ B = Tail(P))
  OBVIOUS
<1>. HIDE DEF m, B
<1>3. /\ B \in Seq(Int) /\ B # <<>> /\ Increasing(B) /\ Below(ToSet(B), {n + 1})
      /\ (B = P \/ (A # <<>> /\ Head(B) > Head(A)))
  BY <1>1, <1>2, PushedAndShifted
<1>. HIDE DEF A, P
<1>4. /\ arrays' \in Seq(Seq(Int)) /\ Len(arrays') = Len(arrays)
      /\ arrays'[m] = B /\ \A k \in 1 .. Len(arrays) : k # m => arrays'[k] = arrays[k]
  BY <1>1, <1>3, <1>7 DEF LogInv
<1>5. \A k \in 1 .. Len(arrays) :
        Increasing(arrays'[k]) /\ Below(ToSet(arrays'[k]), {recorded' + 1})
  <2>. SUFFICES ASSUME NEW k \in 1 .. Len(arrays), k # m
                PROVE  Increasing(arrays[k]) /\ Below(ToSet(arrays[k]), {n + 1})
    BY <1>1, <1>3, <1>4, <1>7
  <2>1. \A e \in ToSet(arrays[k]) : e \in Int /\ e < n
    BY DEF LogInv, Below, ToSet
  <2>. QED  BY <1>1, <2>1 DEF LogInv, Below
<1>6. ASSUME NEW r \in Replays, replay[r].at # "idle"
      PROVE  /\ replay[r].array \in 1 .. Len(arrays)
             /\ ReplayInv(replay[r], arrays'[replay[r].array])
  <2>. DEFINE x == replay[r]
              a == x.array
  <2>1. a \in 1 .. Len(arrays) /\ ReplayInv(x, arrays[a])
    BY <1>6 DEF LogInv
  <2>. HIDE DEF x, a
  <2>2. CASE a = m
    <3>1. ReplayInv(x, A) /\ A # <<>>
      BY <2>1, <2>2 DEF A, ReplayInv
    <3>2. (\E e \in Int : B = Append(A, e)) \/ Head(B) > Head(A)
      BY <1>1, <1>3 DEF P
    <3>3. ReplayInv(x, B)
      BY <1>1, <1>3, <3>1, <3>2, ReplayKept
    <3>. QED  BY <1>4, <2>1, <2>2, <3>3 DEF x, a
  <2>3. CASE a # m
    BY <1>4, <2>1, <2>3 DEF x, a
  <2>. QED  BY <2>2, <2>3
<1>8. recorded' \in Nat /\ Len(arrays') >= 1 /\ DOMAIN replay' = Replays
  BY <1>1, <1>4, <1>7 DEF LogInv
<1>9. \A r \in Replays : replay'[r].at # "idle" =>
        /\ replay'[r].array \in 1 .. Len(arrays')
        /\ ReplayInv(replay'[r], arrays'[replay'[r].array])
  BY <1>4, <1>6, <1>7
<1>. QED  BY <1>4, <1>5, <1>8, <1>9 DEF LogInv

\* entry.actionLog becomes a new array; replays keep theirs.
LEMMA LogIsReplaced ==
  ASSUME LogInv, arrays' = Append(arrays, <<>>), UNCHANGED <<recorded, replay>>
  PROVE  LogInv'
<1>. DEFINE e == <<>>
            m == Len(arrays)
<1>1. e \in Seq(Int) /\ Increasing(e) /\ ToSet(e) = {}
  BY DEF Increasing, ToSet
<1>. HIDE DEF e
<1>2. /\ arrays' \in Seq(Seq(Int)) /\ Len(arrays') = m + 1 /\ arrays'[m + 1] = e /\ m \in Nat
      /\ \A k \in 1 .. m : arrays'[k] = arrays[k]
  BY <1>1 DEF LogInv, e
<1>. HIDE DEF m
<1>3. \A k \in 1 .. m + 1 :
        Increasing(arrays'[k]) /\ Below(ToSet(arrays'[k]), {recorded + 1})
  <2>. SUFFICES ASSUME NEW k \in 1 .. m + 1
                PROVE  Increasing(arrays'[k]) /\ Below(ToSet(arrays'[k]), {recorded + 1})
    OBVIOUS
  <2>1. CASE k = m + 1
    BY <1>1, <1>2, <2>1 DEF Below
  <2>2. CASE k \in 1 .. m
    BY <1>2, <2>2 DEF LogInv, m
  <2>. QED  BY <1>2, <2>1, <2>2
<1>4. ASSUME NEW r \in Replays, replay[r].at # "idle"
      PROVE  /\ replay[r].array \in 1 .. m + 1
             /\ ReplayInv(replay[r], arrays'[replay[r].array])
  <2>. DEFINE x == replay[r]
              a == x.array
  <2>1. a \in 1 .. m /\ ReplayInv(x, arrays[a])
    BY <1>4 DEF LogInv, m
  <2>. HIDE DEF x, a
  <2>2. a \in 1 .. m + 1 /\ arrays'[a] = arrays[a]
    BY <1>2, <2>1
  <2>. QED  BY <2>1, <2>2 DEF x, a
<1>5. m + 1 >= 1 /\ recorded \in Nat /\ DOMAIN replay = Replays
  BY <1>2 DEF LogInv
<1>. QED  BY <1>2, <1>3, <1>4, <1>5 DEF LogInv

LEMMA ReplayStarts ==
  ASSUME LogInv, NEW r \in Replays, Log!Start(r)
  PROVE  LogInv'
<1>1. PICK stop, files \in BOOLEAN : replay' = [replay EXCEPT ![r] = Log!Started(stop, files)]
  BY DEF Log!Start
<1>. DEFINE y == Log!Started(stop, files)
            A == arrays[Len(arrays)]
            e == <<>>
<1>2. A # <<>> /\ UNCHANGED <<recorded, arrays>> /\ A \in Seq(Int)
  BY DEF Log!Start, Log!actionLog, Log!Current, LogInv
<1>3. y = [at |-> "loop", array |-> Len(arrays), before |-> A, i |-> 1, results |-> e,
           stopOnError |-> stop, includeSideEffects |-> files]
  BY DEF Log!Started, Log!actionLog, Log!Current
<1>4. e \in Seq(Entries) /\ Len(e) = 0 /\ Len(arrays) \in 1 .. Len(arrays)
  BY DEF LogInv
<1>. HIDE DEF y, A, e
<1>5. /\ y \in ReplayStates /\ y.at = "loop" /\ y.array = Len(arrays) /\ y.before = A
      /\ y.i = 1 /\ y.results = e
  BY <1>2, <1>3, <1>4 DEF ReplayStates
<1>6. Unshifted(y, A)
  BY <1>2, <1>4, <1>5 DEF Unshifted
<1>7. ReplayInv(y, A)
  BY <1>2, <1>4, <1>5, <1>6 DEF ReplayInv
<1>. QED  BY <1>1, <1>2, <1>4, <1>5, <1>7, OneReplayMoves DEF y, A

\* The report of a replay over A takes an entry for the action at its index.
LEMMA ReplayEnters ==
  ASSUME NEW A \in Seq(Int), NEW x, ReplayInv(x, A), x.at = "loop", x.i <= Len(A),
         NEW e \in Entries, e.action = A[x.i],
         NEW y \in ReplayStates, y.before = x.before, y.results = Append(x.results, e),
         \/ y.at = "loop" /\ y.i = x.i + 1
         \/ y.at = "awaiting" /\ y.i = x.i
  PROVE  ReplayInv(y, A)
<1>1. /\ x \in ReplayStates /\ x.before # <<>> /\ A # <<>> /\ x.i = Len(x.results) + 1
      /\ Head(A) > Head(x.before) \/ Unshifted(x, A)
  BY DEF ReplayInv
<1>2. x.results \in Seq(Entries) /\ Len(x.results) \in Nat
  BY <1>1, FieldsOfReplay
<1>3. /\ Len(y.results) = Len(x.results) + 1
      /\ y.results[Len(x.results) + 1] = e
      /\ \A k \in 1 .. Len(x.results) : y.results[k] = x.results[k]
  BY <1>2
<1>4. ASSUME Unshifted(x, A) PROVE Unshifted(y, A)
  <2>1. Len(y.results) <= Len(A)
    BY <1>1, <1>3
  <2>2. ASSUME NEW k \in 1 .. Len(y.results) PROVE y.results[k].action = A[k]
    <3>1. CASE k = Len(x.results) + 1
      BY <1>1, <1>3, <3>1
    <3>2. CASE k \in 1 .. Len(x.results)
      BY <1>3, <1>4, <3>2 DEF Unshifted
    <3>. QED  BY <1>2, <1>3, <3>1, <3>2
  <2>. QED  BY <1>4, <2>1, <2>2 DEF Unshifted
<1>. QED  BY <1>1, <1>2, <1>3, <1>4 DEF ReplayInv

\* The action that was played settles: its entry keeps its place.
LEMMA ReplaySettles ==
  ASSUME NEW A \in Seq(Int), NEW x, ReplayInv(x, A), x.at = "awaiting",
         NEW status \in Statuses, NEW y \in ReplayStates, y.before = x.before,
         y.results = [x.results EXCEPT ![Len(x.results)].status = status],
         \/ y.at = "loop" /\ y.i = x.i + 1
         \/ y.at = "stopped"
  PROVE  ReplayInv(y, A)
<1>1. /\ x \in ReplayStates /\ x.before # <<>> /\ A # <<>>
      /\ x.i = Len(x.results) /\ x.i >= 1
      /\ Head(A) > Head(x.before) \/ Unshifted(x, A)
  BY DEF ReplayInv
<1>2. x.results \in Seq(Entries) /\ Len(x.results) \in Nat
  BY <1>1, FieldsOfReplay
<1>3. /\ Len(y.results) = Len(x.results)
      /\ \A k \in 1 .. Len(x.results) : y.results[k].action = x.results[k].action
  BY <1>2 DEF Entries
<1>4. Unshifted(x, A) => Unshifted(y, A)
  BY <1>3 DEF Unshifted
<1>. QED  BY <1>1, <1>3, <1>4 DEF ReplayInv

LEMMA ReplayReturns ==
  ASSUME NEW A \in Seq(Int), NEW x, ReplayInv(x, A), x.at = "loop", x.i > Len(A),
         NEW y \in ReplayStates, y.before = x.before, y.results = x.results, y.at = "done"
  PROVE  ReplayInv(y, A)
<1>1. /\ x \in ReplayStates /\ x.before # <<>> /\ A # <<>> /\ x.i = Len(x.results) + 1
      /\ Head(A) > Head(x.before) \/ Unshifted(x, A)
  BY DEF ReplayInv
<1>2. Len(x.before) \in Nat /\ Len(x.results) \in Nat /\ Len(A) \in Nat
  BY <1>1, FieldsOfReplay
<1>3. Unshifted(x, A) => Unshifted(y, A) /\ Len(x.before) <= Len(x.results)
  BY <1>1, <1>2 DEF Unshifted
<1>. QED  BY <1>1, <1>3 DEF ReplayInv

LEMMA LogStep ==
  ASSUME LogInv, [Log!Next]_logVars
  PROVE  LogInv'
<1>1. CASE \E clear \in BOOLEAN : Log!StartRecording(clear)
  <2>1. \/ arrays' = Append(arrays, <<>>) /\ UNCHANGED <<recorded, replay>>
        \/ UNCHANGED <<arrays, recorded, replay>>
    BY <1>1 DEF Log!StartRecording, Log!Fresh
  <2>. QED  BY <2>1, LogIsReplaced DEF LogInv
<1>2. CASE Log!StopRecording \/ UNCHANGED logVars
  BY <1>2 DEF Log!StopRecording, logVars, LogInv
<1>3. CASE Log!ClearRecording
  BY <1>3, LogIsReplaced DEF Log!ClearRecording, Log!Fresh
<1>4. CASE Log!Record
  BY <1>4, LogGrows
<1>5. ASSUME NEW r \in Replays, Log!Start(r) PROVE LogInv'
  BY <1>5, ReplayStarts
<1>6. ASSUME NEW r \in Replays, Log!Skips(r) \/ Log!Plays(r) \/ Log!Succeeds(r)
                                  \/ Log!Fails(r) \/ Log!Return(r)
      PROVE  LogInv'
  <2>. DEFINE x == replay[r]
              A == arrays[x.array]
              y == replay'[r]
              e(status) == [action |-> A[x.i], status |-> status]
              s(status) == [x.results EXCEPT ![Len(x.results)].status = status]
              moved(at, q, i) == [x EXCEPT !.at = at, !.results = q, !.i = i]
              next(at) == IF at = "loop" THEN x.i + 1 ELSE x.i
  <2>1. x.at \in {"loop", "awaiting"} /\ UNCHANGED <<recorded, arrays>>
    BY <1>6 DEF Log!Skips, Log!Plays, Log!Succeeds, Log!Fails, Log!Return, Log!InLoop, Log!Is
  <2>2. x.array \in 1 .. Len(arrays) /\ ReplayInv(x, A) /\ x \in ReplayStates
    BY <2>1 DEF LogInv, ReplayInv
  <2>3. A \in Seq(Int) /\ DOMAIN replay = Replays
    BY <2>2 DEF LogInv
  <2>4. ASSUME y \in ReplayStates, y.array = x.array, ReplayInv(y, A),
               replay' = [replay EXCEPT ![r] = y]
        PROVE  LogInv'
    BY <2>1, <2>2, <2>4, OneReplayMoves
  <2>5. ASSUME NEW at \in {"loop", "awaiting", "stopped", "done"}, NEW q \in Seq(Entries),
               NEW i \in Int,
               replay' = [replay EXCEPT ![r] = moved(at, q, i)]
        PROVE  /\ y \in ReplayStates /\ y.at = at /\ y.results = q /\ y.i = i
               /\ y.before = x.before /\ y.array = x.array
               /\ replay' = [replay EXCEPT ![r] = y]
    BY <2>2, <2>3, <2>5 DEF ReplayStates
  <2>6. x.results \in Seq(Entries) /\ Len(x.results) \in Nat /\ x.i \in Int
    BY <2>2, FieldsOfReplay
  <2>7. CASE Log!Skips(r) \/ Log!Plays(r)
    <3>1. x.at = "loop" /\ x.i \in 1 .. Len(A)
      BY <2>2, <2>6, <2>7 DEF Log!Skips, Log!Plays, Log!InLoop, Log!Is, Log!Actions, ReplayInv
    <3>2. PICK at \in {"loop", "awaiting"}, status \in Statuses :
            replay' = [replay EXCEPT ![r] = moved(at, Append(x.results, e(status)), next(at))]
      <4>1. CASE Log!Skips(r)
        BY <2>2, <2>3, <3>1, <4>1, SMTT(40)
           DEF Log!Skips, Log!Action, Log!Actions, Log!Result, Statuses, ReplayStates
      <4>2. CASE Log!Plays(r)
        BY <2>2, <2>3, <3>1, <4>2, SMTT(40)
           DEF Log!Plays, Log!Action, Log!Actions, Log!Result, Statuses, ReplayStates
      <4>. QED  BY <2>7, <4>1, <4>2
    <3>3. e(status) \in Entries /\ e(status).action = A[x.i]
      BY <2>3, <3>1 DEF Entries
    <3>4. Append(x.results, e(status)) \in Seq(Entries)
      BY <2>6, <3>3
    <3>7. next(at) \in Int
      BY <2>6
    <3>. HIDE DEF x, A, e, moved
    <3>5. /\ y \in ReplayStates /\ y.array = x.array /\ replay' = [replay EXCEPT ![r] = y]
          /\ y.before = x.before /\ y.results = Append(x.results, e(status)) /\ y.at = at
          /\ y.i = next(at)
      <4>. HIDE DEF next, y
      <4>. QED  BY <2>5, <3>2, <3>4, <3>7
    <3>. HIDE DEF y
    <3>6. ReplayInv(y, A)
      BY <2>2, <2>3, <3>1, <3>3, <3>5, ReplayEnters
    <3>. QED  BY <2>4, <3>5, <3>6
  <2>8. CASE Log!Succeeds(r) \/ Log!Fails(r)
    <3>1. x.at = "awaiting"
      BY <2>8 DEF Log!Succeeds, Log!Fails, Log!Is
    <3>2. PICK at \in {"loop", "stopped"}, status \in Statuses :
            replay' = [replay EXCEPT ![r] = moved(at, s(status), next(at))]
      <4>1. CASE Log!Succeeds(r)
        <5>1. replay' = [replay EXCEPT ![r] = moved("loop", s("ok"), next("loop"))]
          BY <2>2, <2>3, <4>1 DEF Log!Succeeds, Log!Settled, ReplayStates
        <5>. QED  BY <5>1 DEF Statuses
      <4>2. CASE Log!Fails(r)
        <5>1. CASE x.stopOnError
          <6>1. replay' = [replay EXCEPT ![r] = moved("stopped", s("error"), next("stopped"))]
            BY <2>2, <2>3, <4>2, <5>1 DEF Log!Fails, Log!Settled, ReplayStates
          <6>. QED  BY <6>1 DEF Statuses
        <5>2. CASE ~x.stopOnError
          <6>1. replay' = [replay EXCEPT ![r] = moved("loop", s("error"), next("loop"))]
            BY <2>2, <2>3, <4>2, <5>2 DEF Log!Fails, Log!Settled, ReplayStates
          <6>. QED  BY <6>1 DEF Statuses
        <5>. QED  BY <5>1, <5>2
      <4>. QED  BY <2>8, <4>1, <4>2
    <3>3. s(status) \in Seq(Entries)
      <4>1. Len(x.results) \in 1 .. Len(x.results)
        BY <2>2, <2>6, <3>1 DEF ReplayInv
      <4>. DEFINE n == Len(x.results)
                  last == [x.results[n] EXCEPT !.status = status]
      <4>2. x.results[n] \in Entries
        BY <2>6, <4>1
      <4>3. last \in Entries
        BY <4>2 DEF Entries
      <4>4. s(status) = [x.results EXCEPT ![n] = last]
        OBVIOUS
      <4>. HIDE DEF last, n
      <4>. QED  BY <2>6, <4>1, <4>3, <4>4 DEF n
    <3>6. next(at) \in Int
      BY <2>6
    <3>. HIDE DEF x, A, moved
    <3>4. /\ y \in ReplayStates /\ y.array = x.array /\ replay' = [replay EXCEPT ![r] = y]
          /\ y.before = x.before /\ y.results = s(status) /\ y.at = at
          /\ y.i = next(at)
      <4>. HIDE DEF next, y, s
      <4>. QED  BY <2>5, <3>2, <3>3, <3>6
    <3>. HIDE DEF y
    <3>5. ReplayInv(y, A)
      BY <2>2, <2>3, <3>1, <3>4, ReplaySettles
    <3>. QED  BY <2>4, <3>4, <3>5
  <2>9. CASE Log!Return(r)
    <3>1. x.at = "loop" /\ x.i > Len(A)
      BY <2>9 DEF Log!Return, Log!Is, Log!Actions
    <3>2. replay' = [replay EXCEPT ![r] = moved("done", x.results, x.i)]
      BY <2>2, <2>3, <2>9 DEF Log!Return, ReplayStates
    <3>. HIDE DEF x, A, moved
    <3>3. /\ y \in ReplayStates /\ y.array = x.array /\ replay' = [replay EXCEPT ![r] = y]
          /\ y.before = x.before /\ y.results = x.results /\ y.at = "done"
      BY <2>5, <2>6, <3>2
    <3>. HIDE DEF y
    <3>4. ReplayInv(y, A)
      BY <2>2, <2>3, <3>1, <3>3, ReplayReturns
    <3>. QED  BY <2>4, <3>3, <3>4
  <2>. QED  BY <1>6, <2>7, <2>8, <2>9
<1>. QED  BY <1>1, <1>2, <1>3, <1>4, <1>5, <1>6 DEF Log!Next

LEMMA LogInvHolds == PagesSpec => []LogInv
<1>1. PagesInit => LogInv
  <2>. SUFFICES ASSUME Log!Init PROVE LogInv
    BY DEF PagesInit
  <2>. DEFINE none == <<>>
  <2>1. none \in Seq(Int) /\ Increasing(none) /\ ToSet(none) = {}
    BY DEF Increasing, ToSet
  <2>2. /\ recorded = 0 /\ arrays = <<none>> /\ DOMAIN replay = Replays
        /\ \A r \in Replays : replay[r].at = "idle"
    BY DEF Log!Init, Log!NotCalled
  <2>. HIDE DEF none
  <2>. QED  BY <2>1, <2>2 DEF LogInv, Below
<1>2. LogInv /\ [PagesNext]_<<vars, logVars>> => LogInv'
  <2>1. [PagesNext]_<<vars, logVars>> => [Log!Next]_logVars
    BY DEF PagesNext
  <2>. QED  BY <2>1, LogStep
<1>. QED  BY <1>1, <1>2, PTL DEF PagesSpec

\* For logs, recordings and replays of any number and length: a replay that ends has gone
\* through all that was in the log when it was called, unless the log has shifted under it.
THEOREM ReplaysMissNothing == PagesSpec => []PlaysWhatWasThere
<1>1. LogInv => PlaysWhatWasThere
  <2>. SUFFICES ASSUME LogInv, NEW r \in Replays, Log!Is(r, "done")
                PROVE  \/ Log!IsPrefix(replay[r].before, Log!Played(r))
                       \/ Log!Actions(r) # <<>> /\ Head(Log!Actions(r)) > Head(replay[r].before)
    BY DEF PlaysWhatWasThere, Log!PlaysWhatWasThere
  <2>. DEFINE x == replay[r]
              b == x.before
              p == Log!Played(r)
              A == arrays[x.array]
  <2>1. /\ x \in ReplayStates /\ x.array \in 1 .. Len(arrays) /\ A # <<>>
        /\ (Head(A) > Head(b) \/ (Unshifted(x, A) /\ Len(b) <= Len(x.results)))
    BY DEF LogInv, ReplayInv, Log!Is
  <2>2. CASE Head(A) > Head(b)
    BY <2>1, <2>2 DEF Log!Actions
  <2>3. CASE Unshifted(x, A) /\ Len(b) <= Len(x.results)
    <3>1. /\ b \in Seq(Int) /\ Len(b) \in Nat /\ Len(x.results) \in Nat
          /\ x.results \in Seq(Entries) /\ DOMAIN x.results = 1 .. Len(x.results)
      BY <2>1 DEF ReplayStates
    <3>2. /\ p = [k \in 1 .. Len(x.results) |-> x.results[k].action]
          /\ \A k \in 1 .. Len(x.results) : x.results[k].action \in Int
      <4>1. p = [k \in DOMAIN x.results |-> x.results[k].action]
        BY DEF Log!Played
      <4>2. \A k \in 1 .. Len(x.results) : x.results[k] \in Entries
        BY <3>1
      <4>3. \A k \in 1 .. Len(x.results) : x.results[k].action \in Int
        BY <4>2 DEF Entries
      <4>. HIDE DEF p, x
      <4>. QED  BY <3>1, <4>1, <4>3
    <3>. HIDE DEF p
    <3>3. p \in Seq(Int) /\ Len(p) = Len(x.results)
      BY <3>1, <3>2
    <3>4. \A k \in 1 .. Len(b) : p[k] = b[k]
      BY <2>3, <3>1, <3>2 DEF Unshifted
    <3>. HIDE DEF b, x
    <3>5. SubSeq(b, 1, Len(b)) = SubSeq(p, 1, Len(b))
      <4>1. /\ SubSeq(b, 1, Len(b)) = [k \in 1 .. Len(b) |-> b[k]]
            /\ SubSeq(p, 1, Len(b)) = [k \in 1 .. Len(b) |-> p[k]]
        BY <2>3, <3>1, <3>3
      <4>. QED  BY <3>4, <4>1
    <3>. QED  BY <2>3, <3>3, <3>5 DEF Log!IsPrefix, p, b, x
  <2>. QED  BY <2>1, <2>2, <2>3
<1>. QED  BY <1>1, LogInvHolds, PTL

\* Nothing is recorded into an array that a replay is over.
RecordsElsewhere ==
  Log!Record =>
    \A r \in Replays : Log!Is(r, "awaiting") => replay[r].array # Log!Current

\* The array of a replay under way is as it was, and one that ended has played it all.
ExactInv ==
  \A r \in Replays :
    /\ replay[r].at \in {"loop", "awaiting"} => arrays[replay[r].array] = replay[r].before
    /\ replay[r].at = "done" =>
         /\ Len(replay[r].results) = Len(replay[r].before)
         /\ \A k \in 1 .. Len(replay[r].before) :
              replay[r].results[k].action = replay[r].before[k]

\* A replay returns after the last action of an array that has stayed as it was.
LEMMA ReturnsExactly ==
  ASSUME NEW x, ReplayInv(x, x.before), x.at = "loop", x.i > Len(x.before)
  PROVE  /\ Len(x.results) = Len(x.before)
         /\ \A k \in 1 .. Len(x.before) : x.results[k].action = x.before[k]
<1>1. /\ x \in ReplayStates /\ x.before # <<>> /\ x.i = Len(x.results) + 1
      /\ Head(x.before) > Head(x.before) \/ Unshifted(x, x.before)
  BY DEF ReplayInv
<1>2. /\ Head(x.before) \in Int /\ Len(x.before) \in Nat /\ Len(x.results) \in Nat
  BY <1>1, FieldsOfReplay
<1>3. Unshifted(x, x.before)
  BY <1>1, <1>2
<1>4. Len(x.results) = Len(x.before)
  BY <1>1, <1>2, <1>3 DEF Unshifted
<1>. QED  BY <1>3, <1>4 DEF Unshifted

LEMMA ExactStep ==
  ASSUME LogInv, ExactInv, [Log!Next]_logVars, [RecordsElsewhere]_logVars
  PROVE  ExactInv'
<1>1. ASSUME UNCHANGED replay,
             \A r \in Replays : replay[r].at \in {"loop", "awaiting"} =>
               arrays'[replay[r].array] = arrays[replay[r].array]
      PROVE  ExactInv'
  BY <1>1 DEF ExactInv
<1>2. CASE Log!ClearRecording \/ \E clear \in BOOLEAN : Log!StartRecording(clear)
  <2>1. UNCHANGED replay /\ (arrays' = arrays \/ arrays' = Append(arrays, <<>>))
    BY <1>2 DEF Log!ClearRecording, Log!StartRecording, Log!Fresh
  <2>2. \A k \in 1 .. Len(arrays) : arrays'[k] = arrays[k]
    BY <2>1 DEF LogInv
  <2>3. \A r \in Replays : replay[r].at \in {"loop", "awaiting"} =>
          replay[r].array \in 1 .. Len(arrays)
    BY DEF LogInv
  <2>. QED  BY <1>1, <2>1, <2>2, <2>3
<1>3. CASE Log!StopRecording \/ UNCHANGED logVars
  BY <1>1, <1>3 DEF Log!StopRecording, logVars
<1>4. CASE Log!Record
  <2>1. /\ \A r \in Replays : replay[r].at # "loop"
        /\ UNCHANGED replay
        /\ \A k \in DOMAIN arrays : k # Len(arrays) => arrays'[k] = arrays[k]
    BY <1>4 DEF Log!Record, Log!Quiet, Log!Is, Log!Current
  <2>2. recorded' # recorded
    BY <1>4 DEF Log!Record, LogInv
  <2>3. \A r \in Replays : replay[r].at = "awaiting" => replay[r].array # Len(arrays)
    <3>1. RecordsElsewhere
      BY <2>2 DEF logVars
    <3>. QED  BY <1>4, <3>1 DEF RecordsElsewhere, Log!Is, Log!Current
  <2>4. \A r \in Replays : replay[r].at = "awaiting" => replay[r].array \in DOMAIN arrays
    <3>1. arrays \in Seq(Seq(Int))
      BY DEF LogInv
    <3>2. DOMAIN arrays = 1 .. Len(arrays)
      BY <3>1
    <3>. QED  BY <3>2 DEF LogInv
  <2>. QED  BY <1>1, <2>1, <2>3, <2>4
<1>5. ASSUME NEW r \in Replays, UNCHANGED arrays,
             \A q \in Replays \ {r} : replay'[q] = replay[q],
             \/ /\ replay'[r].at \in {"loop", "awaiting"}
                /\ arrays[replay'[r].array] = replay'[r].before
             \/ replay'[r].at = "stopped"
      PROVE  ExactInv'
  BY <1>5 DEF ExactInv
<1>6. ASSUME NEW r \in Replays, Log!Start(r) PROVE ExactInv'
  <2>1. DOMAIN replay = Replays
    BY DEF LogInv
  <2>. QED
    BY <1>5, <1>6, <2>1 DEF Log!Start, Log!Started, Log!actionLog, Log!Current
<1>7. ASSUME NEW r \in Replays,
             Log!Skips(r) \/ Log!Plays(r) \/ Log!Succeeds(r) \/ Log!Fails(r)
      PROVE  ExactInv'
  <2>1. replay[r].at \in {"loop", "awaiting"}
    BY <1>7 DEF Log!Skips, Log!Plays, Log!Succeeds, Log!Fails, Log!InLoop, Log!Is
  <2>2. replay[r] \in ReplayStates /\ DOMAIN replay = Replays
    BY <2>1 DEF LogInv, ReplayInv
  <2>3. arrays[replay[r].array] = replay[r].before
    BY <2>1 DEF ExactInv
  <2>4. UNCHANGED arrays /\ \A q \in Replays \ {r} : replay'[q] = replay[q]
    BY <1>7, <2>2 DEF Log!Skips, Log!Plays, Log!Succeeds, Log!Fails
  <2>5. /\ replay'[r].array = replay[r].array /\ replay'[r].before = replay[r].before
        /\ replay'[r].at \in {"loop", "awaiting", "stopped"}
    <3>1. CASE Log!Skips(r) \/ Log!Plays(r)
      BY <2>1, <2>2, <3>1 DEF Log!Skips, Log!Plays, ReplayStates
    <3>2. CASE Log!Succeeds(r)
      BY <2>2, <3>2 DEF Log!Succeeds, ReplayStates
    <3>3. CASE Log!Fails(r)
      BY <2>2, <3>3 DEF Log!Fails, ReplayStates
    <3>. QED  BY <1>7, <3>1, <3>2, <3>3
  <2>. QED  BY <1>5, <2>3, <2>4, <2>5
<1>8. ASSUME NEW r \in Replays, Log!Return(r) PROVE ExactInv'
  <2>. DEFINE x == replay[r]
              y == replay'[r]
  <2>1. x.at = "loop" /\ x.i > Len(arrays[x.array]) /\ UNCHANGED arrays
    BY <1>8 DEF Log!Return, Log!Is, Log!Actions
  <2>2. x \in ReplayStates /\ DOMAIN replay = Replays /\ ReplayInv(x, arrays[x.array])
    BY <2>1 DEF LogInv, ReplayInv
  <2>3. /\ \A q \in Replays \ {r} : replay'[q] = replay[q]
        /\ y.at = "done" /\ y.before = x.before /\ y.results = x.results
    BY <1>8, <2>2 DEF Log!Return, ReplayStates
  <2>4. arrays[x.array] = x.before
    BY <2>1 DEF ExactInv
  <2>. HIDE DEF x, y
  <2>5. /\ Len(x.results) = Len(x.before)
        /\ \A k \in 1 .. Len(x.before) : x.results[k].action = x.before[k]
    BY <2>1, <2>2, <2>4, ReturnsExactly
  <2>6. /\ y.at \notin {"loop", "awaiting"} /\ Len(y.results) = Len(y.before)
        /\ \A k \in 1 .. Len(y.before) : y.results[k].action = y.before[k]
    BY <2>3, <2>5
  <2>. QED  BY <2>1, <2>3, <2>6 DEF ExactInv, y
<1>. QED  BY <1>2, <1>3, <1>4, <1>6, <1>7, <1>8 DEF Log!Next

\* A replay that ends has played exactly what was recorded when it was called, as long as
\* nothing is recorded into the array it is over; clearing and recording anew do no harm,
\* as both go on in another array.
THEOREM ReplaysAreExactUnlessRecorded ==
  PagesSpec /\ [][RecordsElsewhere]_logVars => []Log!PlaysExactlyTheRecording
<1>1. PagesInit => ExactInv
  BY DEF PagesInit, Log!Init, Log!NotCalled, ExactInv
<1>2. /\ LogInv /\ ExactInv
      /\ [PagesNext]_<<vars, logVars>> /\ [RecordsElsewhere]_logVars
      => ExactInv'
  <2>1. [PagesNext]_<<vars, logVars>> => [Log!Next]_logVars
    BY DEF PagesNext
  <2>. QED  BY <2>1, ExactStep
<1>3. LogInv /\ ExactInv => Log!PlaysExactlyTheRecording
  <2>. SUFFICES ASSUME LogInv, ExactInv, NEW r \in Replays, replay[r].at = "done"
                PROVE  Log!Played(r) = replay[r].before
    BY DEF Log!PlaysExactlyTheRecording, Log!Is
  <2>. DEFINE b == replay[r].before
              q == replay[r].results
  <2>1. b \in Seq(Int) /\ q \in Seq(Entries)
    BY DEF LogInv, ReplayInv, ReplayStates
  <2>2. Len(q) = Len(b) /\ \A k \in 1 .. Len(b) : q[k].action = b[k]
    BY DEF ExactInv
  <2>3. Log!Played(r) = [k \in DOMAIN q |-> q[k].action]
    BY DEF Log!Played
  <2>. HIDE DEF b, q
  <2>4. DOMAIN q = 1 .. Len(b) /\ b = [k \in 1 .. Len(b) |-> b[k]]
    BY <2>1, <2>2
  <2>. QED  BY <2>2, <2>3, <2>4 DEF b
<1>. QED  BY <1>1, <1>2, <1>3, LogInvHolds, PTL DEF PagesSpec
=============================================================================
