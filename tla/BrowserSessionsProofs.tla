----------------------- MODULE BrowserSessionsProofs -----------------------
(***************************************************************************)
(* Browser sessions, for every number of calls, tabs, waiters, answers and *)
(* dialogs and every cap: the reservations of the pool are exact and no    *)
(* browser is lost; tools act on a tab that is listed; dialogs take the    *)
(* answers in order, and wake a call that still waits.                     *)
(***************************************************************************)
EXTENDS MCBrowserSessions, KeySequenceTheorems, FiniteSetTheorems

----------------------------------------------------------------------------
(* The pool *)

\* The stages and the table keep their shape.
THEOREM TypeCorrect == Spec => []TypeOK
<1>1. Init => TypeOK
  BY PoolAssumption DEF Init, TypeOK, Stages, At
<1>2. TypeOK /\ [Next]_vars => TypeOK'
  <2>. SUFFICES ASSUME TypeOK, [Next]_vars PROVE TypeOK'
    OBVIOUS
  <2>. USE DEF TypeOK, Stages, At
  <2>1. ASSUME NEW c \in Calls, Refuse(c) \/ Reserve(c) \/ ReserveThrows(c) PROVE TypeOK'
    BY <2>1 DEF Refuse, Reserve, ReserveThrows
  <2>2. ASSUME NEW c \in Calls, LaunchFails(c) \/ LaunchResolves(c) PROVE TypeOK'
    BY <2>2 DEF LaunchFails, LaunchResolves
  <2>3. ASSUME NEW c \in Calls, Opened(c) PROVE TypeOK'
    BY <2>3 DEF Opened
  <2>4. ASSUME NEW c \in Calls, ContextFails(c) \/ Aborted(c) PROVE TypeOK'
    BY <2>4 DEF ContextFails, Aborted
  <2>5. ASSUME NEW c \in Calls, CloseBegins(c) PROVE TypeOK'
    BY <2>5, PoolAssumption DEF CloseBegins
  <2>6. ASSUME NEW c \in Calls, CloseReturns(c) PROVE TypeOK'
    BY <2>6, PoolAssumption DEF CloseReturns
  <2>7. ASSUME NEW c \in Calls, Dies(c) PROVE TypeOK'
    BY <2>7 DEF Dies
  <2>8. CASE UNCHANGED vars
    BY <2>8 DEF vars
  <2>. QED  BY <2>1, <2>2, <2>3, <2>4, <2>5, <2>6, <2>7, <2>8 DEF Next, Settles
<1>. QED  BY <1>1, <1>2, PTL DEF Spec

\* The calls that hold a reservation.
Reserved == At("launching") \cup At("badproxy")

LEMMA ReservedIsFinite ==
  /\ IsFiniteSet(Reserved) /\ Cardinality(Reserved) \in Nat
  /\ IsFiniteSet(At("launching")) /\ Cardinality(At("launching")) \in Nat
  /\ Cardinality(At("launching")) <= Cardinality(Reserved)
<1>1. Reserved \in SUBSET Calls /\ At("launching") \in SUBSET Reserved  BY DEF At, Reserved
<1>2. IsFiniteSet(Reserved) /\ Cardinality(Reserved) \in Nat
  BY <1>1, PoolAssumption, FS_Subset, FS_CardinalityType
<1>. QED  BY <1>1, <1>2, FS_Subset, FS_CardinalityType

\* pendingLaunches counts exactly the launches in flight and those a malformed proxy made
\* throw: no other outcome of a launch leaks a reservation, and none returns one twice.
THEOREM ReservationsAreExact == Spec => []ReservationsExact
<1>1. Init => ReservationsExact
  <2>1. Init => At("launching") \cup At("badproxy") = {}  BY DEF Init, At
  <2>. QED  BY <2>1, FS_EmptySet DEF Init, ReservationsExact
<1>2. TypeOK /\ ReservationsExact /\ [Next]_vars => ReservationsExact'
  <2>. SUFFICES ASSUME TypeOK, ReservationsExact, [Next]_vars PROVE ReservationsExact'
    OBVIOUS
  <2>. DEFINE L == Reserved
  <2>1. ASSUME NEW c \in Calls, Reserve(c) \/ ReserveThrows(c) PROVE ReservationsExact'
    <3>1. L' = L \cup {c} /\ c \notin L
      BY <2>1 DEF Reserve, ReserveThrows, Reserved, At, TypeOK
    <3>. HIDE DEF L
    <3>2. IsFiniteSet(L) /\ Cardinality(L) \in Nat  BY ReservedIsFinite DEF L
    <3>3. Cardinality(L') = Cardinality(L) + 1  BY <3>1, <3>2, FS_AddElement
    <3>. QED  BY <2>1, <3>3 DEF Reserve, ReserveThrows, ReservationsExact, Reserved, L
  <2>2. ASSUME NEW c \in Calls, LaunchFails(c) \/ LaunchResolves(c)
        PROVE  ReservationsExact'
    <3>1. L' = L \ {c} /\ c \in L
      BY <2>2 DEF LaunchFails, LaunchResolves, Reserved, At, TypeOK
    <3>. HIDE DEF L
    <3>2. IsFiniteSet(L) /\ Cardinality(L) \in Nat  BY ReservedIsFinite DEF L
    <3>3. Cardinality(L') = Cardinality(L) - 1  BY <3>1, <3>2, FS_RemoveElement
    <3>. QED  BY <2>2, <3>3 DEF LaunchFails, LaunchResolves, ReservationsExact, Reserved, L
  <2>3. ASSUME NEW c \in Calls,
               \/ Refuse(c) \/ Opened(c) \/ ContextFails(c) \/ Aborted(c)
               \/ CloseBegins(c) \/ CloseReturns(c) \/ Dies(c)
        PROVE  L' = L /\ pendingLaunches' = pendingLaunches
    BY <2>3 DEF Refuse, Opened, ContextFails, Aborted, CloseBegins, CloseReturns, Dies,
                Reserved, At, TypeOK
  <2>4. CASE UNCHANGED vars
    BY <2>4 DEF vars, At, ReservationsExact
  <2>5. L' = L /\ pendingLaunches' = pendingLaunches => ReservationsExact'
    BY DEF ReservationsExact, Reserved
  <2>. QED  BY <2>1, <2>2, <2>3, <2>4, <2>5 DEF Next, Settles
<1>. QED  BY <1>1, <1>2, TypeCorrect, PTL DEF Spec

\* A launch is admitted only while no other awaits its context and first page.
NoContextAwaited == \A c \in Calls : Reserve(c) => At("context") = {}

\* Sessions, launches in flight and browsers that await their context together keep the cap.
CapInv ==
  Cardinality(sessions) + Cardinality(At("launching")) + Cardinality(At("context"))
    <= MAX_SESSIONS

LEMMA PoolIsFinite ==
  ASSUME TypeOK, ReservationsExact
  PROVE  /\ IsFiniteSet(sessions) /\ Cardinality(sessions) \in Nat
         /\ IsFiniteSet(At("context")) /\ Cardinality(At("context")) \in Nat
         /\ IsFiniteSet(At("launching")) /\ Cardinality(At("launching")) \in Nat
         /\ pendingLaunches \in Nat /\ Cardinality(At("launching")) <= pendingLaunches
<1>1. sessions \in SUBSET Calls /\ At("context") \in SUBSET Calls
  BY DEF TypeOK, At
<1>2. IsFiniteSet(sessions) /\ Cardinality(sessions) \in Nat
  BY <1>1, PoolAssumption, FS_Subset, FS_CardinalityType
<1>3. IsFiniteSet(At("context")) /\ Cardinality(At("context")) \in Nat
  BY <1>1, PoolAssumption, FS_Subset, FS_CardinalityType
<1>. QED  BY <1>2, <1>3, ReservedIsFinite DEF ReservationsExact, Reserved

LEMMA CapStep ==
  ASSUME TypeOK, ReservationsExact, CapInv, [Next]_vars, [NoContextAwaited]_vars
  PROVE  CapInv'
<1>. DEFINE S == sessions
            L == At("launching")
            W == At("context")
<1>1. /\ IsFiniteSet(S) /\ Cardinality(S) \in Nat
      /\ IsFiniteSet(L) /\ Cardinality(L) \in Nat
      /\ IsFiniteSet(W) /\ Cardinality(W) \in Nat
      /\ pendingLaunches \in Nat /\ Cardinality(L) <= pendingLaunches
      /\ MAX_SESSIONS \in Nat
      /\ Cardinality(S) + Cardinality(L) + Cardinality(W) <= MAX_SESSIONS
  BY PoolIsFinite, PoolAssumption DEF CapInv
<1>2. Cardinality(S') + Cardinality(L') + Cardinality(W') <= MAX_SESSIONS => CapInv'
  BY DEF CapInv
<1>3. ASSUME NEW c \in Calls, Reserve(c) PROVE CapInv'
  <2>1. stage' # stage
    BY <1>3 DEF Reserve, TypeOK
  <2>2. W = {}
    BY <1>3, <2>1 DEF NoContextAwaited, vars
  <2>3. W' = {} /\ S' = S /\ c \notin L /\ L' = L \cup {c}
    BY <1>3, <2>2 DEF Reserve, At, TypeOK
  <2>4. Cardinality(S) + pendingLaunches < MAX_SESSIONS
    BY <1>3 DEF Reserve
  <2>. HIDE DEF S, L, W
  <2>5. Cardinality(W') = 0 /\ Cardinality(L') = Cardinality(L) + 1
    BY <1>1, <2>3, FS_EmptySet, FS_AddElement
  <2>. QED  BY <1>1, <1>2, <2>3, <2>4, <2>5
<1>4. ASSUME NEW c \in Calls, LaunchResolves(c) PROVE CapInv'
  <2>1. /\ S' = S /\ c \in L /\ L' = L \ {c} /\ c \notin W
        /\ W' = W \cup {c} \/ W' = W
    BY <1>4 DEF LaunchResolves, At, TypeOK
  <2>. HIDE DEF S, L, W
  <2>2. W' = W \cup {c} => Cardinality(W') = Cardinality(W) + 1
    BY <1>1, <2>1, FS_AddElement
  <2>3. Cardinality(W') \in Nat /\ Cardinality(W') <= Cardinality(W) + 1
    BY <1>1, <2>1, <2>2
  <2>4. Cardinality(L') = Cardinality(L) - 1
    BY <1>1, <2>1, FS_RemoveElement
  <2>. QED  BY <1>1, <1>2, <2>1, <2>3, <2>4
<1>5. ASSUME NEW c \in Calls, Opened(c) PROVE CapInv'
  <2>1. /\ L' = L /\ c \in W /\ W' = W \ {c}
        /\ c \notin S /\ S' = S \cup {c}
    BY <1>5 DEF Opened, At, TypeOK
  <2>. HIDE DEF S, L, W
  <2>2. Cardinality(W') = Cardinality(W) - 1 /\ Cardinality(S') = Cardinality(S) + 1
    BY <1>1, <2>1, FS_AddElement, FS_RemoveElement
  <2>. QED  BY <1>1, <1>2, <2>1, <2>2
<1>6. ASSUME NEW c \in Calls, LaunchFails(c) \/ ContextFails(c) \/ CloseReturns(c)
      PROVE  CapInv'
  <2>1. L' \subseteq L /\ S' \subseteq S /\ W' \subseteq W
    BY <1>6 DEF LaunchFails, ContextFails, CloseReturns, At, TypeOK
  <2>. HIDE DEF S, L, W
  <2>2. /\ Cardinality(S') <= Cardinality(S) /\ Cardinality(S') \in Nat
        /\ Cardinality(L') <= Cardinality(L) /\ Cardinality(L') \in Nat
        /\ Cardinality(W') <= Cardinality(W) /\ Cardinality(W') \in Nat
    BY <1>1, <2>1, FS_Subset, FS_CardinalityType
  <2>. QED  BY <1>1, <1>2, <2>2
<1>7. ASSUME \/ \E c \in Calls : \/ Refuse(c) \/ ReserveThrows(c) \/ Aborted(c)
                                 \/ CloseBegins(c) \/ Dies(c)
             \/ UNCHANGED vars
      PROVE  S' = S /\ L' = L /\ W' = W
  BY <1>7 DEF Refuse, ReserveThrows, Aborted, CloseBegins, Dies, vars, At, TypeOK
<1>. QED  BY <1>1, <1>2, <1>3, <1>4, <1>5, <1>6, <1>7 DEF Next, Settles

\* What the reservations miss: they end with chromium.launch, before the session is
\* registered.  As long as no launch is admitted while another awaits its
\* context, the cap holds, for any number of launches, failures, closes and deaths.
THEOREM CapHoldsUnlessContextAwaited ==
  Spec /\ [][NoContextAwaited]_vars => []CapHolds
<1>1. Init => CapInv
  <2>1. Init => At("context") = {} /\ At("launching") = {}  BY DEF Init, At
  <2>. QED  BY <2>1, FS_EmptySet, PoolAssumption DEF Init, CapInv
<1>2. TypeOK /\ ReservationsExact /\ CapInv => CapHolds
  BY PoolIsFinite, PoolAssumption DEF CapInv, CapHolds
<1>3. TypeOK /\ ReservationsExact /\ CapInv /\ [Next]_vars /\ [NoContextAwaited]_vars => CapInv'
  BY CapStep
<1>. QED  BY <1>1, <1>2, <1>3, TypeCorrect, ReservationsAreExact, PTL DEF Spec

\* Every browser that runs has a session or a call that will close it, except
\* those whose storage_state was rejected after the launch.
THEOREM NoBrowserStrays == Spec => []NoStrayBrowser
<1>1. Init => NoStrayBrowser
  BY DEF Init, NoStrayBrowser
<1>2. TypeOK /\ NoStrayBrowser /\ [Next]_vars => NoStrayBrowser'
  <2>. SUFFICES ASSUME TypeOK, NoStrayBrowser, [Next]_vars PROVE NoStrayBrowser'
    OBVIOUS
  <2>. USE DEF NoStrayBrowser, At, TypeOK
  <2>1. ASSUME NEW c \in Calls, Refuse(c) \/ Reserve(c) \/ ReserveThrows(c) PROVE NoStrayBrowser'
    BY <2>1 DEF Refuse, Reserve, ReserveThrows
  <2>2. ASSUME NEW c \in Calls, LaunchFails(c) \/ LaunchResolves(c) PROVE NoStrayBrowser'
    BY <2>2 DEF LaunchFails, LaunchResolves
  <2>3. ASSUME NEW c \in Calls, Opened(c) PROVE NoStrayBrowser'
    BY <2>3 DEF Opened
  <2>4. ASSUME NEW c \in Calls, ContextFails(c) \/ Aborted(c) PROVE NoStrayBrowser'
    BY <2>4 DEF ContextFails, Aborted
  <2>5. ASSUME NEW c \in Calls, CloseBegins(c) \/ CloseReturns(c) \/ Dies(c)
        PROVE  NoStrayBrowser'
    BY <2>5 DEF CloseBegins, CloseReturns, Dies
  <2>6. CASE UNCHANGED vars
    BY <2>6 DEF vars
  <2>. QED  BY <2>1, <2>2, <2>3, <2>4, <2>5, <2>6 DEF Next, Settles
<1>. QED  BY <1>1, <1>2, TypeCorrect, PTL DEF Spec

----------------------------------------------------------------------------
(* The tabs of a session *)

\* The Map holds each tab once, and only after the call that opened it has listed it.
TabsInv ==
  /\ pages \in Seq(Tabs) /\ IsInjective(pages)
  /\ DOMAIN tabStage = Tabs /\ live \subseteq Tabs
  /\ \A t \in Tab!Listed : tabStage[t] = "listed"
  /\ Tab!ActiveIsListed /\ Tab!NoLostTab

\* The instances' sequences are those of the lemmas.
LEMMA TabSequences ==
  /\ Tab!Listed = ToSet(pages) /\ Tab!Listed' = ToSet(pages')
  /\ \A t : Tab!Without(t) = RemoveFirst(pages, t)
<1>1. \A q : Tab!ToSet(q) = ToSet(q)
  BY DEF Tab!ToSet, ToSet
<1>2. \A q, x : Tab!RemoveFirst(q, x) = RemoveFirst(q, x)
  BY DEF Tab!RemoveFirst, Tab!SelectInSeq, Tab!RemoveAt, Tab!Min,
         RemoveFirst, SelectInSeq, RemoveAt, Min
<1>. QED  BY <1>1, <1>2 DEF Tab!Listed, Tab!Without

LEMMA DialogSequences ==
  /\ \A q : Dialog!ToSet(q) = ToSet(q)
  /\ \A q, x : Dialog!RemoveFirst(q, x) = RemoveFirst(q, x)
<1>1. \A q : Dialog!ToSet(q) = ToSet(q)
  BY DEF Dialog!ToSet, ToSet
<1>2. \A q, x : Dialog!RemoveFirst(q, x) = RemoveFirst(q, x)
  BY DEF Dialog!RemoveFirst, Dialog!SelectInSeq, Dialog!RemoveAt, Dialog!Min,
         RemoveFirst, SelectInSeq, RemoveAt, Min
<1>. QED  BY <1>1, <1>2

\* A tab is listed that was not, and becomes the active one.
LEMMA ListKeepsTabs ==
  ASSUME TabsInv, NEW t \in Tabs, t \notin Tab!Listed, Tab!List(t),
         live' \subseteq live \cup {t}
  PROVE  TabsInv'
<1>1. /\ pages' = Append(pages, t) /\ active' = t
      /\ tabStage' = [tabStage EXCEPT ![t] = "listed"]
  BY DEF Tab!List
<1>2. \A q : Range(q) = ToSet(q)
  BY DEF Range, ToSet
<1>3. /\ pages' \in Seq(Tabs) /\ IsInjective(pages') /\ Tab!Listed' = Tab!Listed \cup {t}
  BY <1>1, <1>2, KeyAdded, TabSequences DEF TabsInv
<1>4. \A u \in Tab!Listed' : tabStage'[u] = "listed"
  BY <1>1, <1>3 DEF TabsInv
<1>5. Tab!ActiveIsListed'
  BY <1>1, <1>3 DEF Tab!ActiveIsListed
<1>6. Tab!NoLostTab'
  BY <1>1, <1>3 DEF TabsInv, Tab!NoLostTab
<1>. QED  BY <1>1, <1>3, <1>4, <1>5, <1>6 DEF TabsInv

\* closePage takes a tab off, and the active one with it only if that is replaced.
LEMMA CloseKeepsTabs ==
  ASSUME TabsInv, NEW t \in Tabs, Tab!CloseReturns(t)
  PROVE  TabsInv'
<1>1. /\ pages' = RemoveFirst(pages, t) /\ tabStage' = tabStage /\ live' = live \ {t}
      /\ active' = IF active = t /\ pages' # <<>> THEN Head(pages') ELSE active
  BY TabSequences DEF Tab!CloseReturns
<1>2. pages' \in Seq(Tabs) /\ IsInjective(pages') /\ Tab!Listed' = Tab!Listed \ {t}
  BY <1>1, FirstRemoved, TabSequences DEF TabsInv
<1>3. Tab!ActiveIsListed'
  <2>. SUFFICES ASSUME pages' # <<>> PROVE active' \in Tab!Listed'
    BY DEF Tab!ActiveIsListed
  <2>1. CASE active = t
    <3>1. Head(pages') \in Tab!Listed'
      <4>1. Head(pages') = pages'[1] /\ 1 \in DOMAIN pages'
        BY <1>2
      <4>. QED  BY <4>1, TabSequences DEF ToSet
    <3>. QED  BY <1>1, <2>1, <3>1
  <2>2. CASE active # t
    <3>1. pages # <<>>
      <4>1. ToSet(pages') \subseteq ToSet(pages)
        BY <1>2, TabSequences
      <4>3. 1 \in DOMAIN pages'
        BY <1>2
      <4>4. pages'[1] \in ToSet(pages')
        BY <4>3 DEF ToSet
      <4>2. ToSet(<<>>) = {}
        BY DEF ToSet
      <4>. QED  BY <4>1, <4>2, <4>4
    <3>. QED  BY <1>1, <1>2, <2>2, <3>1 DEF TabsInv, Tab!ActiveIsListed
  <2>. QED  BY <2>1, <2>2
<1>4. Tab!NoLostTab'
  BY <1>1, <1>2 DEF TabsInv, Tab!NoLostTab
<1>. QED  BY <1>1, <1>2, <1>3, <1>4 DEF TabsInv

LEMMA TabsStep ==
  ASSUME TabsInv, [Tab!TabStep]_tabVars
  PROVE  TabsInv'
<1>1. ASSUME NEW t \in Tabs, NEW st, t \notin Tab!Listed, tabStage[t] # "aborting",
             tabStage[t] = "loading" => st = "aborting",
             tabStage' = [tabStage EXCEPT ![t] = st],
             UNCHANGED <<pages, active, live>>
      PROVE  TabsInv'
  <2>1. Tab!Listed' = Tab!Listed
    BY <1>1, TabSequences
  <2>. QED  BY <1>1, <2>1 DEF TabsInv, Tab!ActiveIsListed, Tab!NoLostTab
<1>8. ASSUME NEW t \in Tabs, Tab!NewPage(t) \/ Tab!CreationFails(t) \/ Tab!LoadFails(t)
      PROVE  TabsInv'
  BY <1>1, <1>8 DEF Tab!NewPage, Tab!CreationFails, Tab!LoadFails, TabsInv
<1>2. ASSUME NEW t \in Tabs, Tab!Created(t) PROVE TabsInv'
  <2>1. t \notin Tab!Listed /\ live' = live \cup {t}
    BY <1>2 DEF Tab!Created, TabsInv
  <2>2. CASE Tab!List(t)
    BY <2>1, <2>2, ListKeepsTabs
  <2>3. CASE tabStage' = [tabStage EXCEPT ![t] = "loading"] /\ UNCHANGED <<pages, active>>
    <3>1. Tab!Listed' = Tab!Listed
      BY <2>3, TabSequences
    <3>. QED  BY <2>1, <2>3, <3>1 DEF TabsInv, Tab!ActiveIsListed, Tab!NoLostTab
  <2>. QED  BY <1>2, <2>2, <2>3 DEF Tab!Created
<1>3. ASSUME NEW t \in Tabs, Tab!Loaded(t) PROVE TabsInv'
  <2>1. t \notin Tab!Listed /\ live' = live /\ Tab!List(t)
    BY <1>3 DEF Tab!Loaded, TabsInv
  <2>. QED  BY <2>1, ListKeepsTabs
<1>4. ASSUME NEW t \in Tabs, Tab!Aborted(t) \/ Tab!ClosesItself(t) PROVE TabsInv'
  <2>1. /\ UNCHANGED <<pages, active>> /\ live' = live \ {t}
        /\ \/ tabStage' = tabStage
           \/ t \notin Tab!Listed /\ tabStage' = [tabStage EXCEPT ![t] = "failed"]
    BY <1>4 DEF Tab!Aborted, Tab!ClosesItself, TabsInv
  <2>2. Tab!Listed' = Tab!Listed
    BY <2>1, TabSequences
  <2>3. \A u \in Tabs \ {t} : tabStage'[u] = tabStage[u]
    BY <2>1 DEF TabsInv
  <2>4. \A u \in Tab!Listed : tabStage'[u] = tabStage[u] /\ u \in Tabs
    BY <2>1, TabSequences DEF TabsInv, ToSet
  <2>5. \A u \in live' : tabStage'[u] = tabStage[u]
    BY <2>1 DEF TabsInv
  <2>6. Tab!NoLostTab'
    BY <2>1, <2>2, <2>5 DEF TabsInv, Tab!NoLostTab
  <2>. QED  BY <2>1, <2>2, <2>4, <2>6 DEF TabsInv, Tab!ActiveIsListed, Tab!NoLostTab
<1>5. ASSUME NEW t \in Tabs, Tab!SwitchPage(t) \/ Tab!CloseBegins(t) PROVE TabsInv'
  <2>1. /\ UNCHANGED <<pages, tabStage, live>>
        /\ (active' = active \/ (active' = t /\ t \in Tab!Listed))
    BY <1>5 DEF Tab!SwitchPage, Tab!CloseBegins
  <2>2. Tab!Listed' = Tab!Listed
    BY <2>1, TabSequences
  <2>. QED  BY <2>1, <2>2 DEF TabsInv, Tab!ActiveIsListed, Tab!NoLostTab
<1>6. ASSUME NEW t \in Tabs, Tab!CloseReturns(t) PROVE TabsInv'
  BY <1>6, CloseKeepsTabs
<1>7. CASE UNCHANGED tabVars
  <2>1. Tab!Listed' = Tab!Listed
    BY <1>7, TabSequences DEF tabVars
  <2>. QED  BY <1>7, <2>1 DEF tabVars, TabsInv, Tab!ActiveIsListed, Tab!NoLostTab
<1>. QED
  BY <1>8, <1>2, <1>3, <1>4, <1>5, <1>6, <1>7 DEF Tab!TabStep, Tab!Opening

LEMMA TabsInvHolds == SessionsSpec => []TabsInv
<1>1. SessionsInit => TabsInv
  <2>. SUFFICES ASSUME Tab!Init PROVE TabsInv
    BY DEF SessionsInit
  <2>1. /\ pages = <<Main>> /\ active = Main /\ live = {Main} /\ Main \in Tabs
        /\ DOMAIN tabStage = Tabs /\ tabStage[Main] = "listed"
    BY MainIsATab DEF Tab!Init
  <2>2. pages \in Seq(Tabs) /\ IsInjective(pages) /\ ToSet(pages) = {Main}
    BY <2>1 DEF IsInjective, ToSet
  <2>. QED  BY <2>1, <2>2, TabSequences DEF TabsInv, Tab!ActiveIsListed, Tab!NoLostTab
<1>2. TabsInv /\ [SessionsNext]_<<vars, dialogVars, tabVars>> => TabsInv'
  <2>1. [SessionsNext]_<<vars, dialogVars, tabVars>> => [Tab!TabStep]_tabVars
    BY DEF SessionsNext
  <2>. QED  BY <2>1, TabsStep
<1>. QED  BY <1>1, <1>2, PTL DEF SessionsSpec

\* For any number of tabs opened, loaded, switched to, closed and closing themselves at
\* once: the active tab is one that the session lists, while it has any, and no tab stays
\* open that no call can reach.
THEOREM TabsStayListed == SessionsSpec => []TabsAreListed
<1>1. TabsInv => TabsAreListed
  BY DEF TabsInv, TabsAreListed
<1>. QED  BY <1>1, TabsInvHolds, PTL

\* closePage is called only when no other call of it awaits its page.close().
ClosesOneByOne ==
  \A t \in Tabs : Tab!CloseBegins(t) => \A u \in Tabs : tabClosers[u] = 0

\* One close at most is under way, and it was let through while there were two tabs.
OneCloseInv ==
  /\ tabClosers \in [Tabs -> Nat]
  /\ \A t \in Tabs : tabClosers[t] > 0 =>
       tabClosers[t] = 1 /\ Len(pages) > 1 /\ \A u \in Tabs \ {t} : tabClosers[u] = 0
  /\ Tab!LastPageStays

LEMMA OneCloseStep ==
  ASSUME TabsInv, OneCloseInv, [Tab!TabStep]_tabVars, [ClosesOneByOne]_tabVars
  PROVE  OneCloseInv'
<1>0. pages \in Seq(Tabs) /\ Len(pages) \in Nat
  BY LenProperties DEF TabsInv
<1>1. ASSUME NEW t \in Tabs, Tab!CloseBegins(t) PROVE OneCloseInv'
  <2>1. /\ tabClosers' = [tabClosers EXCEPT ![t] = @ + 1] /\ pages' = pages
        /\ Len(pages) > 1
    BY <1>1 DEF Tab!CloseBegins
  <2>2. tabClosers' # tabClosers
    BY <2>1 DEF OneCloseInv
  <2>3. \A u \in Tabs : tabClosers[u] = 0
    BY <1>1, <2>2 DEF ClosesOneByOne, tabVars
  <2>. QED  BY <2>1, <2>3 DEF OneCloseInv, Tab!LastPageStays
<1>2. ASSUME NEW t \in Tabs, Tab!CloseReturns(t) PROVE OneCloseInv'
  <2>1. /\ tabClosers[t] > 0 /\ tabClosers' = [tabClosers EXCEPT ![t] = @ - 1]
        /\ pages' = RemoveFirst(pages, t)
    BY <1>2, TabSequences DEF Tab!CloseReturns
  <2>2. Len(pages) > 1 /\ \A u \in Tabs : tabClosers'[u] = 0
    BY <2>1 DEF OneCloseInv
  <2>3. pages' # <<>>
    <3>1. \A i \in {1, 2} : i \in DOMAIN pages /\ pages[i] \in ToSet(pages)
      BY <1>0, <2>2 DEF ToSet
    <3>2. pages[1] # pages[2]
      BY <3>1 DEF TabsInv, IsInjective
    <3>3. ToSet(pages') = ToSet(pages) \ {t}
      BY <2>1, FirstRemoved DEF TabsInv
    <3>4. ToSet(<<>>) = {}
      BY DEF ToSet
    <3>. QED  BY <3>1, <3>2, <3>3, <3>4
  <2>. QED  BY <2>1, <2>2, <2>3 DEF OneCloseInv, Tab!LastPageStays
<1>3. ASSUME UNCHANGED tabClosers, pages' = pages \/ \E t \in Tabs : pages' = Append(pages, t)
      PROVE  OneCloseInv'
  <2>1. Len(pages') >= Len(pages) /\ (pages # <<>> => pages' # <<>>)
    BY <1>0, <1>3
  <2>2. Len(pages') \in Nat
    BY <1>0, <1>3
  <2>. QED  BY <1>0, <1>3, <2>1, <2>2 DEF OneCloseInv, Tab!LastPageStays
<1>4. ASSUME NEW t \in Tabs, Tab!Opening(t) \/ Tab!SwitchPage(t) \/ Tab!ClosesItself(t)
      PROVE  UNCHANGED tabClosers /\ (pages' = pages \/ pages' = Append(pages, t))
  BY <1>4 DEF Tab!Opening, Tab!NewPage, Tab!Created, Tab!CreationFails, Tab!Loaded,
              Tab!LoadFails, Tab!Aborted, Tab!List, Tab!SwitchPage, Tab!ClosesItself
<1>5. CASE UNCHANGED tabVars
  BY <1>3, <1>5 DEF tabVars
<1>. QED  BY <1>1, <1>2, <1>3, <1>4, <1>5 DEF Tab!TabStep

\* A session keeps a page, as long as no close begins while another awaits page.close(),
\* and whatever the calls that open and switch do: the check at the head of closePage is
\* stale only after a second close has passed it.
THEOREM LastPageStaysUnlessClosesOverlap ==
  SessionsSpec /\ [][ClosesOneByOne]_tabVars => []Tab!LastPageStays
<1>1. SessionsInit => OneCloseInv
  BY DEF SessionsInit, Tab!Init, OneCloseInv, Tab!LastPageStays
<1>2. /\ TabsInv /\ OneCloseInv
      /\ [SessionsNext]_<<vars, dialogVars, tabVars>> /\ [ClosesOneByOne]_tabVars
      => OneCloseInv'
  <2>1. [SessionsNext]_<<vars, dialogVars, tabVars>> => [Tab!TabStep]_tabVars
    BY DEF SessionsNext
  <2>. QED  BY <2>1, OneCloseStep
<1>3. OneCloseInv => Tab!LastPageStays
  BY DEF OneCloseInv
<1>. QED  BY <1>1, <1>2, <1>3, TabsInvHolds, PTL DEF SessionsSpec

----------------------------------------------------------------------------
(* The dialogs of a session *)

\* Answers taken stay in order, before those queued, and all of them were armed.
AnswersInv ==
  /\ armed \in Nat
  /\ queue \in Seq(Int) /\ Increasing(queue)
  /\ answer \in Seq(Int)
  /\ \A i, j \in DOMAIN answer : i < j /\ answer[j] # Dialog!Auto => answer[i] < answer[j]
  /\ \A x \in ToSet(queue) : x > Dialog!Auto /\ x <= armed
  /\ \A x \in ToSet(answer) : x <= armed
  /\ Below(ToSet(answer), ToSet(queue))

\* The list of waiters holds each call that still waits, once.
WaitersInv ==
  /\ waiting \in Seq(Waiters) /\ IsInjective(waiting)
  /\ DOMAIN result = Waiters
  /\ Dialog!OnlyThoseWhoWait

LEMMA FiresKeepsOrder ==
  ASSUME AnswersInv, Dialog!Fires
  PROVE  AnswersInv'
<1>. DEFINE a == IF queue = <<>> THEN Dialog!Auto ELSE Head(queue)
            r == IF queue = <<>> THEN queue ELSE Tail(queue)
<1>1. answer' = Append(answer, a) /\ queue' = r /\ armed' = armed
  BY DEF Dialog!Fires
<1>2. /\ r \in Seq(Int) /\ Increasing(r) /\ ToSet(r) \subseteq ToSet(queue)
      /\ a \in Int /\ a <= armed
      /\ a # Dialog!Auto => Below(ToSet(answer), {a})
      /\ Below({a}, ToSet(r))
  <2>1. CASE queue = <<>>
    <3>1. ToSet(queue) = {}
      BY <2>1 DEF ToSet
    <3>. QED  BY <2>1, <3>1 DEF AnswersInv, Dialog!Auto, Below
  <2>2. CASE queue # <<>>
    <3>1. /\ Tail(queue) \in Seq(Int) /\ Head(queue) \in Int
          /\ ToSet(queue) = {Head(queue)} \cup ToSet(Tail(queue))
          /\ Increasing(Tail(queue)) /\ Below({Head(queue)}, ToSet(Tail(queue)))
      BY <2>2, TailIncreasing DEF AnswersInv
    <3>. QED  BY <2>2, <3>1 DEF AnswersInv, Below
  <2>. QED  BY <2>1, <2>2
<1>. HIDE DEF a, r
<1>3. /\ answer' \in Seq(Int) /\ ToSet(answer') = ToSet(answer) \cup {a}
      /\ DOMAIN answer' = 1 .. Len(answer) + 1 /\ DOMAIN answer = 1 .. Len(answer)
      /\ Len(answer) \in Nat /\ answer'[Len(answer) + 1] = a
      /\ \A i \in 1 .. Len(answer) : answer'[i] = answer[i]
  <2>1. a \in Int /\ answer \in Seq(Int) /\ answer' = Append(answer, a)
    BY <1>1, <1>2 DEF AnswersInv
  <2>2. answer' \in Seq(Int) /\ ToSet(answer') = ToSet(answer) \cup {a}
    BY <2>1, AppendIncreasing
  <2>3. /\ DOMAIN answer' = 1 .. Len(answer) + 1 /\ DOMAIN answer = 1 .. Len(answer)
        /\ Len(answer) \in Nat /\ answer'[Len(answer) + 1] = a
        /\ \A i \in 1 .. Len(answer) : answer'[i] = answer[i]
    BY <2>1
  <2>. QED  BY <2>2, <2>3
<1>4. ASSUME NEW i \in DOMAIN answer', NEW j \in DOMAIN answer', i < j,
             answer'[j] # Dialog!Auto
      PROVE  answer'[i] < answer'[j]
  <2>1. i \in 1 .. Len(answer) /\ answer'[i] = answer[i]
    BY <1>3, <1>4
  <2>2. CASE j \in 1 .. Len(answer)
    BY <1>3, <1>4, <2>1, <2>2 DEF AnswersInv
  <2>3. CASE j = Len(answer) + 1
    <3>1. answer[i] \in ToSet(answer)
      BY <1>3, <2>1 DEF ToSet
    <3>. QED  BY <1>2, <1>3, <1>4, <2>1, <2>3, <3>1 DEF Below
  <2>. QED  BY <1>3, <2>2, <2>3
<1>5. Below(ToSet(answer'), ToSet(queue'))
  BY <1>1, <1>2, <1>3 DEF AnswersInv, Below
<1>. QED  BY <1>1, <1>2, <1>3, <1>4, <1>5 DEF AnswersInv

LEMMA AnswersStep ==
  ASSUME AnswersInv, [Dialog!Next]_dialogVars
  PROVE  AnswersInv'
<1>1. ASSUME NEW q \in Seq(Int), Increasing(q), ToSet(q) \subseteq ToSet(queue) \cup {armed + 1},
             queue' = q, armed' = armed + 1, answer' = answer
      PROVE  AnswersInv'
  <2>1. \A x \in ToSet(q) : x \in Int /\ x > Dialog!Auto /\ x <= armed + 1
    <3>. SUFFICES ASSUME NEW x \in ToSet(q) PROVE x > Dialog!Auto /\ x <= armed + 1 /\ x \in Int
      OBVIOUS
    <3>1. x \in Int  BY DEF ToSet
    <3>2. CASE x \in ToSet(queue)  BY <3>1, <3>2 DEF AnswersInv
    <3>3. CASE x = armed + 1  BY <3>3 DEF AnswersInv, Dialog!Auto
    <3>. QED  BY <1>1, <3>1, <3>2, <3>3
  <2>2. \A x \in ToSet(answer) : x \in Int /\ x <= armed + 1
    <3>1. \A x \in ToSet(answer) : x \in Int /\ x <= armed
      BY DEF AnswersInv, ToSet
    <3>. QED  BY <3>1 DEF AnswersInv
  <2>3. Below(ToSet(answer), ToSet(q))
    <3>. SUFFICES ASSUME NEW x \in ToSet(answer), NEW y \in ToSet(q) PROVE x < y
      BY DEF Below
    <3>1. x \in Int  BY <2>2
    <3>2. CASE y \in ToSet(queue)  BY <3>2 DEF AnswersInv, Below
    <3>3. CASE y = armed + 1  BY <3>1, <3>3 DEF AnswersInv
    <3>. QED  BY <1>1, <3>2, <3>3
  <2>. QED  BY <1>1, <2>1, <2>2, <2>3 DEF AnswersInv
<1>2. CASE Dialog!ArmQueued
  <2>1. armed + 1 \in Int /\ Below(ToSet(queue), {armed + 1})
    <3>1. \A y \in ToSet(queue) : y \in Int /\ y <= armed
      BY DEF AnswersInv, ToSet
    <3>. QED  BY <3>1 DEF AnswersInv, Below
  <2>. DEFINE x == armed + 1
  <2>. HIDE DEF x
  <2>2. /\ Append(queue, x) \in Seq(Int) /\ ToSet(Append(queue, x)) = ToSet(queue) \cup {x}
        /\ Increasing(Append(queue, x))
    BY <2>1, AppendIncreasing DEF AnswersInv, x
  <2>3. queue' = Append(queue, x) /\ armed' = x /\ answer' = answer
    BY <1>2 DEF Dialog!ArmQueued, x
  <2>. QED  BY <1>1, <2>2, <2>3 DEF x
<1>3. CASE Dialog!ArmOnly
  <2>1. armed + 1 \in Int
    BY DEF AnswersInv
  <2>. DEFINE x == armed + 1
              q == <<x>>
  <2>. HIDE DEF x
  <2>2. q \in Seq(Int) /\ ToSet(q) = {x} /\ Increasing(q)
    BY <2>1 DEF ToSet, Increasing, x
  <2>3. queue' = q /\ armed' = x /\ answer' = answer
    BY <1>3 DEF Dialog!ArmOnly, x
  <2>. QED  BY <1>1, <2>2, <2>3 DEF x
<1>4. CASE Dialog!Fires
  BY <1>4, FiresKeepsOrder
<1>5. CASE UNCHANGED <<armed, queue, answer>>
  BY <1>5 DEF AnswersInv
<1>6. ASSUME \/ Dialog!ClearLog \/ \E d \in 1 .. MaxDialogs : Dialog!Handled(d)
             \/ \E w \in Waiters : Dialog!Wait(w) \/ Dialog!TimesOut(w)
             \/ UNCHANGED dialogVars
      PROVE  UNCHANGED <<armed, queue, answer>>
  BY <1>6 DEF Dialog!ClearLog, Dialog!Handled, Dialog!Wait, Dialog!TimesOut, dialogVars
<1>. QED  BY <1>2, <1>3, <1>4, <1>5, <1>6 DEF Dialog!Next

LEMMA WaitersStep ==
  ASSUME WaitersInv, [Dialog!Next]_dialogVars
  PROVE  WaitersInv'
<1>1. \A q : Range(q) = ToSet(q)
  BY DEF Range, ToSet
<1>2. CASE UNCHANGED <<waiting, result>>
  BY <1>2, DialogSequences DEF WaitersInv, Dialog!OnlyThoseWhoWait
<1>3. ASSUME Dialog!ArmQueued \/ Dialog!ArmOnly \/ Dialog!Fires \/ Dialog!ClearLog
             \/ UNCHANGED dialogVars
      PROVE  UNCHANGED <<waiting, result>>
  BY <1>3 DEF Dialog!ArmQueued, Dialog!ArmOnly, Dialog!Fires, Dialog!ClearLog, dialogVars
<1>4. ASSUME NEW d \in 1 .. MaxDialogs, Dialog!Handled(d), waiting # <<>>
      PROVE  WaitersInv'
  <2>. DEFINE h == Head(waiting)
              x == Dialog!Told(result[h].since, d)
  <2>1. waiting' = Tail(waiting) /\ result' = [result EXCEPT ![h] = x]
    BY <1>4 DEF Dialog!Handled
  <2>2. /\ waiting' \in Seq(Waiters) /\ IsInjective(waiting')
        /\ h \in Waiters /\ ToSet(waiting') = ToSet(waiting) \ {h}
    BY <1>1, <1>4, <2>1, OldestKeyRemoved DEF WaitersInv
  <2>3. x.kind = "told"
    BY DEF Dialog!Told
  <2>. HIDE DEF h, x
  <2>4. Dialog!OnlyThoseWhoWait'
    BY <2>1, <2>2, <2>3, DialogSequences DEF WaitersInv, Dialog!OnlyThoseWhoWait
  <2>. QED  BY <2>1, <2>2, <2>4 DEF WaitersInv
<1>5. ASSUME NEW w \in Waiters, Dialog!Wait(w) PROVE WaitersInv'
  <2>. DEFINE x == Dialog!Since(Len(answer))
  <2>1. waiting' = Append(waiting, w) /\ result' = [result EXCEPT ![w] = x]
    BY <1>5 DEF Dialog!Wait, Dialog!Fired
  <2>2. w \notin ToSet(waiting)
    BY <1>5, DialogSequences DEF Dialog!Wait, Dialog!NotCalled, WaitersInv, Dialog!OnlyThoseWhoWait
  <2>3. /\ waiting' \in Seq(Waiters) /\ IsInjective(waiting')
        /\ ToSet(waiting') = ToSet(waiting) \cup {w}
    BY <1>1, <2>1, <2>2, KeyAdded DEF WaitersInv
  <2>4. x.kind = "waiting"
    BY DEF Dialog!Since
  <2>. HIDE DEF x
  <2>5. Dialog!OnlyThoseWhoWait'
    BY <2>1, <2>3, <2>4, DialogSequences DEF WaitersInv, Dialog!OnlyThoseWhoWait
  <2>. QED  BY <2>1, <2>3, <2>5 DEF WaitersInv
<1>6. ASSUME NEW w \in Waiters, Dialog!TimesOut(w) PROVE WaitersInv'
  <2>. DEFINE x == Dialog!TimedOut(result[w].since)
  <2>1. waiting' = RemoveFirst(waiting, w) /\ result' = [result EXCEPT ![w] = x]
    BY <1>6, DialogSequences DEF Dialog!TimesOut
  <2>2. /\ waiting' \in Seq(Waiters) /\ IsInjective(waiting')
        /\ ToSet(waiting') = ToSet(waiting) \ {w}
    BY <2>1, FirstRemoved DEF WaitersInv
  <2>3. x.kind = "timed_out"
    BY DEF Dialog!TimedOut
  <2>. HIDE DEF x
  <2>4. Dialog!OnlyThoseWhoWait'
    BY <2>1, <2>2, <2>3, DialogSequences DEF WaitersInv, Dialog!OnlyThoseWhoWait
  <2>. QED  BY <2>1, <2>2, <2>4 DEF WaitersInv
<1>7. ASSUME NEW d \in 1 .. MaxDialogs, Dialog!Handled(d), waiting = <<>>
      PROVE  UNCHANGED <<waiting, result>>
  BY <1>7 DEF Dialog!Handled
<1>. QED  BY <1>2, <1>3, <1>4, <1>5, <1>6, <1>7 DEF Dialog!Next

\* For any number of answers, dialogs and waiting calls: the dialogs take the answers in the
\* order they were armed, each of them once, and a dialog wakes the call that has waited
\* longest of those that still do.
THEOREM AnswersStayInOrder == SessionsSpec => []AnswersServeInOrder
<1>1. SessionsInit => AnswersInv /\ WaitersInv
  <2>. SUFFICES ASSUME Dialog!Init PROVE AnswersInv /\ WaitersInv
    BY DEF SessionsInit
  <2>. DEFINE none == <<>>
  <2>1. /\ armed = 0 /\ queue = none /\ answer = none /\ waiting = none
        /\ DOMAIN result = Waiters /\ \A w \in Waiters : result[w].kind = "idle"
    BY DEF Dialog!Init, Dialog!NotCalled
  <2>2. /\ \A S : none \in Seq(S)
        /\ IsInjective(none) /\ ToSet(none) = {} /\ Increasing(none) /\ DOMAIN none = {}
    BY DEF IsInjective, ToSet, Increasing
  <2>. HIDE DEF none
  <2>3. AnswersInv
    BY <2>1, <2>2 DEF AnswersInv, Below
  <2>4. WaitersInv
    BY <2>1, <2>2, DialogSequences DEF WaitersInv, Dialog!OnlyThoseWhoWait
  <2>. QED  BY <2>3, <2>4
<1>2. AnswersInv /\ WaitersInv /\ [SessionsNext]_<<vars, dialogVars, tabVars>>
        => AnswersInv' /\ WaitersInv'
  <2>1. [SessionsNext]_<<vars, dialogVars, tabVars>> => [Dialog!Next]_dialogVars
    BY DEF SessionsNext
  <2>. QED  BY <2>1, AnswersStep, WaitersStep
<1>3. AnswersInv /\ WaitersInv => AnswersServeInOrder
  <2>. SUFFICES ASSUME AnswersInv, NEW i \in DOMAIN (answer \o queue),
                       NEW j \in DOMAIN (answer \o queue), i < j,
                       (answer \o queue)[j] # Dialog!Auto
                PROVE  (answer \o queue)[i] < (answer \o queue)[j]
    BY DEF AnswersServeInOrder, WaitersInv, Dialog!AnswersServeInOrder
  <2>. DEFINE g == answer \o queue
              n == Len(answer)
  <2>1. /\ n \in Nat /\ DOMAIN answer = 1 .. n /\ DOMAIN queue = 1 .. Len(queue)
        /\ Len(queue) \in Nat /\ DOMAIN g = 1 .. n + Len(queue)
        /\ \A k \in DOMAIN g : g[k] = IF k <= n THEN answer[k] ELSE queue[k - n]
    BY ConcatProperties, LenProperties DEF AnswersInv
  <2>. HIDE DEF g, n
  <2>2. i \in 1 .. n + Len(queue) /\ j \in 1 .. n + Len(queue) /\ g[j] # Dialog!Auto
    BY <2>1 DEF g
  <2>3. CASE j <= n
    <3>1. i \in DOMAIN answer /\ j \in DOMAIN answer /\ g[i] = answer[i] /\ g[j] = answer[j]
      BY <2>1, <2>2, <2>3
    <3>. QED  BY <2>2, <3>1 DEF AnswersInv, g
  <2>4. CASE i <= n /\ j > n
    <3>1. i \in DOMAIN answer /\ j - n \in DOMAIN queue /\ g[i] = answer[i] /\ g[j] = queue[j - n]
      BY <2>1, <2>2, <2>4
    <3>2. answer[i] \in ToSet(answer) /\ queue[j - n] \in ToSet(queue)
      BY <3>1 DEF ToSet
    <3>. QED  BY <3>1, <3>2 DEF AnswersInv, Below, g
  <2>5. CASE i > n
    <3>. DEFINE a == i - n
                b == j - n
    <3>1. a \in DOMAIN queue /\ b \in DOMAIN queue /\ a < b
      BY <2>1, <2>2, <2>5
    <3>2. g[i] = queue[a] /\ g[j] = queue[b]
      BY <2>1, <2>2, <2>5
    <3>. HIDE DEF a, b
    <3>. QED  BY <3>1, <3>2 DEF AnswersInv, Increasing, g
  <2>. QED  BY <2>1, <2>2, <2>3, <2>4, <2>5
<1>. QED  BY <1>1, <1>2, <1>3, PTL DEF SessionsSpec
=============================================================================
