---------------------------- MODULE BrowserTabs ----------------------------
(***************************************************************************)
(* The tabs of one browser session (lib/browserLaunch.js): browser_new_page,*)
(* browser_switch_page and browser_close_page calls that overlap.  A       *)
(* browser_new_page call and the tab it opens share one name.  entry.page  *)
(* always is the tab of entry.activePageId, so one variable stands for both.*)
(***************************************************************************)
EXTENDS Naturals, Sequences, SequencesExt

CONSTANTS
  Tabs,        \* the tabs a session may open
  Main,        \* the one it is launched with
  MaxClosers   \* bound: browser_close_page calls in flight for one tab

ASSUME TabsAssumption == Main \in Tabs /\ MaxClosers \in Nat

VARIABLES
  pages,       \* the keys of entry.pages, in insertion order
  active,      \* entry.activePageId
  stage,       \* how far the browser_new_page call of each tab has come
  live,        \* the tabs that exist in Chromium
  closers      \* browser_close_page calls awaiting page.close(), per tab

tabVars == <<pages, active, stage, live, closers>>

Stages == {"idle", "creating", "loading", "aborting", "failed", "listed"}

Listed == ToSet(pages)
Without(t) == RemoveFirst(pages, t)

Init ==
  /\ pages = <<Main>>
  /\ active = Main
  /\ stage = [t \in Tabs |-> IF t = Main THEN "listed" ELSE "idle"]
  /\ live = {Main}
  /\ closers = [t \in Tabs |-> 0]

----------------------------------------------------------------------------

NewPage(t) ==
  /\ stage[t] = "idle"
  /\ stage' = [stage EXCEPT ![t] = "creating"]
  /\ UNCHANGED <<pages, active, live, closers>>

\* The tab goes into the Map and becomes the active one, whatever tab the
\* session has moved to meanwhile.
List(t) ==
  /\ stage' = [stage EXCEPT ![t] = "listed"]
  /\ pages' = Append(pages, t)
  /\ active' = t

\* context.newPage() settles; with a url the tab has to load first.
Created(t) ==
  /\ stage[t] = "creating"
  /\ live' = live \cup {t}
  /\ UNCHANGED closers
  /\ \/ List(t)
     \/ /\ stage' = [stage EXCEPT ![t] = "loading"]
        /\ UNCHANGED <<pages, active>>

CreationFails(t) ==
  /\ stage[t] = "creating"
  /\ stage' = [stage EXCEPT ![t] = "failed"]
  /\ UNCHANGED <<pages, active, live, closers>>

Loaded(t) ==
  /\ stage[t] = "loading"
  /\ t \in live
  /\ List(t)
  /\ UNCHANGED <<live, closers>>

\* Mutant: a tab that did not load is left open.
LoadFailsOutright(t) ==
  /\ stage[t] = "loading"
  /\ stage' = [stage EXCEPT ![t] = "failed"]
  /\ UNCHANGED <<pages, active, live, closers>>

LoadFails(t) ==
  /\ stage[t] = "loading"
  /\ stage' = [stage EXCEPT ![t] = "aborting"]
  /\ UNCHANGED <<pages, active, live, closers>>

Aborted(t) ==
  /\ stage[t] = "aborting"
  /\ live' = live \ {t}
  /\ stage' = [stage EXCEPT ![t] = "failed"]
  /\ UNCHANGED <<pages, active, closers>>

SwitchPage(t) ==
  /\ t \in Listed
  /\ active' = t
  /\ UNCHANGED <<pages, stage, live, closers>>

\* closePage up to its await: the last page is refused, by the Map of now.
CloseBegins(t) ==
  /\ t \in Listed
  /\ Len(pages) > 1
  /\ closers[t] < MaxClosers
  /\ closers' = [closers EXCEPT ![t] = @ + 1]
  /\ UNCHANGED <<pages, active, stage, live>>

\* Mutant: the active tab is looked at before the await.
CloseReturnsKeeping(t) ==
  /\ closers[t] > 0
  /\ closers' = [closers EXCEPT ![t] = @ - 1]
  /\ live' = live \ {t}
  /\ pages' = Without(t)
  /\ UNCHANGED <<active, stage>>

\* The rest of closePage.  Without a page left, taking the first one throws and
\* the session keeps the closed tab as its active one.
CloseReturns(t) ==
  /\ closers[t] > 0
  /\ closers' = [closers EXCEPT ![t] = @ - 1]
  /\ live' = live \ {t}
  /\ pages' = Without(t)
  /\ active' = IF active = t /\ pages' # <<>> THEN Head(pages') ELSE active
  /\ UNCHANGED stage

\* The page closes its own window; nothing listens for it.
ClosesItself(t) ==
  /\ t \in live
  /\ live' = live \ {t}
  /\ UNCHANGED <<pages, active, stage, closers>>

Opening(t) ==
  \/ NewPage(t) \/ Created(t) \/ CreationFails(t)
  \/ Loaded(t) \/ LoadFails(t) \/ Aborted(t)

TabStep ==
  \E t \in Tabs : \/ Opening(t) \/ SwitchPage(t)
                  \/ CloseBegins(t) \/ CloseReturns(t) \/ ClosesItself(t)

Spec == Init /\ [][TabStep]_tabVars

----------------------------------------------------------------------------
(* Properties *)

\* A tab is in the Map at most once, and only after its call has listed it.
TypeOK ==
  /\ pages \in Seq(Tabs) /\ IsInjective(pages)
  /\ active \in Tabs
  /\ stage \in [Tabs -> Stages]
  /\ live \subseteq Tabs
  /\ closers \in [Tabs -> 0 .. MaxClosers]
  /\ \A t \in Listed : stage[t] = "listed"

\* As long as the session has a tab, its tools act on one of those it lists:
\* never on a tab that some overlapping call has removed.
ActiveIsListed == pages # <<>> => active \in Listed

\* Every open tab can be reached: it is listed, or its call is still at work.
NoLostTab == \A t \in live : t \in Listed \/ stage[t] \in {"loading", "aborting"}

\* "Cannot close the last remaining page": the session keeps one.
LastPageStays == pages # <<>>
=============================================================================
