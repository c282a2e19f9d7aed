------------------------- MODULE MCBrowserSessions -------------------------
(***************************************************************************)
(* Browser sessions for TLC: the launches and closes of BrowserPool, the   *)
(* tabs of one session (BrowserTabs) and its dialogs (Dialogs).  They share*)
(* no variable: behaviours in which only one of them moves are all that any*)
(* of them needs.                                                          *)
(***************************************************************************)
EXTENDS BrowserPool, Sequences

CONSTANTS
  Waiters, MAX_DIALOG_QUEUE, MAX_DIALOG_LOG, MaxAnswers, MaxDialogs,
  Tabs, Main

VARIABLES
  armed, queue, answer, handled, log, waiting, result,
  pages, active, tabStage, live, tabClosers

dialogVars == <<armed, queue, answer, handled, log, waiting, result>>
tabVars == <<pages, active, tabStage, live, tabClosers>>

Dialog == INSTANCE Dialogs
Tab == INSTANCE BrowserTabs WITH stage <- tabStage, closers <- tabClosers

ASSUME Dialog!DialogsAssumption
ASSUME MainIsATab == Main \in Tabs

SessionsInit == Init /\ Dialog!Init /\ Tab!Init

SessionsNext ==
  \/ Dialog!Init /\ Tab!Init /\ Next /\ UNCHANGED <<dialogVars, tabVars>>
  \/ Init /\ Tab!Init /\ Dialog!Next /\ UNCHANGED <<vars, tabVars>>
  \/ Init /\ Dialog!Init /\ Tab!TabStep /\ UNCHANGED <<vars, dialogVars>>

\* In its initial state no part has a fair action to take.
SessionsSpec ==
  /\ SessionsInit /\ [][SessionsNext]_<<vars, dialogVars, tabVars>>
  /\ \A c \in Calls : WF_vars(Settles(c)) /\ WF_vars(CloseReturns(c))
  /\ \A w \in Waiters : WF_dialogVars(Dialog!TimesOut(w))

\* While the session has a tab, its tools act on one of those it lists, and every open tab
\* is listed, or its browser_new_page call is still at work.
TabsAreListed == Tab!ActiveIsListed /\ Tab!NoLostTab

\* Dialogs take the armed answers in the order they were armed, each of them once, and
\* dialogWaiters holds the calls that still wait, and no one else.
AnswersServeInOrder == Dialog!AnswersServeInOrder /\ Dialog!OnlyThoseWhoWait

\* Every launch, every close and every browser_wait_for_dialog call returns.
CallsEnd == LaunchSettles /\ CloseSettles /\ Dialog!WaitsEnd
=============================================================================
