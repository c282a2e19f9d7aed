-------------------------- MODULE MCBrowserPages ---------------------------
(***************************************************************************)
(* One browser session for TLC: its tabs with what capture and interception*)
(* leave on them (BrowserHooks), and its action log (ActionLog).  They     *)
(* share no variable: behaviours in which only one of them moves are all   *)
(* that either needs.                                                      *)
(***************************************************************************)
EXTENDS BrowserHooks, TLC

CONSTANTS Replays, MAX_ACTION_LOG, Files, MaxActions, MaxArrays

VARIABLES recording, recorded, arrays, replay

logVars == <<recording, recorded, arrays, replay>>

Log == INSTANCE ActionLog

ASSUME LogBounds == Log!ActionLogAssumption

Symmetry == Permutations(Calls) \cup Permutations(Patterns)

PagesInit == HooksInit /\ Log!Init

PagesNext ==
  \/ Log!Init /\ HooksNext /\ UNCHANGED logVars
  \/ HooksInit /\ Log!Next /\ UNCHANGED vars

PagesSpec == PagesInit /\ [][PagesNext]_<<vars, logVars>>

\* A replay that ends has gone through all that was in the log when it was called, unless
\* the full log shifted under it.
PlaysWhatWasThere == Log!PlaysWhatWasThere
=============================================================================
