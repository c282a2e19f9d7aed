----------------------------- MODULE ActionLog -----------------------------
(***************************************************************************)
(* The action log of a browser session: recording in lib/browserLaunch.js  *)
(* and executeTool, replay in lib/dispatchBrowser.js.  A replay of the     *)
(* session's own log runs over the very array that recordAction pushes to  *)
(* and shifts, and awaits every action; calls made meanwhile are recorded. *)
(*                                                                         *)
(* Actions are numbered as they are recorded.  A replay over an array the  *)
(* caller passes shares nothing with the log and is left out.              *)
(***************************************************************************)
EXTENDS Naturals, Sequences, SequencesExt

CONSTANTS
  Replays,            \* browser_replay_actions calls
  MAX_ACTION_LOG,
  Files,              \* the numbers of the actions whose tool writes a file
  MaxActions,         \* bound: actions recorded
  MaxArrays           \* bound: arrays that entry.actionLog has been

ActionLogAssumption ==
  /\ MAX_ACTION_LOG \in Nat \ {0} /\ MaxArrays \in Nat \ {0}
  /\ MaxActions \in Nat /\ Files \subseteq Nat

VARIABLES
  recording,   \* entry.recording
  recorded,    \* number of the last action recorded
  arrays,      \* the arrays entry.actionLog has been; it is the last of them
  replay       \* the state of each replay

vars == <<recording, recorded, arrays, replay>>

Current == Len(arrays)
actionLog == arrays[Current]

\* A replay: its array, as it was at the start and by its place in arrays, its index
\* from 1, and results.
NotCalled == [at |-> "idle"]
Started(stop, files) ==
  [at |-> "loop", array |-> Current, before |-> actionLog, i |-> 1, results |-> <<>>,
   stopOnError |-> stop, includeSideEffects |-> files]
Actions(r) == arrays[replay[r].array]
Action(r) == Actions(r)[replay[r].i]
Result(a, status) == [action |-> a, status |-> status]
Is(r, where) == replay[r].at = where

\* A replay runs from one await to the next without anything else coming between.
Quiet == \A r \in Replays : ~Is(r, "loop")

Init ==
  /\ recording = FALSE
  /\ recorded = 0
  /\ arrays = << <<>> >>
  /\ replay = [r \in Replays |-> NotCalled]

----------------------------------------------------------------------------
(* Recording *)

Fresh == Append(arrays, <<>>)

StartRecording(clear) ==
  /\ Quiet /\ (clear => Current < MaxArrays)
  /\ recording' = TRUE
  /\ arrays' = IF clear THEN Fresh ELSE arrays
  /\ UNCHANGED <<recorded, replay>>

StopRecording ==
  /\ Quiet /\ recording
  /\ recording' = FALSE
  /\ UNCHANGED <<recorded, arrays, replay>>

\* Mutant: the array is emptied, not replaced.
ClearInPlace ==
  /\ Quiet /\ Current < MaxArrays
  /\ arrays' = [arrays EXCEPT ![Current] = <<>>]
  /\ UNCHANGED <<recording, recorded, replay>>

ClearRecording ==
  /\ Quiet /\ Current < MaxArrays
  /\ arrays' = Fresh
  /\ UNCHANGED <<recording, recorded, replay>>

\* Mutant: the cap is checked before the push.
RecordPastCap ==
  /\ Quiet /\ recording /\ recorded < MaxActions
  /\ recorded' = recorded + 1
  /\ arrays' = [arrays EXCEPT ![Current] =
                  Append(IF Len(@) > MAX_ACTION_LOG THEN Tail(@) ELSE @, recorded')]
  /\ UNCHANGED <<recording, replay>>

\* Any other browser_* call of the session, before it runs: push, then shift.
Record ==
  /\ Quiet /\ recording /\ recorded < MaxActions
  /\ recorded' = recorded + 1
  /\ arrays' = [arrays EXCEPT ![Current] =
                  LET pushed == Append(@, recorded')
                  IN  IF Len(pushed) > MAX_ACTION_LOG THEN Tail(pushed) ELSE pushed]
  /\ UNCHANGED <<recording, replay>>

----------------------------------------------------------------------------
(* Replay                                                                  *)

Start(r) ==
  /\ Quiet /\ Is(r, "idle")
  /\ actionLog # <<>>
  /\ \E stop, files \in BOOLEAN :
       replay' = [replay EXCEPT ![r] = Started(stop, files)]
  /\ UNCHANGED <<recording, recorded, arrays>>

InLoop(r) == Is(r, "loop") /\ replay[r].i <= Len(Actions(r))
SkipsFile(r) == Action(r) \in Files /\ ~replay[r].includeSideEffects

Skips(r) ==
  /\ InLoop(r) /\ SkipsFile(r)
  /\ replay' = [replay EXCEPT ![r].results = Append(@, Result(Action(r), "skipped")),
                              ![r].i = @ + 1]
  /\ UNCHANGED <<recording, recorded, arrays>>

\* The handler is called; its action is known from here on.
Plays(r) ==
  /\ InLoop(r) /\ ~SkipsFile(r)
  /\ replay' = [replay EXCEPT ![r].at = "awaiting",
                              ![r].results = Append(@, Result(Action(r), "pending"))]
  /\ UNCHANGED <<recording, recorded, arrays>>

Settled(r, status) == [replay[r].results EXCEPT ![Len(replay[r].results)].status = status]

Succeeds(r) ==
  /\ Quiet /\ Is(r, "awaiting")
  /\ replay' = [replay EXCEPT ![r].at = "loop", ![r].i = @ + 1,
                              ![r].results = Settled(r, "ok")]
  /\ UNCHANGED <<recording, recorded, arrays>>

\* Mutant: a failed action that does not stop the replay is tried again.
FailsAgain(r) ==
  /\ Quiet /\ Is(r, "awaiting")
  /\ replay' = [replay EXCEPT ![r].at = IF replay[r].stopOnError THEN "stopped" ELSE "loop",
                              ![r].results = Settled(r, "error")]
  /\ UNCHANGED <<recording, recorded, arrays>>

Fails(r) ==
  /\ Quiet /\ Is(r, "awaiting")
  /\ replay' = [replay EXCEPT ![r].results = Settled(r, "error"),
                              ![r].at = IF replay[r].stopOnError THEN "stopped" ELSE "loop",
                              ![r].i = IF replay[r].stopOnError THEN @ ELSE @ + 1]
  /\ UNCHANGED <<recording, recorded, arrays>>

Return(r) ==
  /\ Is(r, "loop") /\ replay[r].i > Len(Actions(r))
  /\ replay' = [replay EXCEPT ![r].at = "done"]
  /\ UNCHANGED <<recording, recorded, arrays>>

Next ==
  \/ \E clear \in BOOLEAN : StartRecording(clear)
  \/ StopRecording \/ ClearRecording \/ Record
  \/ \E r \in Replays :
       \/ Start(r) \/ Skips(r) \/ Plays(r) \/ Succeeds(r) \/ Fails(r) \/ Return(r)

Spec == Init /\ [][Next]_vars

----------------------------------------------------------------------------
(* Properties *)

Called(r) == ~Is(r, "idle")
Played(r) == [k \in DOMAIN replay[r].results |-> replay[r].results[k].action]

TypeOK ==
  /\ recording \in BOOLEAN
  /\ recorded \in 0 .. MaxActions
  /\ Len(arrays) \in 1 .. MaxArrays
  /\ \A k \in DOMAIN arrays :
       arrays[k] \in Seq(1 .. recorded) /\ Len(arrays[k]) <= MAX_ACTION_LOG
  /\ \A r \in Replays : Called(r) =>
       /\ replay[r].at \in {"loop", "awaiting", "stopped", "done"}
       /\ replay[r].array \in DOMAIN arrays
       /\ Len(replay[r].results) =
            IF replay[r].at \in {"awaiting", "stopped"} THEN replay[r].i ELSE replay[r].i - 1

\* However the log grows, shifts or is replaced under it, a replay plays in the order of
\* recording and no action twice.
NoneTwice ==
  \A r \in Replays : Called(r) =>
    \A j, k \in DOMAIN Played(r) : j < k => Played(r)[j] < Played(r)[k]

\* A replay that got to its end has gone through everything that was in the log when it
\* was called, unless the log was full by then and shifted: clearing and restarting the
\* recording take nothing from it.
PlaysWhatWasThere ==
  \A r \in Replays :
    Is(r, "done") => \/ IsPrefix(replay[r].before, Played(r))
                     \/ /\ Actions(r) # <<>>
                        /\ Head(Actions(r)) > Head(replay[r].before)

\* "Replay a sequence of previously-recorded ... tool calls against a session, in order":
\* what was recorded when the replay was called, no less and no more.
PlaysExactlyTheRecording ==
  \A r \in Replays : Is(r, "done") => Played(r) = replay[r].before
=============================================================================
