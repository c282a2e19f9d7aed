---------------------------- MODULE MCProcesses ----------------------------
(***************************************************************************)
(* lib/processOps.js for TLC: the background processes of ProcessTable and *)
(* a run_command call (RunCommand), interleaved by one event loop.         *)
(***************************************************************************)
EXTENDS ProcessTable

CONSTANTS Kids, MAX_BUFFER, MaxOutput

VARIABLES
  shell, kid, output, delivered, kept, truncated, timer, timedOut, result

runVars == <<shell, kid, output, delivered, kept, truncated, timer, timedOut,
             result>>

Run == INSTANCE RunCommand WITH written <- output, MaxChunks <- MaxOutput

ASSUME RunBounds == Run!RunAssumption

ProcessesInit == Init /\ Run!Init

ProcessesNext ==
  \/ Next /\ UNCHANGED runVars
  \/ Run!Next /\ UNCHANGED vars

ProcessesSpec ==
  /\ ProcessesInit /\ [][ProcessesNext]_<<vars, runVars>>
  /\ \A p \in Procs : WF_vars(Data(p)) /\ WF_vars(Exit(p))
  /\ WF_runVars(Run!Data) /\ WF_runVars(Run!TimerFires)
  /\ WF_runVars(Run!SpawnError) /\ WF_runVars(Run!Close)
  /\ WF_runVars(Run!ShellEnds) /\ \A k \in Kids : WF_runVars(Run!LetsGo(k))

\* What polls return is in order, and only the cap of the buffer and a tail read that
\* clears drop any.
OutputIsKept == PolledInOrder /\ NothingElseLost

\* A run_command answer holds all that was written, or is full and marked truncated, the
\* mark of a stderr after a timeout excepted.
NoOutputMissed == Run!NoOutputMissed

\* The answer of run_command comes last: no output, no signal and no other answer follow.
AnswerIsFinal == Run!AnswerIsFinal

\* A background process that exits is seen to have, and a command that ends is answered,
\* whenever its deadline strikes.
EndsAreSeen == ExitIsReported /\ Run!EndsAnswered
=============================================================================
