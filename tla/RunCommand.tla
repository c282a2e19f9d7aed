----------------------------- MODULE RunCommand -----------------------------
(***************************************************************************)
(* One run_command call (runCommand in lib/processOps.js, on POSIX): the   *)
(* shell it spawns, the processes the command starts, with the output pipes*)
(* or apart from them, the timer, and the events of the child that settle  *)
(* the promise.  One output stream is followed, in chunks; stdout and      *)
(* stderr differ in how the answer marks it.                               *)
(*                                                                         *)
(* The processes and Node's child_process are external: "close" comes when *)
(* the shell is gone, nobody holds the pipes and their data has been       *)
(* delivered.                                                              *)
(***************************************************************************)
EXTENDS Integers, FiniteSets

CONSTANTS
  Kids,         \* processes the command may start
  MAX_BUFFER,   \* chunks of output kept
  MaxChunks     \* bound: chunks the command writes

RunAssumption == MAX_BUFFER \in Nat \ {0} /\ MaxChunks \in Nat

VARIABLES
  shell,        \* the spawned shell: its state, then its exit code
  kid,          \* each kid: not started, holding the pipes, apart from them
                \* (and followed no further), or ended
  written,      \* chunks written to the pipe
  delivered,    \* chunks that reached the "data" listener
  kept,         \* chunks in the variable of the stream
  truncated,    \* stdoutTruncated, stderrTruncated
  timer,        \* armed, fired, or cleared by finish
  timedOut,
  result        \* what the promise resolved with

vars == <<shell, kid, written, delivered, kept, truncated, timer, timedOut,
          result>>

Pending == [exitCode |-> -1]
Ends == {"exit_0", "exit_1", "killed"}
Gone == shell \in Ends

\* Who may still write: a process apart has its output redirected, or has closed the pipes.
Holders == {k \in Kids : kid[k] = "holds"}

\* finish(code ?? 0): Node reports a null code for a shell that a signal killed.
Code == IF timedOut THEN 124 ELSE IF shell = "exit_1" THEN 1 ELSE 0

Settled == result # Pending

\* Mutant: stdout is passed as it is after a timeout, too.
MarksInTime == [stdout |-> truncated /\ ~timedOut, stderr |-> truncated /\ ~timedOut]

\* How the answer marks the stream: after a timeout stderr is passed as it is, without.
Marks == [stdout |-> truncated, stderr |-> truncated /\ ~timedOut]

\* A stderr that is empty at a timeout, or at a spawn error, gives way to a message.
Finish(code) == result' = [exitCode |-> code, text |-> kept, marks |-> Marks]

Init ==
  /\ shell \in {"running", "no_spawn"}
  /\ kid = [k \in Kids |-> "none"]
  /\ written = 0 /\ delivered = 0 /\ kept = 0
  /\ truncated = FALSE
  /\ timer = "armed"
  /\ timedOut = FALSE
  /\ result = Pending

----------------------------------------------------------------------------
(* The command *)

\* A process of the command starts another, which inherits the pipes if it holds them,
\* unless its output is redirected.
StartsKid(k) ==
  /\ kid[k] = "none"
  /\ \E state \in {"holds", "apart"} :
       /\ \/ shell = "running"
          \/ \E j \in Kids : kid[j] \in {"holds", state}
       /\ kid' = [kid EXCEPT ![k] = state]
  /\ UNCHANGED <<shell, written, delivered, kept, truncated, timer, timedOut, result>>

Writes ==
  /\ shell = "running" \/ Holders # {}
  /\ written < MaxChunks
  /\ written' = written + 1
  /\ UNCHANGED <<shell, kid, delivered, kept, truncated, timer, timedOut, result>>

\* One of those that hold the pipes ends, or closes them and goes on.
LetsGo(k) ==
  /\ kid[k] = "holds"
  /\ kid' \in {[kid EXCEPT ![k] = state] : state \in {"apart", "ended"}}
  /\ UNCHANGED <<shell, written, delivered, kept, truncated, timer, timedOut, result>>

ShellEnds ==
  /\ shell = "running"
  /\ shell' \in Ends
  /\ UNCHANGED <<kid, written, delivered, kept, truncated, timer, timedOut, result>>

----------------------------------------------------------------------------
(* The call *)

\* Mutant: the chunk that would pass the cap is dropped silently.
DataUnmarked ==
  /\ delivered < written
  /\ delivered' = delivered + 1
  /\ kept' = IF kept < MAX_BUFFER THEN kept + 1 ELSE kept
  /\ UNCHANGED <<truncated, shell, kid, written, timer, timedOut, result>>

Data ==
  /\ delivered < written
  /\ delivered' = delivered + 1
  /\ IF kept < MAX_BUFFER
     THEN kept' = kept + 1 /\ UNCHANGED truncated
     ELSE truncated' = TRUE /\ UNCHANGED kept
  /\ UNCHANGED <<shell, kid, written, timer, timedOut, result>>

\* The deadline: one SIGTERM to the shell, which dies of it, handles it and goes
\* on, or is gone already.  The kids get none.
TimerFires ==
  /\ timer = "armed" /\ ~Settled
  /\ timer' = "fired"
  /\ timedOut' = TRUE
  /\ shell' \in IF shell = "running" THEN {"running", "exit_1", "killed"} ELSE {shell}
  /\ UNCHANGED <<kid, written, delivered, kept, truncated, result>>

ClearTimer == timer' = IF timer = "armed" THEN "cleared" ELSE timer

\* "error": the shell could not be spawned.
SpawnError ==
  /\ shell = "no_spawn"
  /\ ~Settled
  /\ Finish(1)
  /\ ClearTimer
  /\ UNCHANGED <<shell, kid, written, delivered, kept, truncated, timedOut>>

\* Mutant: the promise is settled by "exit", not by "close".
CloseOnExit ==
  /\ Gone
  /\ ~Settled
  /\ Finish(Code)
  /\ ClearTimer
  /\ UNCHANGED <<shell, kid, written, delivered, kept, truncated, timedOut>>

\* Mutant: a timed-out command is left to the timer.
CloseInTime ==
  /\ Gone /\ Holders = {} /\ delivered = written
  /\ ~Settled /\ ~timedOut
  /\ Finish(Code)
  /\ ClearTimer
  /\ UNCHANGED <<shell, kid, written, delivered, kept, truncated, timedOut>>

\* "close".
Close ==
  /\ Gone /\ Holders = {} /\ delivered = written
  /\ ~Settled
  /\ Finish(Code)
  /\ ClearTimer
  /\ UNCHANGED <<shell, kid, written, delivered, kept, truncated, timedOut>>

CommandStep ==
  \/ Writes \/ ShellEnds
  \/ \E k \in Kids : StartsKid(k) \/ LetsGo(k)

CallStep == Data \/ TimerFires \/ SpawnError \/ Close

Next == CommandStep \/ CallStep

Spec == Init /\ [][Next]_vars

\* The event loop delivers data, the deadline and the child's events.
FairSpec ==
  /\ Spec
  /\ WF_vars(Data) /\ WF_vars(TimerFires) /\ WF_vars(SpawnError) /\ WF_vars(Close)

\* ... and the command, signalled or not, comes to an end with those who hold its pipes.
EndingSpec == FairSpec /\ WF_vars(ShellEnds) /\ \A k \in Kids : WF_vars(LetsGo(k))

\* The shell does, if only because of SIGTERM; what it started need not.
ShellEndsSpec == FairSpec /\ WF_vars(ShellEnds)

----------------------------------------------------------------------------
(* Properties *)

TypeOK ==
  /\ shell \in {"running", "no_spawn"} \cup Ends
  /\ kid \in [Kids -> {"none", "holds", "apart", "ended"}]
  /\ written \in 0 .. MaxChunks /\ delivered \in 0 .. written
  /\ kept \in 0 .. delivered /\ kept <= MAX_BUFFER
  /\ truncated \in BOOLEAN /\ timedOut \in BOOLEAN
  /\ timer \in {"armed", "fired", "cleared"}
  /\ timedOut <=> timer = "fired"

\* An answer holds all that the command and the processes it started ever wrote, or a full
\* buffer and the mark that there was more, which stderr lacks after a timeout only.
NoOutputMissed ==
  Settled =>
    IF written <= MAX_BUFFER
    THEN result.text = written /\ ~result.marks.stdout /\ ~result.marks.stderr
    ELSE /\ result.text = MAX_BUFFER
         /\ result.marks.stdout /\ (result.marks.stderr \/ timer = "fired")

\* The mark is there so that a cut output is not taken for a whole one, of either stream.
CutIsMarked == Settled /\ written > MAX_BUFFER => result.marks.stdout /\ result.marks.stderr

\* The answer comes last: nobody writes after it, its timer signals nobody, and no event
\* of the child, "exit" behind "error" or "close" behind both, answers again.
AnswerIsFinal == [][Settled => UNCHANGED <<written, delivered, timer, result>>]_vars

\* "Seconds before the command is killed": what it has started is gone too when it has been
\* answered, and it was at work when its deadline struck.
AnsweredIsOver == Settled => shell # "running" /\ \A k \in Kids : kid[k] # "apart"
TimedOutWasAtWork == [][timer' = "fired" => timer = "fired" \/ shell = "running"]_vars

\* "return stdout, stderr, and exit code": a code of zero says that the command has gone well.
ZeroIsSuccess == Settled /\ result.exitCode = 0 => shell = "exit_0"

\* A command that ends is answered, whenever its deadline strikes, and whatever it has left
\* behind that does not hold its pipes.
EndsAnswered == <>Settled

\* "run_command timeout is bounded by CMD_TIMEOUT (doesn't hang forever)".
TimeoutAnswers == timer = "fired" ~> Settled
=============================================================================
