---------------------------- MODULE ProcessTable ----------------------------
(***************************************************************************)
(* The background processes of lib/processOps.js: start_process,           *)
(* get_process_output, kill_process, send_process_input and list_processes *)
(* against processes that run, write and end by themselves.  Nothing in the*)
(* code relates two processes; the two output streams behave alike, and the*)
(* module follows one, in numbered chunks.                                 *)
(*                                                                         *)
(* The process and Node's child_process are external: "exit" comes when the*)
(* process is gone, "data" as long as the pipe holds something, and neither*)
(* waits for the other.                                                    *)
(***************************************************************************)
EXTENDS Integers, Sequences, SequencesExt

CONSTANTS
  Procs,       \* the processes that may be started
  MAX_BUF,     \* chunks the buffer keeps
  MaxChunks,   \* bound: chunks a process writes
  MaxInputs    \* bound: lines sent to a process

ASSUME ProcessAssumption ==
  MAX_BUF \in Nat \ {0} /\ MaxChunks \in Nat /\ MaxInputs \in Nat

VARIABLES
  table,       \* the keys of BG_PROCESSES
  alive,       \* the processes that run, for the operating system
  exited,      \* those whose "exit" event has set entry.exitCode
  begun,       \* those ever started
  unborn,      \* those that could not be spawned, as in a missing cwd
  written,     \* chunks written, per process
  pipe,        \* chunks written and not delivered, per process
  buffer,      \* entry.stdout
  polled,      \* chunks returned by the clearing reads, in order
  cut,         \* chunks a full buffer or a tail read has dropped
  sent         \* lines accepted by send_process_input

vars == <<table, alive, exited, begun, unborn, written, pipe, buffer, polled, cut, sent>>

\* The last n elements of s.
Tailed(s, n) == SubSeq(s, IF Len(s) > n THEN Len(s) - n + 1 ELSE 1, Len(s))

\* What a process has written so far has gone one of four ways.
Seen(p) == polled[p] \o buffer[p] \o pipe[p]
Chunks(p) == ToSet(Seen(p)) \cup cut[p]

Init ==
  /\ table = {} /\ alive = {} /\ exited = {} /\ begun = {} /\ unborn = {}
  /\ written = [p \in Procs |-> 0]
  /\ pipe = [p \in Procs |-> <<>>]
  /\ buffer = [p \in Procs |-> <<>>]
  /\ polled = [p \in Procs |-> <<>>]
  /\ cut = [p \in Procs |-> {}]
  /\ sent = [p \in Procs |-> 0]

----------------------------------------------------------------------------
(* The process *)

Writes(p) ==
  /\ p \in alive
  /\ written[p] < MaxChunks
  /\ written' = [written EXCEPT ![p] = @ + 1]
  /\ pipe' = [pipe EXCEPT ![p] = Append(@, written'[p])]
  /\ UNCHANGED <<table, alive, exited, begun, unborn, buffer, polled, cut, sent>>

Ends(p) ==
  /\ p \in alive
  /\ alive' = alive \ {p}
  /\ UNCHANGED <<table, exited, begun, unborn, written, pipe, buffer, polled, cut, sent>>

(* The listeners of startProcess *)

\* Mutant: a full buffer takes no more, and says nothing of it.
DataRefused(p) ==
  /\ pipe[p] # <<>>
  /\ buffer' = [buffer EXCEPT ![p] =
                  IF Len(@) < MAX_BUF THEN Append(@, Head(pipe[p])) ELSE @]
  /\ pipe' = [pipe EXCEPT ![p] = Tail(@)]
  /\ UNCHANGED <<cut, table, alive, exited, begun, unborn, written, polled, sent>>

\* The buffer keeps the newest output.
Data(p) ==
  /\ pipe[p] # <<>>
  /\ LET grown == Append(buffer[p], Head(pipe[p])) IN
       /\ buffer' = [buffer EXCEPT ![p] = Tailed(grown, MAX_BUF)]
       /\ cut' = [cut EXCEPT ![p] = @ \cup (ToSet(grown) \ ToSet(buffer'[p]))]
  /\ pipe' = [pipe EXCEPT ![p] = Tail(@)]
  /\ UNCHANGED <<table, alive, exited, begun, unborn, written, polled, sent>>

\* Mutant: the exit is noted in the table, for those it still holds.
ExitInTable(p) ==
  /\ p \in table \ (alive \cup unborn)
  /\ p \notin exited
  /\ exited' = exited \cup {p}
  /\ UNCHANGED <<table, alive, begun, unborn, written, pipe, buffer, polled, cut, sent>>

Exit(p) ==
  /\ p \in begun \ (alive \cup unborn)
  /\ p \notin exited
  /\ exited' = exited \cup {p}
  /\ UNCHANGED <<table, alive, begun, unborn, written, pipe, buffer, polled, cut, sent>>

(* The tools *)

\* The child may not come to life; its "error" event has no listener, and ends in the
\* crash guard.
Start(p) ==
  /\ p \notin begun
  /\ begun' = begun \cup {p}
  /\ table' = table \cup {p}
  /\ \/ alive' = alive \cup {p} /\ UNCHANGED unborn
     \/ unborn' = unborn \cup {p} /\ UNCHANGED alive
  /\ UNCHANGED <<exited, written, pipe, buffer, polled, cut, sent>>

\* Mutant: the buffer is returned and left as it is.
PollKeeping(p, n) ==
  /\ p \in table
  /\ n > 0
  /\ polled' = [polled EXCEPT ![p] = @ \o Tailed(buffer[p], n)]
  /\ UNCHANGED <<buffer, cut, table, alive, exited, begun, unborn, written, pipe, sent>>

\* get_process_output with clear, and with tail_bytes when n is less than all: what
\* the tail leaves out is cleared too.  Without clear nothing changes.
Poll(p, n) ==
  /\ p \in table
  /\ LET shown == Tailed(buffer[p], n) IN
       /\ polled' = [polled EXCEPT ![p] = @ \o shown]
       /\ cut' = [cut EXCEPT ![p] = @ \cup (ToSet(buffer[p]) \ ToSet(shown))]
  /\ buffer' = [buffer EXCEPT ![p] = <<>>]
  /\ UNCHANGED <<table, alive, exited, begun, unborn, written, pipe, sent>>

\* kill_process: an exited process loses its entry whatever "remove" says; a running
\* one is signalled, which SIGTERM lets it ignore, and keeps it with remove:false.
Kill(p) ==
  /\ p \in table
  /\ IF p \in exited
     THEN table' = table \ {p} /\ UNCHANGED alive
     ELSE table' \in {table, table \ {p}} /\ alive' \in {alive, alive \ {p}}
  /\ UNCHANGED <<exited, begun, unborn, written, pipe, buffer, polled, cut, sent>>

\* send_process_input, unless the exit is known; the stdin of a child that was not
\* spawned is destroyed.
Send(p) ==
  /\ p \in table \ (exited \cup unborn)
  /\ sent[p] < MaxInputs
  /\ sent' = [sent EXCEPT ![p] = @ + 1]
  /\ UNCHANGED <<table, alive, exited, begun, unborn, written, pipe, buffer, polled, cut>>

Next ==
  \E p \in Procs :
    \/ Writes(p) \/ Ends(p) \/ Data(p) \/ Exit(p)
    \/ Start(p) \/ Kill(p) \/ Send(p)
    \/ \E n \in 1 .. MAX_BUF : Poll(p, n)

Spec == Init /\ [][Next]_vars

\* The event loop delivers the events of the child.
FairSpec == Spec /\ \A p \in Procs : WF_vars(Data(p)) /\ WF_vars(Exit(p))

----------------------------------------------------------------------------
(* Properties *)

TypeOK ==
  /\ table \subseteq begun /\ begun \subseteq Procs
  /\ exited \subseteq begun \ alive /\ alive \cup unborn \subseteq begun
  /\ \A p \in Procs : Len(buffer[p]) <= MAX_BUF /\ sent[p] \in 0 .. MaxInputs

\* "Clear the buffer after reading so next call only shows new output": no poll
\* shows a chunk twice, nor an older one after a newer, around the exit too.
PolledInOrder ==
  \A p \in Procs : \A i, j \in DOMAIN Seen(p) : i < j => Seen(p)[i] < Seen(p)[j]

\* Nothing else is lost than what a full buffer or a tail read gives up: the rest has
\* been polled or still can be.
NothingElseLost == \A p \in Procs : Chunks(p) = 1 .. written[p]

\* A process that has run and ended gets its exit code, whatever the calls did to its
\* entry meanwhile.
ExitIsReported == \A p \in Procs : p \in begun \ (alive \cup unborn) ~> p \in exited

\* "... their status": a process that does not run is not shown as running for ever.
StatusSettles == \A p \in Procs : p \in begun \ alive ~> p \in exited \/ p \notin table

\* "List all background processes started with start_process": a live one is there.
AliveIsListed == alive \subseteq table
=============================================================================
