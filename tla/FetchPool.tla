----------------------------- MODULE FetchPool -----------------------------
(***************************************************************************)
(* The worker pool of http_multi_fetch (pMap of lib/httpMultiFetchOps.js)  *)
(* and the answer made of its results.  A task, a single fetch, always     *)
(* settles: with a response, or with an error of its own.                  *)
(***************************************************************************)
EXTENDS Integers

CONSTANTS Tasks, MAX_CONCURRENCY   \* how many requests, and the most workers

ASSUME PoolAssumption == Tasks \in Nat \ {0} /\ MAX_CONCURRENCY \in Nat \ {0}

VARIABLES
  concurrency,
  nextIdx,
  task,       \* of a worker: the task it awaits, or Ended
  results,
  started,    \* how often each task was started
  failFast,   \* fail_fast
  answer      \* pending, thrown or returned

asked == <<concurrency, failFast>>
poolVars == <<asked, nextIdx, task, results, started, answer>>

Idx == 0 .. Tasks - 1
Pool == 1 .. (IF concurrency < Tasks THEN concurrency ELSE Tasks)
Ended == -1
NoResult == "none"

PoolTypeOK ==
  /\ concurrency \in 0 .. MAX_CONCURRENCY
  /\ nextIdx \in 0 .. Tasks
  /\ task \in [Pool -> Idx \cup {Ended}]
  /\ results \in [Idx -> {NoResult, "ok", "error"}]
  /\ started \in [Idx -> Nat]
  /\ failFast \in BOOLEAN
  /\ answer \in {"pending", "thrown", "returned"}

\* "Spawn exactly min(concurrency, tasks.length) workers": each takes its first task at once.
\* A concurrency above 0 and below 1 is rounded down to no worker.
PoolInit ==
  /\ concurrency \in 0 .. MAX_CONCURRENCY
  /\ nextIdx = IF concurrency < Tasks THEN concurrency ELSE Tasks
  /\ task = [w \in Pool |-> w - 1]
  /\ results = [i \in Idx |-> NoResult]
  /\ started = [i \in Idx |-> IF i < nextIdx THEN 1 ELSE 0]
  /\ failFast \in BOOLEAN /\ answer = "pending"

----------------------------------------------------------------------------

\* Mutant: the index moves on only when the task is over.
TakeLate(w) ==
  IF nextIdx < Tasks
  THEN /\ task' = [task EXCEPT ![w] = nextIdx]
       /\ started' = [started EXCEPT ![nextIdx] = @ + 1]
       /\ nextIdx' \in {nextIdx, nextIdx + 1}
  ELSE task' = [task EXCEPT ![w] = Ended] /\ UNCHANGED <<nextIdx, started>>

\* while (nextIdx < tasks.length) { const i = nextIdx++; ...
Take(w) ==
  IF nextIdx < Tasks
  THEN /\ task' = [task EXCEPT ![w] = nextIdx]
       /\ started' = [started EXCEPT ![nextIdx] = @ + 1]
       /\ nextIdx' = nextIdx + 1
  ELSE task' = [task EXCEPT ![w] = Ended] /\ UNCHANGED <<nextIdx, started>>

\* A task settles; its worker takes the next.
Settles(w, how) ==
  /\ task[w] \in Idx
  /\ results' = [results EXCEPT ![task[w]] = how]
  /\ Take(w)
  /\ UNCHANGED <<asked, answer>>

\* Promise.all: every worker has ended.  With fail_fast the results are looked through for
\* an error, and a hole among them throws as well.
Answers ==
  /\ answer = "pending" /\ \A w \in Pool : task[w] = Ended
  /\ answer' = IF failFast /\ \E i \in Idx : results[i] # "ok" THEN "thrown" ELSE "returned"
  /\ UNCHANGED <<asked, nextIdx, task, results, started>>

PoolNext ==
  \/ \E w \in Pool, how \in {"ok", "error"} : Settles(w, how)
  \/ Answers

PoolSpec == PoolInit /\ [][PoolNext]_poolVars

----------------------------------------------------------------------------
(* Properties *)

\* Workers that take tasks from a shared index send no request twice, and leave no result
\* out of an answer, one worker like many.
EachTaskOnce ==
  /\ \A i \in Idx : started[i] <= 1
  /\ answer # "pending" /\ concurrency > 0 => \A i \in Idx : results[i] # NoResult

\* "Send multiple HTTP requests in parallel and return all results", at any concurrency.
AllAreAnswered == answer # "pending" => \A i \in Idx : results[i] # NoResult

\* "If true, reject on first connection error": no request is sent after one.
StopsAtTheFirst ==
  [][failFast /\ (\E i \in Idx : results'[i] = "error") => UNCHANGED started]_poolVars
=============================================================================
