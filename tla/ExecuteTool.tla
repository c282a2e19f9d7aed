---------------------------- MODULE ExecuteTool ----------------------------
(***************************************************************************)
(* The tool dispatcher of lib/executeTool.js over the store of Community.  *)
(*                                                                         *)
(* The passive notification: tool calls that carry a session_id, of any    *)
(* category.  A handler may return a promise; whatever the other AIs do    *)
(* until it settles is part of the summary that injectInboxSummary staples *)
(* onto its result.                                                        *)
(*                                                                         *)
(* executePipeline: the steps of one execute_pipeline call, run one after  *)
(* the other, each awaited.  A step that throws, and one whose promise is  *)
(* rejected, fail alike.  A step that is null cannot be looked into at all.*)
(***************************************************************************)
EXTENDS Community

CONSTANTS
  Calls,       \* the tool calls followed
  NoNotice,    \* a result without an _inbox
  MaxSteps     \* bound: length of the steps array

ASSUME NoticeAssumption == NoNotice \notin Nat
ASSUME PipelineAssumption == MaxSteps \in Nat \ {0}

VARIABLES
  call,        \* the state of each tool call
  steps,       \* the steps of the pipeline: is null, has an "op", and on_error
  next,        \* the step to run next
  results,     \* the status of each entry of the report
  ran,         \* the steps whose tool was called, in order
  stoppedAt,   \* 0 for null
  done,        \* the report is returned
  thrown       \* executePipeline threw, and there is no report

noticeVars == <<vars, call>>
pipelineVars == <<steps, next, results, ran, stoppedAt, done, thrown>>

----------------------------------------------------------------------------
(* The notification *)

\* A call: not made, awaiting its handler's promise, or returned, with the unread
\* count of its _inbox.  "plain" results, those that are no objects, take none.
Idle == [at |-> "idle"]
Pending(s) == [at |-> "pending", session |-> s, before |-> Cardinality(Unread(s))]
Returned(s, plain, n) ==
  [at |-> "returned", session |-> s, plain |-> plain, notice |-> n]
Failed == [at |-> "failed"]

NoticeInit == Init /\ call = [c \in Calls |-> Idle]

\* injectInboxSummary
Injected(s, plain) ==
  IF s \in Registered /\ ~plain THEN Cardinality(Unread(s)) ELSE NoNotice

\* A tool that is not a community one and returns a value.
SyncCall(c, s) ==
  /\ call[c] = Idle
  /\ \E plain \in BOOLEAN :
       call' = [call EXCEPT ![c] = Returned(s, plain, Injected(s, plain))]
  /\ UNCHANGED vars

\* ... and one that returns a promise, which is fulfilled or rejected later.
AsyncCall(c, s) ==
  /\ call[c] = Idle
  /\ call' = [call EXCEPT ![c] = Pending(s)]
  /\ UNCHANGED vars

\* Mutant: the summary is made when the tool is called.
FulfilledEarly(c) ==
  /\ call[c].at = "pending"
  /\ call' = [call EXCEPT ![c] = Returned(@.session, FALSE, @.before)]
  /\ UNCHANGED vars

Fulfilled(c) ==
  /\ call[c].at = "pending"
  /\ LET s == call[c].session IN
       \E plain \in BOOLEAN :
         call' = [call EXCEPT ![c] = Returned(s, plain, Injected(s, plain))]
  /\ UNCHANGED vars

Rejected(c) ==
  /\ call[c].at = "pending"
  /\ call' = [call EXCEPT ![c] = Failed]
  /\ UNCHANGED vars

\* A community_* call of session s: its result is returned as it is.
CommunityCall(c, s) ==
  /\ call[c] = Idle
  /\ \/ Register(s) \/ Read(s)
     \/ \E e \in ExpiryChoices, re \in ReplyChoices : Send(s, e, re)
     \/ \E r \in RoomIds : RoomCall(s, r)
  /\ call' = [call EXCEPT ![c] = Returned(s, FALSE, NoNotice)]

NoticeNext ==
  \/ Next /\ UNCHANGED call
  \/ \E c \in Calls :
       \/ Fulfilled(c) \/ Rejected(c)
       \/ \E s \in SessionIds : SyncCall(c, s) \/ AsyncCall(c, s) \/ CommunityCall(c, s)

NoticeSpec == NoticeInit /\ [][NoticeNext]_noticeVars

----------------------------------------------------------------------------
(* The pipeline *)

StepArgs ==
  {s \in [null : BOOLEAN, op : BOOLEAN, on_error : {"stop", "continue"}] :
     s.null => ~s.op /\ s.on_error = "stop"}
Skipped(k) == [j \in 1 .. Len(steps) - k |-> "skipped"]
Count(status) == Cardinality({k \in DOMAIN results : results[k] = status})

\* Not called yet: no call has an empty steps array.
PipelineInit ==
  /\ steps = <<>>
  /\ next = 1
  /\ results = <<>>
  /\ ran = <<>>
  /\ stoppedAt = 0
  /\ done = FALSE /\ thrown = FALSE

PipelineCall ==
  /\ steps = <<>>
  /\ steps' \in UNION {[1 .. n -> StepArgs] : n \in 1 .. MaxSteps}
  /\ UNCHANGED <<next, results, ran, stoppedAt, done, thrown>>

InLoop == ~done /\ ~thrown /\ next <= Len(steps)

\* step.op of a null step throws outside the try, at its turn or when it is to be skipped.
NullAhead == \E k \in next + 1 .. Len(steps) : steps[k].null

NullStep ==
  /\ InLoop
  /\ \/ steps[next].null /\ UNCHANGED ran
     \/ /\ steps[next].op /\ steps[next].on_error = "stop" /\ NullAhead
        /\ ran' = Append(ran, next)
  /\ thrown' = TRUE
  /\ UNCHANGED <<steps, next, results, stoppedAt, done>>

\* A step without an op: an error, and the loop is left before the steps that
\* follow are entered as skipped.
NoOp ==
  /\ InLoop /\ ~steps[next].null /\ ~steps[next].op
  /\ results' = Append(results, "error")
  /\ IF steps[next].on_error = "stop"
     THEN stoppedAt' = next /\ done' = TRUE /\ UNCHANGED next
     ELSE next' = next + 1 /\ UNCHANGED <<stoppedAt, done>>
  /\ UNCHANGED <<steps, ran, thrown>>

StepSucceeds ==
  /\ InLoop /\ steps[next].op
  /\ ran' = Append(ran, next)
  /\ results' = Append(results, "ok")
  /\ next' = next + 1
  /\ UNCHANGED <<steps, stoppedAt, done, thrown>>

\* Mutant: the loop goes on after the steps have been entered as skipped.
StepFailsOn ==
  /\ InLoop /\ steps[next].op
  /\ ran' = Append(ran, next)
  /\ IF steps[next].on_error = "stop"
     THEN /\ stoppedAt' = next
          /\ results' = Append(results, "error") \o Skipped(next)
     ELSE /\ results' = Append(results, "error")
          /\ UNCHANGED stoppedAt
  /\ next' = next + 1
  /\ UNCHANGED <<steps, done, thrown>>

StepFails ==
  /\ InLoop /\ steps[next].op
  /\ ran' = Append(ran, next)
  /\ IF steps[next].on_error = "stop"
     THEN /\ ~NullAhead
          /\ stoppedAt' = next /\ done' = TRUE
          /\ results' = Append(results, "error") \o Skipped(next)
          /\ UNCHANGED next
     ELSE /\ results' = Append(results, "error")
          /\ next' = next + 1
          /\ UNCHANGED <<stoppedAt, done>>
  /\ UNCHANGED <<steps, thrown>>

PipelineReturns ==
  /\ ~done /\ ~thrown /\ steps # <<>> /\ next > Len(steps)
  /\ done' = TRUE
  /\ UNCHANGED <<steps, next, results, ran, stoppedAt, thrown>>

PipelineNext ==
  PipelineCall \/ NullStep \/ NoOp \/ StepSucceeds \/ StepFails \/ PipelineReturns

----------------------------------------------------------------------------
(* Properties *)

\* The count is that of the moment the result is returned: a message that came while the
\* tool was at work is announced, one that was purged or read meanwhile is not, and a
\* session that was evicted or deleted meanwhile is told nothing.
NoticeIsCurrent ==
  [][\A c \in Calls :
       call'[c].at = "returned" /\ call[c].at # "returned" /\ call'[c].notice # NoNotice
         => /\ call'[c].session \in Registered
            /\ call'[c].notice = Cardinality(Unread(call'[c].session))]_noticeVars

\* "Every tool call that carries a session_id (from any category, not just community
\* tools)" returns the summary, "on every tool response".
EveryResponseHasInbox ==
  [][\A c \in Calls :
       (/\ call'[c].at = "returned" /\ call[c].at # "returned"
        /\ ~call'[c].plain /\ call'[c].session \in Registered')
         => call'[c].notice # NoNotice]_noticeVars

\* "If a step fails and on_error is 'stop', remaining steps are skipped": no tool of a
\* pipeline runs after such a step, every tool before it did, in order and once, and the
\* report says of each step what became of it.
ReportIsTrue ==
  done =>
    LET fatal == {k \in DOMAIN results \cap DOMAIN steps :
                    results[k] = "error" /\ steps[k].on_error = "stop"}
        end   == IF fatal = {} THEN Len(steps) ELSE stoppedAt
    IN  /\ Len(results) <= Len(steps)
        /\ fatal = IF stoppedAt = 0 THEN {} ELSE {stoppedAt}
        /\ ToSet(ran) = {k \in 1 .. end : steps[k].op}
        /\ \A j, k \in DOMAIN ran : j < k => ran[j] < ran[k]
        /\ \A k \in DOMAIN results : results[k] = "skipped" <=> k > end

\* "Returns a summary with per-step status": ok, error and skipped add up to the total.
EveryStepReported == done => Count("ok") + Count("error") + Count("skipped") = Len(steps)

\* ... and there is one of every call.
AlwaysReports == ~thrown
=============================================================================
