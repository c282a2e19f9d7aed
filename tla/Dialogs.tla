------------------------------ MODULE Dialogs ------------------------------
(***************************************************************************)
(* The dialogs of a browser session: the "dialog" listener of              *)
(* lib/browserLaunch.js and the tools of lib/browserActions/dialogs.js     *)
(* that arm answers, wait for a dialog and read the log.  The listener     *)
(* awaits Playwright between taking an armed answer and logging, so        *)
(* dialogs of several tabs overlap each other and the tools.               *)
(*                                                                         *)
(* Answers and dialogs are numbered in the order they are armed and fired; *)
(* an answer's accept or dismiss makes no difference to what is modelled.  *)
(***************************************************************************)
EXTENDS Naturals, Sequences, SequencesExt

CONSTANTS
  Waiters,            \* browser_wait_for_dialog calls
  MAX_DIALOG_QUEUE,
  MAX_DIALOG_LOG,
  MaxAnswers,         \* bound: answers armed
  MaxDialogs          \* bound: dialogs fired

DialogsAssumption ==
  /\ MAX_DIALOG_QUEUE \in Nat \ {0} /\ MAX_DIALOG_LOG \in Nat \ {0}
  /\ MaxAnswers \in Nat /\ MaxDialogs \in Nat

VARIABLES
  armed,       \* number of the last answer armed
  queue,       \* entry.dialogQueue
  answer,      \* the answer each dialog fired so far was given, Auto for none
  handled,     \* the dialogs in the order their handling ended
  log,         \* entry.dialogLog
  waiting,     \* entry.dialogWaiters
  result       \* what each waiter has been told

vars == <<armed, queue, answer, handled, log, waiting, result>>

Auto == 0
Fired == Len(answer)

\* Results of a waiter, the dialogs apart.  Since(d): it waits, and d dialogs had
\* fired when it was called.
NotCalled == [kind |-> "idle"]
Since(d) == [kind |-> "waiting", since |-> d]
TimedOut(d) == [kind |-> "timed_out", since |-> d]
Told(d, e) == [kind |-> "told", since |-> d, dialog |-> e]

Newest(s, n) == SubSeq(s, IF Len(s) > n THEN Len(s) - n + 1 ELSE 1, Len(s))

Init ==
  /\ armed = 0
  /\ queue = <<>>
  /\ answer = <<>>
  /\ handled = <<>>
  /\ log = <<>>
  /\ waiting = <<>>
  /\ result = [w \in Waiters |-> NotCalled]

----------------------------------------------------------------------------
(* browser_handle_next_dialog *)

\* With queue:true, unless the queue is full.
ArmQueued ==
  /\ armed < MaxAnswers
  /\ Len(queue) < MAX_DIALOG_QUEUE
  /\ armed' = armed + 1
  /\ queue' = Append(queue, armed')
  /\ UNCHANGED <<answer, handled, log, waiting, result>>

\* Without, the answer replaces the whole queue.
ArmOnly ==
  /\ armed < MaxAnswers
  /\ armed' = armed + 1
  /\ queue' = <<armed'>>
  /\ UNCHANGED <<answer, handled, log, waiting, result>>

(* The "dialog" listener *)

\* Mutant: the armed answer stays armed.
FiresKeeping ==
  /\ Fired < MaxDialogs
  /\ answer' = Append(answer, IF queue = <<>> THEN Auto ELSE Head(queue))
  /\ UNCHANGED <<queue, armed, handled, log, waiting, result>>

\* Up to its await: the dialog takes the oldest answer.
Fires ==
  /\ Fired < MaxDialogs
  /\ answer' = Append(answer, IF queue = <<>> THEN Auto ELSE Head(queue))
  /\ queue' = IF queue = <<>> THEN queue ELSE Tail(queue)
  /\ UNCHANGED <<armed, handled, log, waiting, result>>

\* accept() or dismiss() settled, or threw: either way the dialog is logged and
\* the first waiter gets it.
Handled(d) ==
  /\ d \in 1 .. Fired /\ d \notin ToSet(handled)
  /\ handled' = Append(handled, d)
  /\ log' = Newest(Append(log, d), MAX_DIALOG_LOG)
  /\ IF waiting = <<>>
     THEN UNCHANGED <<waiting, result>>
     ELSE /\ waiting' = Tail(waiting)
          /\ result' = [result EXCEPT ![Head(waiting)] = Told(@.since, d)]
  /\ UNCHANGED <<armed, queue, answer>>

(* browser_wait_for_dialog and browser_get_dialog_log *)

Wait(w) ==
  /\ result[w] = NotCalled
  /\ waiting' = Append(waiting, w)
  /\ result' = [result EXCEPT ![w] = Since(Fired)]
  /\ UNCHANGED <<armed, queue, answer, handled, log>>

\* Mutant: the timed-out waiter stays in the list.
TimesOutKeeping(w) ==
  /\ result[w].kind = "waiting"
  /\ result' = [result EXCEPT ![w] = TimedOut(@.since)]
  /\ UNCHANGED <<waiting, armed, queue, answer, handled, log>>

\* Mutant: a dialog stops every timer, though it answers only the first waiter.
TimesOutUntilDialog(w) ==
  /\ result[w].kind = "waiting"
  /\ Fired = result[w].since
  /\ waiting' = RemoveFirst(waiting, w)
  /\ result' = [result EXCEPT ![w] = TimedOut(@.since)]
  /\ UNCHANGED <<armed, queue, answer, handled, log>>

\* The waiter's timer, which a dialog that reached it first has cleared.
TimesOut(w) ==
  /\ result[w].kind = "waiting"
  /\ waiting' = RemoveFirst(waiting, w)
  /\ result' = [result EXCEPT ![w] = TimedOut(@.since)]
  /\ UNCHANGED <<armed, queue, answer, handled, log>>

ClearLog ==
  /\ log # <<>>
  /\ log' = <<>>
  /\ UNCHANGED <<armed, queue, answer, handled, waiting, result>>

Next ==
  \/ ArmQueued \/ ArmOnly \/ Fires \/ ClearLog
  \/ \E d \in 1 .. MaxDialogs : Handled(d)
  \/ \E w \in Waiters : Wait(w) \/ TimesOut(w)

Spec == Init /\ [][Next]_vars

\* Timers fire; so, waiting needs no dialog to come to an end.
FairSpec == Spec /\ \A w \in Waiters : WF_vars(TimesOut(w))

----------------------------------------------------------------------------
(* Properties *)

TypeOK ==
  /\ armed \in 0 .. MaxAnswers
  /\ queue \in Seq(1 .. armed) /\ Len(queue) <= MAX_DIALOG_QUEUE
  /\ answer \in Seq(0 .. armed)
  /\ handled \in Seq(1 .. Fired) /\ IsInjective(handled)
  /\ IsSuffix(log, handled) /\ Len(log) <= MAX_DIALOG_LOG
  /\ waiting \in Seq(Waiters) /\ IsInjective(waiting)
  /\ \A w \in Waiters :
       \/ result[w] = NotCalled
       \/ /\ result[w].since \in 0 .. Fired
          /\ \/ result[w].kind \in {"waiting", "timed_out"}
             \/ result[w].kind = "told" /\ result[w].dialog \in ToSet(handled)

\* Each armed answer serves one dialog at most, the dialogs take them in the order
\* they were armed, and the queue holds later ones only: a sequence of N answers
\* meets its N dialogs in order, however their handling overlaps.
AnswersServeInOrder ==
  LET given == answer \o queue
  IN  \A i, j \in DOMAIN given :
        i < j /\ given[i] # Auto /\ given[j] # Auto => given[i] < given[j]

\* The list holds those who still wait, and no one else: a dialog is never spent
\* on a call that has been answered, while another one times out.
OnlyThoseWhoWait ==
  ToSet(waiting) = {w \in Waiters : result[w].kind = "waiting"}

\* "Block until the next dialog fires": a call is told of one that fired later.
WaitsForTheNext ==
  \A w \in Waiters : result[w].kind = "told" => result[w].dialog > result[w].since

\* "... or timeout elapses": every call returns.
WaitsEnd == \A w \in Waiters : result[w].kind = "waiting" ~> result[w].kind # "waiting"
=============================================================================
