-------------------------- MODULE ProcessesProofs --------------------------
(***************************************************************************)
(* The processes of lib/processOps.js, for any number of them, buffers and *)
(* outputs of any length: polls show the output in order and lose only     *)
(* what they say, and a command is answered when all of it is over.        *)
(***************************************************************************)
EXTENDS MCProcesses, KeySequenceTheorems

\* The chunks a process has written stand, each once and in order, in what was polled,
\* the buffer and the pipe, but for those cut.
Logged(p) ==
  /\ written[p] \in Nat
  /\ polled[p] \in Seq(Int) /\ buffer[p] \in Seq(Int) /\ pipe[p] \in Seq(Int)
  /\ Increasing(Seen(p))
  /\ Chunks(p) = 1 .. written[p]

TableInv ==
  /\ DOMAIN polled = Procs /\ DOMAIN buffer = Procs /\ DOMAIN pipe = Procs
  /\ DOMAIN cut = Procs /\ DOMAIN written = Procs
  /\ \A p \in Procs : Logged(p)

\* The buffer holds the first chunks, and the flag says that there were more.
CountInv ==
  /\ output \in Nat /\ delivered \in Nat /\ delivered <= output
  /\ delivered <= MAX_BUFFER => kept = delivered /\ truncated = FALSE
  /\ delivered > MAX_BUFFER => kept = MAX_BUFFER /\ truncated = TRUE
  /\ shell = "no_spawn" => output = 0 /\ \A k \in Kids : kid[k] = "none"
  /\ DOMAIN kid = Kids

\* An answer comes after all there was, and says what the buffer held.
AnswerInv ==
  /\ timedOut <=> timer = "fired"
  /\ Run!Settled => /\ shell # "running" /\ \A k \in Kids : kid[k] # "holds"
                    /\ delivered = output /\ timer # "armed"
                    /\ result.text = kept /\ result.marks = Run!Marks

ProcessesInv == TableInv /\ CountInv /\ AnswerInv

----------------------------------------------------------------------------
(* The background processes *)

\* The last n elements of a log are a part of it, in order.
LEMMA TailedIncreasing ==
  ASSUME NEW s \in Seq(Int), NEW n \in Nat
  PROVE  /\ Tailed(s, n) \in Seq(Int)
         /\ ToSet(Tailed(s, n)) \subseteq ToSet(s)
         /\ Increasing(s) => Increasing(Tailed(s, n))
<1>. DEFINE m == IF Len(s) > n THEN Len(s) - n + 1 ELSE 1
<1>1. m \in Nat \ {0} /\ Len(s) \in Nat
  OBVIOUS
<1>. HIDE DEF m
<1>2. Tailed(s, n) = SubSeq(s, m, Len(s))
  BY DEF Tailed, m
<1>. QED  BY <1>1, <1>2, PartIncreasing

\* The process writes its next chunk.
LEMMA WritesLogged ==
  ASSUME NEW p \in Procs, TableInv, Writes(p)
  PROVE  Logged(p)'
<1>1. Logged(p) /\ p \in DOMAIN written /\ p \in DOMAIN pipe
  BY DEF TableInv
<1>. DEFINE x == written[p] + 1
            q == Append(pipe[p], x)
<1>2. /\ written'[p] = x /\ pipe'[p] = q
      /\ buffer' = buffer /\ polled' = polled /\ cut' = cut
  BY <1>1 DEF Writes
<1>3. /\ x \in Nat /\ polled[p] \in Seq(Int) /\ buffer[p] \in Seq(Int) /\ pipe[p] \in Seq(Int)
      /\ Increasing(Seen(p)) /\ Chunks(p) = 1 .. written[p] /\ written[p] \in Nat
  BY <1>1 DEF Logged
<1>4. /\ q \in Seq(Int) /\ ToSet(q) = ToSet(pipe[p]) \cup {x}
      /\ Increasing(q) <=> Increasing(pipe[p]) /\ Below(ToSet(pipe[p]), {x})
  <2>1. x \in Int  BY <1>3
  <2>. HIDE DEF x
  <2>. QED  BY <1>3, <2>1, AppendIncreasing
<1>. HIDE DEF q
<1>5. /\ ToSet(Seen(p)) = ToSet(polled[p]) \cup ToSet(buffer[p]) \cup ToSet(pipe[p])
      /\ Increasing(polled[p]) /\ Increasing(buffer[p]) /\ Increasing(pipe[p])
      /\ Below(ToSet(polled[p]), ToSet(buffer[p])) /\ Below(ToSet(polled[p]), ToSet(pipe[p]))
      /\ Below(ToSet(buffer[p]), ToSet(pipe[p]))
  BY <1>3, ThreeIncreasing DEF Seen
<1>6. \A c \in ToSet(Seen(p)) : c < x
  BY <1>3 DEF Chunks
<1>7. Increasing(polled[p] \o buffer[p] \o q)
  <2>1. /\ Below(ToSet(pipe[p]), {x}) /\ Below(ToSet(polled[p]), ToSet(q))
        /\ Below(ToSet(buffer[p]), ToSet(q))
    BY <1>4, <1>5, <1>6 DEF Below
  <2>. QED  BY <1>3, <1>4, <1>5, <2>1, ThreeIncreasing
<1>8. ToSet(polled[p] \o buffer[p] \o q) = ToSet(Seen(p)) \cup {x}
  BY <1>3, <1>4, <1>5, ThreeIncreasing
<1>9. 1 .. x = (1 .. written[p]) \cup {x}
  BY <1>3
<1>. QED  BY <1>2, <1>3, <1>4, <1>7, <1>8, <1>9 DEF Logged, Seen, Chunks

\* The next chunk is delivered; the buffer drops its oldest.
LEMMA DataLogged ==
  ASSUME NEW p \in Procs, TableInv, Data(p)
  PROVE  Logged(p)'
<1>1. Logged(p) /\ p \in DOMAIN buffer /\ p \in DOMAIN pipe /\ p \in DOMAIN cut
  BY DEF TableInv
<1>. DEFINE h == Head(pipe[p])
            t == Tail(pipe[p])
            grown == Append(buffer[p], h)
            b == Tailed(grown, MAX_BUF)
<1>2. /\ pipe[p] # <<>> /\ buffer'[p] = b /\ pipe'[p] = t
      /\ cut'[p] = cut[p] \cup (ToSet(grown) \ ToSet(b))
      /\ polled' = polled /\ written' = written
  BY <1>1 DEF Data
<1>3. /\ polled[p] \in Seq(Int) /\ buffer[p] \in Seq(Int) /\ pipe[p] \in Seq(Int)
      /\ Increasing(Seen(p)) /\ Chunks(p) = 1 .. written[p] /\ written[p] \in Nat
  BY <1>1 DEF Logged
<1>4. /\ t \in Seq(Int) /\ h \in Int /\ ToSet(pipe[p]) = {h} \cup ToSet(t)
      /\ Increasing(pipe[p]) => Increasing(t) /\ Below({h}, ToSet(t))
  BY <1>2, <1>3, TailIncreasing
<1>. HIDE DEF h, t
<1>5. /\ grown \in Seq(Int) /\ ToSet(grown) = ToSet(buffer[p]) \cup {h}
      /\ Increasing(grown) <=> Increasing(buffer[p]) /\ Below(ToSet(buffer[p]), {h})
  BY <1>3, <1>4, AppendIncreasing
<1>. HIDE DEF grown
<1>6. b \in Seq(Int) /\ ToSet(b) \subseteq ToSet(grown) /\ (Increasing(grown) => Increasing(b))
  BY <1>5, TailedIncreasing, ProcessAssumption
<1>. HIDE DEF b
<1>7. /\ ToSet(Seen(p)) = ToSet(polled[p]) \cup ToSet(buffer[p]) \cup ToSet(pipe[p])
      /\ Increasing(polled[p]) /\ Increasing(buffer[p]) /\ Increasing(pipe[p])
      /\ Below(ToSet(polled[p]), ToSet(buffer[p])) /\ Below(ToSet(polled[p]), ToSet(pipe[p]))
      /\ Below(ToSet(buffer[p]), ToSet(pipe[p]))
  BY <1>3, ThreeIncreasing DEF Seen
<1>8. /\ Increasing(b) /\ Increasing(t)
      /\ Below(ToSet(polled[p]), ToSet(b)) /\ Below(ToSet(polled[p]), ToSet(t))
      /\ Below(ToSet(b), ToSet(t))
  <2>1. Below(ToSet(buffer[p]), {h}) /\ Below(ToSet(polled[p]), {h})
    BY <1>4, <1>7 DEF Below
  <2>2. Below(ToSet(polled[p]), ToSet(grown)) /\ Below(ToSet(grown), ToSet(t))
    BY <1>4, <1>5, <1>7, <2>1 DEF Below
  <2>. QED  BY <1>4, <1>5, <1>6, <1>7, <2>1, <2>2 DEF Below
<1>9. /\ Increasing(polled[p] \o b \o t)
      /\ ToSet(polled[p] \o b \o t) = ToSet(polled[p]) \cup ToSet(b) \cup ToSet(t)
  <2>1. polled[p] \in Seq(Int) /\ b \in Seq(Int) /\ t \in Seq(Int)
    BY <1>3, <1>4, <1>6
  <2>2. Increasing(polled[p])
    BY <1>7
  <2>. QED  BY <1>8, <2>1, <2>2, ThreeIncreasing
<1>10. ToSet(polled[p] \o b \o t) \cup cut'[p] = Chunks(p)
  BY <1>2, <1>4, <1>5, <1>6, <1>7, <1>9 DEF Chunks
<1>. QED  BY <1>2, <1>3, <1>4, <1>6, <1>9, <1>10 DEF Logged, Seen, Chunks

\* A poll returns the end of the buffer, and clears it.
LEMMA PollLogged ==
  ASSUME NEW p \in Procs, NEW n \in 1 .. MAX_BUF, TableInv, Poll(p, n)
  PROVE  Logged(p)'
<1>1. Logged(p) /\ p \in DOMAIN buffer /\ p \in DOMAIN polled /\ p \in DOMAIN cut
  BY DEF TableInv
<1>. DEFINE shown == Tailed(buffer[p], n)
            q == polled[p] \o shown
            none == <<>>
<1>2. /\ buffer'[p] = none /\ polled'[p] = q
      /\ cut'[p] = cut[p] \cup (ToSet(buffer[p]) \ ToSet(shown))
      /\ pipe' = pipe /\ written' = written
  BY <1>1 DEF Poll
<1>3. /\ polled[p] \in Seq(Int) /\ buffer[p] \in Seq(Int) /\ pipe[p] \in Seq(Int)
      /\ Increasing(Seen(p)) /\ Chunks(p) = 1 .. written[p] /\ written[p] \in Nat
  BY <1>1 DEF Logged
<1>4. /\ shown \in Seq(Int) /\ ToSet(shown) \subseteq ToSet(buffer[p])
      /\ Increasing(buffer[p]) => Increasing(shown)
  <2>1. n \in Nat  BY ProcessAssumption
  <2>. QED  BY <1>3, <2>1, TailedIncreasing
<1>. HIDE DEF shown
<1>5. /\ ToSet(Seen(p)) = ToSet(polled[p]) \cup ToSet(buffer[p]) \cup ToSet(pipe[p])
      /\ Increasing(polled[p]) /\ Increasing(buffer[p]) /\ Increasing(pipe[p])
      /\ Below(ToSet(polled[p]), ToSet(buffer[p])) /\ Below(ToSet(polled[p]), ToSet(pipe[p]))
      /\ Below(ToSet(buffer[p]), ToSet(pipe[p]))
  BY <1>3, ThreeIncreasing DEF Seen
<1>6. q \in Seq(Int) /\ ToSet(q) = ToSet(polled[p]) \cup ToSet(shown)
  BY <1>3, <1>4, RangeOfConcat
<1>7. Increasing(q)
  <2>1. Below(ToSet(polled[p]), ToSet(shown))
    BY <1>4, <1>5 DEF Below
  <2>. QED  BY <1>3, <1>4, <1>5, <2>1, ConcatIncreasing
<1>8. none \in Seq(Int) /\ ToSet(none) = {} /\ Increasing(none)
  BY DEF ToSet, Increasing
<1>. HIDE DEF q, none
<1>9. Below(ToSet(q), ToSet(pipe[p])) /\ Below(ToSet(q), ToSet(none)) /\ Below(ToSet(none), ToSet(pipe[p]))
  BY <1>4, <1>5, <1>6, <1>8 DEF Below
<1>10. /\ Increasing(q \o none \o pipe[p])
       /\ ToSet(q \o none \o pipe[p]) = ToSet(q) \cup ToSet(none) \cup ToSet(pipe[p])
  <2>1. q \in Seq(Int) /\ none \in Seq(Int) /\ pipe[p] \in Seq(Int)
    BY <1>3, <1>6, <1>8
  <2>2. Increasing(none) /\ Increasing(pipe[p])
    BY <1>5, <1>8
  <2>. QED  BY <1>7, <1>9, <2>1, <2>2, ThreeIncreasing
<1>11. ToSet(q \o none \o pipe[p]) \cup cut'[p] = Chunks(p)
  BY <1>2, <1>4, <1>5, <1>6, <1>8, <1>10 DEF Chunks
<1>. QED  BY <1>2, <1>3, <1>6, <1>8, <1>10, <1>11 DEF Logged, Seen, Chunks

LEMMA TableStep ==
  ASSUME TableInv, [Next]_vars
  PROVE  TableInv'
<1>1. CASE UNCHANGED <<written, pipe, buffer, polled, cut>>
  <2>1. \A p \in Procs : Seen(p)' = Seen(p) /\ Chunks(p)' = Chunks(p)
    BY <1>1 DEF Seen, Chunks
  <2>. QED  BY <1>1, <2>1 DEF TableInv, Logged
<1>2. ASSUME NEW p \in Procs, NEW n \in 1 .. MAX_BUF, Writes(p) \/ Data(p) \/ Poll(p, n)
      PROVE  TableInv'
  <2>1. /\ DOMAIN polled' = Procs /\ DOMAIN buffer' = Procs /\ DOMAIN pipe' = Procs
        /\ DOMAIN cut' = Procs /\ DOMAIN written' = Procs
    BY <1>2 DEF TableInv, Writes, Data, Poll
  <2>2. Logged(p)'
    BY <1>2, WritesLogged, DataLogged, PollLogged
  <2>3. ASSUME NEW q \in Procs, q # p PROVE Logged(q)'
    <3>1. /\ written'[q] = written[q] /\ pipe'[q] = pipe[q] /\ buffer'[q] = buffer[q]
          /\ polled'[q] = polled[q] /\ cut'[q] = cut[q]
      BY <1>2, <2>3 DEF TableInv, Writes, Data, Poll
    <3>. QED  BY <3>1 DEF TableInv, Logged, Seen, Chunks
  <2>. QED  BY <2>1, <2>2, <2>3 DEF TableInv
<1>3. ASSUME NEW p \in Procs, Ends(p) \/ Exit(p) \/ Start(p) \/ Kill(p) \/ Send(p)
      PROVE  UNCHANGED <<written, pipe, buffer, polled, cut>>
  BY <1>3 DEF Ends, Exit, Start, Kill, Send
<1>4. CASE UNCHANGED vars
  BY <1>1, <1>4 DEF vars
<1>5. 1 \in 1 .. MAX_BUF
  BY ProcessAssumption
<1>. QED  BY <1>1, <1>2, <1>3, <1>4, <1>5 DEF Next

----------------------------------------------------------------------------
(* The command *)

LEMMA CountStep ==
  ASSUME CountInv, [Run!Next]_runVars
  PROVE  CountInv'
<1>1. MAX_BUFFER \in Nat \ {0}
  BY RunBounds DEF Run!RunAssumption
<1>2. CASE UNCHANGED <<shell, kid, output, delivered, kept, truncated>>
  BY <1>2 DEF CountInv
<1>3. ASSUME NEW k \in Kids, Run!StartsKid(k) PROVE CountInv'
  <2>1. shell # "no_spawn" /\ shell' = shell
    BY <1>3 DEF CountInv, Run!StartsKid
  <2>2. /\ UNCHANGED <<output, delivered, kept, truncated>>
        /\ DOMAIN kid' = Kids
    BY <1>3 DEF CountInv, Run!StartsKid
  <2>. QED  BY <2>1, <2>2 DEF CountInv
<1>4. ASSUME NEW k \in Kids, Run!LetsGo(k) PROVE CountInv'
  <2>1. shell # "no_spawn" /\ shell' = shell
    BY <1>4 DEF CountInv, Run!LetsGo
  <2>2. /\ UNCHANGED <<output, delivered, kept, truncated>>
        /\ DOMAIN kid' = Kids
    BY <1>4 DEF CountInv, Run!LetsGo
  <2>. QED  BY <2>1, <2>2 DEF CountInv
<1>5. CASE Run!Writes
  <2>1. shell # "no_spawn" /\ output' = output + 1
    BY <1>5 DEF CountInv, Run!Writes, Run!Holders
  <2>2. UNCHANGED <<shell, kid, delivered, kept, truncated>>
    BY <1>5 DEF Run!Writes
  <2>. QED  BY <2>1, <2>2 DEF CountInv
<1>6. CASE Run!ShellEnds
  BY <1>6 DEF CountInv, Run!ShellEnds, Run!Ends
<1>7. CASE Run!Data
  <2>1. /\ delivered < output /\ delivered' = delivered + 1
        /\ UNCHANGED <<shell, kid, output>>
    BY <1>7 DEF Run!Data
  <2>2. CASE kept < MAX_BUFFER
    <3>1. kept' = kept + 1 /\ truncated' = truncated
      BY <1>7, <2>2 DEF Run!Data
    <3>2. delivered < MAX_BUFFER /\ kept = delivered /\ truncated = FALSE
      BY <1>1, <2>2 DEF CountInv
    <3>. QED  BY <1>1, <2>1, <3>1, <3>2 DEF CountInv
  <2>3. CASE ~(kept < MAX_BUFFER)
    <3>1. kept' = kept /\ truncated' = TRUE
      BY <1>7, <2>3 DEF Run!Data
    <3>2. delivered >= MAX_BUFFER /\ kept = MAX_BUFFER
      BY <1>1, <2>3 DEF CountInv
    <3>. QED  BY <1>1, <2>1, <3>1, <3>2 DEF CountInv
  <2>. QED  BY <2>2, <2>3
<1>8. CASE Run!TimerFires
  BY <1>8 DEF CountInv, Run!TimerFires
<1>9. CASE Run!SpawnError \/ Run!Close \/ UNCHANGED runVars
  BY <1>2, <1>9 DEF Run!SpawnError, Run!Close, runVars
<1>. QED
  BY <1>3, <1>4, <1>5, <1>6, <1>7, <1>8, <1>9 DEF Run!Next, Run!CommandStep, Run!CallStep

\* After the answer nobody writes, the deadline is over, and it is not answered again.
LEMMA NothingFollows ==
  ASSUME CountInv, AnswerInv, [Run!Next]_runVars, Run!Settled
  PROVE  /\ UNCHANGED <<output, delivered, kept, truncated, timer, timedOut, result>>
         /\ shell' = shell
         /\ \A k \in Kids : kid'[k] # "holds"
<1>1. /\ shell # "running" /\ \A k \in Kids : kid[k] # "holds"
      /\ delivered = output /\ delivered \in Nat /\ timer # "armed" /\ DOMAIN kid = Kids
  BY DEF AnswerInv, CountInv
<1>2. ASSUME NEW k \in Kids, Run!StartsKid(k)
      PROVE  /\ UNCHANGED <<shell, output, delivered, kept, truncated, timer, timedOut, result>>
             /\ kid' = [kid EXCEPT ![k] = "apart"]
  BY <1>1, <1>2 DEF Run!StartsKid
<1>3. ASSUME NEW k \in Kids PROVE ~Run!LetsGo(k)
  BY <1>1 DEF Run!LetsGo
<1>4. ~Run!Writes /\ ~Run!ShellEnds
  BY <1>1 DEF Run!Writes, Run!Holders, Run!ShellEnds
<1>5. ~Run!Data
  BY <1>1 DEF Run!Data
<1>6. ~Run!TimerFires /\ ~Run!SpawnError /\ ~Run!Close
  BY <1>1 DEF Run!TimerFires, Run!SpawnError, Run!Close
<1>7. CASE UNCHANGED runVars
  BY <1>1, <1>7 DEF runVars
<1>8. ASSUME NEW k \in Kids, Run!StartsKid(k) PROVE \A j \in Kids : kid'[j] # "holds"
  BY <1>1, <1>2, <1>8
<1>. QED
  BY <1>2, <1>3, <1>4, <1>5, <1>6, <1>7, <1>8 DEF Run!Next, Run!CommandStep, Run!CallStep

LEMMA AnswerStep ==
  ASSUME CountInv, AnswerInv, [Run!Next]_runVars
  PROVE  AnswerInv'
<1>1. CASE Run!Settled
  <2>1. /\ UNCHANGED <<shell, output, delivered, kept, truncated, timer, timedOut, result>>
        /\ \A k \in Kids : kid'[k] # "holds"
    BY <1>1, NothingFollows
  <2>. QED  BY <1>1, <2>1 DEF AnswerInv, Run!Settled, Run!Marks
<1>2. CASE ~Run!Settled
  <2>1. ASSUME NEW code, Run!Finish(code)
        PROVE  result'.text = kept /\ result'.marks = Run!Marks
    BY <2>1 DEF Run!Finish
  <2>2. CASE Run!SpawnError
    <3>1. /\ UNCHANGED <<shell, kid, output, delivered, kept, truncated, timedOut>>
          /\ shell = "no_spawn" /\ Run!Finish(1) /\ Run!ClearTimer
      BY <2>2 DEF Run!SpawnError
    <3>2. delivered = output /\ \A k \in Kids : kid[k] = "none"
      BY <3>1 DEF CountInv
    <3>3. timer' # "armed" /\ (timer' = "fired" <=> timer = "fired")
      BY <3>1 DEF Run!ClearTimer
    <3>4. result'.text = kept' /\ result'.marks = Run!Marks'
      BY <2>1, <3>1 DEF Run!Marks
    <3>. QED  BY <3>1, <3>2, <3>3, <3>4 DEF AnswerInv
  <2>3. CASE Run!Close
    <3>1. /\ UNCHANGED <<shell, kid, output, delivered, kept, truncated, timedOut>>
          /\ shell # "running" /\ Run!Holders = {} /\ delivered = output
          /\ Run!Finish(Run!Code) /\ Run!ClearTimer
      BY <2>3 DEF Run!Close, Run!Gone, Run!Ends
    <3>2. \A k \in Kids : kid[k] # "holds"
      BY <3>1 DEF Run!Holders
    <3>3. timer' # "armed" /\ (timer' = "fired" <=> timer = "fired")
      BY <3>1 DEF Run!ClearTimer
    <3>4. result'.text = kept' /\ result'.marks = Run!Marks'
      BY <2>1, <3>1 DEF Run!Marks
    <3>. QED  BY <3>1, <3>2, <3>3, <3>4 DEF AnswerInv
  <2>4. CASE Run!TimerFires
    BY <1>2, <2>4 DEF AnswerInv, Run!TimerFires, Run!Settled
  <2>5. ASSUME \/ \E k \in Kids : Run!StartsKid(k) \/ Run!LetsGo(k)
               \/ Run!Writes \/ Run!ShellEnds \/ Run!Data \/ UNCHANGED runVars
        PROVE  UNCHANGED <<timer, timedOut, result>>
    BY <2>5 DEF Run!StartsKid, Run!LetsGo, Run!Writes, Run!ShellEnds, Run!Data, runVars
  <2>6. UNCHANGED <<timer, timedOut, result>> => AnswerInv'
    BY <1>2 DEF AnswerInv, Run!Settled
  <2>. QED
    BY <2>2, <2>3, <2>4, <2>5, <2>6 DEF Run!Next, Run!CommandStep, Run!CallStep
<1>. QED  BY <1>1, <1>2

----------------------------------------------------------------------------

LEMMA ProcessesInvHolds == ProcessesSpec => []ProcessesInv
<1>1. ProcessesInit => TableInv
  <2>. SUFFICES ASSUME Init PROVE TableInv
    BY DEF ProcessesInit
  <2>. DEFINE none == <<>>
  <2>1. none \in Seq(Int) /\ none \o none \o none = none /\ ToSet(none) = {} /\ Increasing(none)
    BY DEF ToSet, Increasing
  <2>2. ASSUME NEW p \in Procs
        PROVE  /\ written[p] = 0 /\ cut[p] = {}
               /\ polled[p] = none /\ buffer[p] = none /\ pipe[p] = none
    BY DEF Init
  <2>. HIDE DEF none
  <2>3. ASSUME NEW p \in Procs PROVE Logged(p)
    <3>1. Seen(p) = none  BY <2>1, <2>2 DEF Seen
    <3>2. Chunks(p) = 1 .. 0  BY <2>1, <2>2, <3>1 DEF Chunks
    <3>. QED  BY <2>1, <2>2, <3>1, <3>2 DEF Logged
  <2>4. /\ DOMAIN polled = Procs /\ DOMAIN buffer = Procs /\ DOMAIN pipe = Procs
        /\ DOMAIN cut = Procs /\ DOMAIN written = Procs
    BY DEF Init
  <2>. QED  BY <2>3, <2>4 DEF TableInv
<1>2. ProcessesInit => CountInv /\ AnswerInv
  <2>. SUFFICES ASSUME ProcessesInit PROVE CountInv /\ AnswerInv
    OBVIOUS
  <2>1. /\ kid = [k \in Kids |-> "none"]
        /\ output = 0 /\ delivered = 0 /\ kept = 0 /\ truncated = FALSE
        /\ timer = "armed" /\ timedOut = FALSE /\ ~Run!Settled
    BY DEF ProcessesInit, Run!Init, Run!Settled
  <2>2. MAX_BUFFER \in Nat \ {0}
    BY RunBounds DEF Run!RunAssumption
  <2>. QED  BY <2>1, <2>2 DEF CountInv, AnswerInv
<1>3. ProcessesInv /\ [ProcessesNext]_<<vars, runVars>> => ProcessesInv'
  <2>. SUFFICES ASSUME ProcessesInv, [ProcessesNext]_<<vars, runVars>> PROVE ProcessesInv'
    OBVIOUS
  <2>1. [Next]_vars /\ [Run!Next]_runVars
    BY DEF ProcessesNext
  <2>. QED  BY <2>1, TableStep, CountStep, AnswerStep DEF ProcessesInv
<1>. QED  BY <1>1, <1>2, <1>3, PTL DEF ProcessesSpec, ProcessesInv

\* Whatever processes write, end and are polled, killed and written to in any order, what
\* the clearing polls return is the output in order and without repetitions, and all the
\* rest of it is still to come, or was dropped by a full buffer or a tail read.
THEOREM PollsKeepTheOutput == ProcessesSpec => []OutputIsKept
<1>1. ProcessesInv => OutputIsKept
  BY DEF ProcessesInv, TableInv, Logged, OutputIsKept, PolledInOrder, NothingElseLost,
         Increasing
<1>. QED  BY <1>1, ProcessesInvHolds, PTL

\* For any number of processes the command starts and any cap: the answer of run_command is
\* all the output, or a full buffer that says that there was more, in stdout always and in
\* stderr unless the command has timed out.
THEOREM AnswersAreWhole == ProcessesSpec => []NoOutputMissed
<1>1. MAX_BUFFER \in Nat \ {0}
  BY RunBounds DEF Run!RunAssumption
<1>2. ASSUME CountInv, AnswerInv, Run!Settled
      PROVE  IF output <= MAX_BUFFER
             THEN result.text = output /\ ~result.marks.stdout /\ ~result.marks.stderr
             ELSE /\ result.text = MAX_BUFFER
                  /\ result.marks.stdout /\ (result.marks.stderr \/ timer = "fired")
  <2>1. /\ delivered = output /\ output \in Nat
        /\ result.text = kept /\ result.marks = Run!Marks
    BY <1>2 DEF AnswerInv, CountInv
  <2>2. /\ result.marks.stdout = truncated
        /\ result.marks.stderr = (truncated /\ ~timedOut)
    BY <2>1 DEF Run!Marks
  <2>3. timedOut <=> timer = "fired"
    BY <1>2 DEF AnswerInv
  <2>4. CASE output > MAX_BUFFER
    <3>1. kept = MAX_BUFFER /\ truncated = TRUE /\ ~(output <= MAX_BUFFER)
      BY <1>1, <1>2, <2>1, <2>4 DEF CountInv
    <3>2. result.marks.stdout /\ (result.marks.stderr \/ timer = "fired")
      BY <2>2, <2>3, <3>1
    <3>. QED  BY <2>1, <3>1, <3>2
  <2>5. CASE output <= MAX_BUFFER
    <3>1. kept = output /\ truncated = FALSE
      BY <1>1, <1>2, <2>1, <2>5 DEF CountInv
    <3>2. ~result.marks.stdout /\ ~result.marks.stderr
      BY <2>2, <3>1
    <3>. QED  BY <2>1, <2>5, <3>1, <3>2
  <2>. QED  BY <1>1, <2>1, <2>4, <2>5
<1>3. ProcessesInv => NoOutputMissed
  BY <1>2 DEF ProcessesInv, NoOutputMissed, Run!NoOutputMissed
<1>. QED  BY <1>3, ProcessesInvHolds, PTL

\* The answer of run_command comes last, whatever the command has started and whenever the
\* deadline strikes: no output follows it, no signal of its timer and no second answer.
THEOREM AnswersComeLast == ProcessesSpec => AnswerIsFinal
<1>1. ProcessesInv /\ [ProcessesNext]_<<vars, runVars>>
        => [Run!Settled => UNCHANGED <<output, delivered, timer, result>>]_runVars
  <2>1. [ProcessesNext]_<<vars, runVars>> => [Run!Next]_runVars
    BY DEF ProcessesNext
  <2>. QED  BY <2>1, NothingFollows DEF ProcessesInv
<1>. QED  BY <1>1, ProcessesInvHolds, PTL DEF ProcessesSpec, AnswerIsFinal, Run!AnswerIsFinal, runVars, Run!vars
=============================================================================
