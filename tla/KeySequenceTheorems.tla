------------------------ MODULE KeySequenceTheorems ------------------------
(***************************************************************************)
(* A JavaScript Map or Set iterates in insertion order; the modules keep   *)
(* its keys as a sequence without repetitions.  What the changes made to   *)
(* such a sequence (set, delete, delete the oldest) do to its keys.        *)
(*                                                                         *)
(* Queues and logs are kept as sequences too; where their entries are      *)
(* numbered as they come, that they stay in order is that they increase.   *)
(* What is under way between two that count is a chain from the count of   *)
(* the one to that of the other.                                           *)
(*                                                                         *)
(* What holds of all numbers by induction is proved with a set for the     *)
(* induction hypothesis, from the well-foundedness of <.                   *)
(***************************************************************************)
EXTENDS Integers, SequencesExt, SequenceTheorems, WellFoundedInduction, TLAPS

\* Map.set of a new key.
LEMMA KeyAdded ==
  ASSUME NEW S, NEW q \in Seq(S), IsInjective(q), NEW x \in S, x \notin Range(q)
  PROVE  /\ Append(q, x) \in Seq(S) /\ IsInjective(Append(q, x))
         /\ Range(Append(q, x)) = Range(q) \cup {x}
         /\ Len(Append(q, x)) = Len(q) + 1
<1>. DEFINE r == Append(q, x)
<1>1. /\ r \in Seq(S) /\ Len(r) = Len(q) + 1 /\ r[Len(q) + 1] = x
      /\ \A i \in 1 .. Len(q) : r[i] = q[i]
      /\ Len(q) \in Nat /\ DOMAIN q = 1 .. Len(q) /\ DOMAIN r = 1 .. Len(q) + 1
  BY AppendProperties, LenProperties
<1>2. \A i \in 1 .. Len(q) : q[i] # x
  BY <1>1 DEF Range
<1>3. IsInjective(r)
  <2>. SUFFICES ASSUME NEW a \in 1 .. Len(q) + 1, NEW b \in 1 .. Len(q) + 1, r[a] = r[b]
                PROVE  a = b
    BY <1>1 DEF IsInjective
  <2>1. CASE a \in 1 .. Len(q) /\ b \in 1 .. Len(q)
    BY <1>1, <2>1 DEF IsInjective
  <2>2. CASE a = Len(q) + 1 \/ b = Len(q) + 1
    BY <1>1, <1>2, <2>2
  <2>. QED  BY <1>1, <2>1, <2>2
<1>4. Range(r) \subseteq Range(q) \cup {x}
  <2>. SUFFICES ASSUME NEW i \in 1 .. Len(q) + 1 PROVE r[i] \in Range(q) \cup {x}
    BY <1>1 DEF Range
  <2>1. i = Len(q) + 1 \/ i \in 1 .. Len(q)  BY <1>1
  <2>. QED  BY <1>1, <2>1 DEF Range
<1>5. Range(q) \cup {x} \subseteq Range(r)
  <2>1. x \in Range(r)  BY <1>1 DEF Range
  <2>2. ASSUME NEW i \in 1 .. Len(q) PROVE q[i] \in Range(r)
    <3>1. i \in DOMAIN r /\ q[i] = r[i]  BY <1>1
    <3>. QED  BY <3>1 DEF Range
  <2>. QED  BY <1>1, <2>1, <2>2 DEF Range
<1>. QED  BY <1>1, <1>3, <1>4, <1>5

\* Map.delete of the key at position k.
LEMMA KeyRemoved ==
  ASSUME NEW S, NEW q \in Seq(S), IsInjective(q), NEW k \in 1 .. Len(q)
  PROVE  /\ RemoveAt(q, k) \in Seq(S) /\ IsInjective(RemoveAt(q, k))
         /\ Range(RemoveAt(q, k)) = Range(q) \ {q[k]}
         /\ Len(RemoveAt(q, k)) = Len(q) - 1
<1>. DEFINE n == Len(q)
            front == SubSeq(q, 1, k - 1)
            back == SubSeq(q, k + 1, n)
            r == RemoveAt(q, k)
<1>1. n \in Nat /\ DOMAIN q = 1 .. n /\ k \in 1 .. n /\ \A i \in 1 .. n : q[i] \in S
  BY LenProperties, ElementOfSeq
<1>2. /\ front \in Seq(S) /\ Len(front) = k - 1
      /\ \A i \in 1 .. k - 1 : front[i] = q[i]
  <2>1. 1 \in Int /\ k - 1 \in Int /\ \A i \in 1 .. k - 1 : q[i] \in S
    BY <1>1
  <2>. HIDE DEF n
  <2>2. /\ front \in Seq(S) /\ Len(front) = IF 1 <= k - 1 THEN k - 1 - 1 + 1 ELSE 0
        /\ \A i \in 1 .. k - 1 - 1 + 1 : front[i] = q[1 + i - 1]
    BY <2>1, SubSeqProperties
  <2>. QED  BY <1>1, <2>2
<1>3. /\ back \in Seq(S) /\ Len(back) = n - k
      /\ \A i \in 1 .. n - k : back[i] = q[k + i]
  <2>1. k + 1 \in Int /\ n \in Int /\ \A i \in k + 1 .. n : q[i] \in S
    BY <1>1
  <2>. HIDE DEF n
  <2>2. /\ back \in Seq(S) /\ Len(back) = IF k + 1 <= n THEN n - (k + 1) + 1 ELSE 0
        /\ \A i \in 1 .. n - (k + 1) + 1 : back[i] = q[k + 1 + i - 1]
    BY <2>1, SubSeqProperties
  <2>. QED  BY <1>1, <2>2
<1>4. r = front \o back  BY DEF RemoveAt
<1>. HIDE DEF front, back, r, n
<1>5. /\ r \in Seq(S) /\ Len(r) = n - 1
      /\ \A i \in 1 .. n - 1 : r[i] = IF i < k THEN q[i] ELSE q[i + 1]
  <2>1. /\ r \in Seq(S) /\ Len(r) = Len(front) + Len(back)
        /\ \A i \in 1 .. Len(front) + Len(back) :
             r[i] = IF i <= Len(front) THEN front[i] ELSE back[i - Len(front)]
    BY <1>2, <1>3, <1>4, ConcatProperties
  <2>2. Len(r) = n - 1  BY <1>1, <1>2, <1>3, <2>1
  <2>3. ASSUME NEW i \in 1 .. n - 1 PROVE r[i] = IF i < k THEN q[i] ELSE q[i + 1]
    <3>1. CASE i < k  BY <1>1, <1>2, <1>3, <2>1, <3>1
    <3>2. CASE ~(i < k)
      <4>1. i - (k - 1) \in 1 .. n - k  BY <1>1, <3>2
      <4>2. back[i - (k - 1)] = q[k + (i - (k - 1))]  BY <1>3, <4>1
      <4>3. k + (i - (k - 1)) = i + 1  BY <1>1
      <4>. QED  BY <1>1, <1>2, <1>3, <2>1, <3>2, <4>2, <4>3
    <3>. QED  BY <3>1, <3>2
  <2>. QED  BY <2>1, <2>2, <2>3
<1>6. DOMAIN r = 1 .. n - 1  BY <1>5, LenProperties
<1>7. IsInjective(r)
  <2>. SUFFICES ASSUME NEW a \in 1 .. n - 1, NEW b \in 1 .. n - 1, r[a] = r[b]
                PROVE  a = b
    BY <1>6 DEF IsInjective
  <2>1. \A i, j \in 1 .. n : q[i] = q[j] => i = j  BY <1>1 DEF IsInjective
  <2>2. a \in 1 .. n /\ b \in 1 .. n /\ a + 1 \in 1 .. n /\ b + 1 \in 1 .. n  BY <1>1
  <2>3. CASE a < k /\ b < k  BY <1>5, <2>1, <2>2, <2>3
  <2>4. CASE a < k /\ ~(b < k)
    <3>1. q[a] = q[b + 1]  BY <1>5, <2>4
    <3>2. a = b + 1  BY <2>1, <2>2, <3>1
    <3>. QED  BY <1>1, <2>4, <3>2
  <2>5. CASE ~(a < k) /\ b < k
    <3>1. q[a + 1] = q[b]  BY <1>5, <2>5
    <3>2. a + 1 = b  BY <2>1, <2>2, <3>1
    <3>. QED  BY <1>1, <2>5, <3>2
  <2>6. CASE ~(a < k) /\ ~(b < k)
    <3>1. q[a + 1] = q[b + 1]  BY <1>5, <2>6
    <3>2. a + 1 = b + 1  BY <2>1, <2>2, <3>1
    <3>. QED  BY <3>2
  <2>. QED  BY <2>3, <2>4, <2>5, <2>6
<1>8. Range(r) \subseteq Range(q) \ {q[k]}
  <2>. SUFFICES ASSUME NEW i \in 1 .. n - 1 PROVE r[i] \in Range(q) \ {q[k]}
    BY <1>6 DEF Range
  <2>1. \A a, b \in 1 .. n : q[a] = q[b] => a = b  BY <1>1 DEF IsInjective
  <2>2. i \in 1 .. n /\ i + 1 \in 1 .. n  BY <1>1
  <2>3. PICK j \in 1 .. n : r[i] = q[j] /\ j # k
    <3>1. CASE i < k  BY <1>1, <1>5, <2>2, <3>1
    <3>2. CASE ~(i < k)  
      <4>1. r[i] = q[i + 1] /\ i + 1 # k  BY <1>1, <1>5, <3>2
      <4>. QED  BY <2>2, <4>1
    <3>. QED  BY <3>1, <3>2
  <2>4. q[j] # q[k]  BY <1>1, <2>1, <2>3
  <2>. QED  BY <1>1, <2>3, <2>4 DEF Range
<1>9. Range(q) \ {q[k]} \subseteq Range(r)
  <2>. SUFFICES ASSUME NEW j \in 1 .. n, j # k PROVE q[j] \in Range(r)
    BY <1>1 DEF Range
  <2>1. CASE j < k
    <3>1. j \in 1 .. n - 1 /\ r[j] = q[j]  BY <1>1, <1>5, <2>1
    <3>. QED  BY <1>6, <3>1 DEF Range
  <2>2. CASE ~(j < k)
    <3>1. j - 1 \in 1 .. n - 1 /\ ~(j - 1 < k)  BY <1>1, <2>2
    <3>2. r[j - 1] = q[j]  BY <1>1, <1>5, <3>1
    <3>. QED  BY <1>6, <3>1, <3>2 DEF Range
  <2>. QED  BY <2>1, <2>2
<1>. QED  BY <1>5, <1>7, <1>8, <1>9 DEF n, r

\* Map.delete of the oldest key.
LEMMA OldestKeyRemoved ==
  ASSUME NEW S, NEW q \in Seq(S), IsInjective(q), q # <<>>
  PROVE  /\ Tail(q) \in Seq(S) /\ IsInjective(Tail(q))
         /\ Head(q) \in S /\ Head(q) \in Range(q)
         /\ Range(Tail(q)) = Range(q) \ {Head(q)}
         /\ Len(Tail(q)) = Len(q) - 1
<1>1. Len(q) \in Nat /\ Len(q) # 0 /\ DOMAIN q = 1 .. Len(q)
  BY LenProperties, EmptySeq
<1>2. 1 \in 1 .. Len(q)  BY <1>1
<1>3. RemoveAt(q, 1) = Tail(q)
  <2>1. SubSeq(q, 1, 0) = <<>>  BY SubSeqEmpty
  <2>2. SubSeq(q, 2, Len(q)) = Tail(q)  BY TailIsSubSeq
  <2>3. Tail(q) \in Seq(S)  BY HeadTailProperties
  <2>4. RemoveAt(q, 1) = <<>> \o Tail(q)  BY <2>1, <2>2 DEF RemoveAt
  <2>. QED  BY <2>3, <2>4, ConcatEmptySeq
<1>4. Head(q) = q[1]  BY <1>1
<1>5. q[1] \in S /\ q[1] \in Range(q)  BY <1>1, <1>2, ElementOfSeq DEF Range
<1>6. /\ RemoveAt(q, 1) \in Seq(S) /\ IsInjective(RemoveAt(q, 1))
      /\ Range(RemoveAt(q, 1)) = Range(q) \ {q[1]}
      /\ Len(RemoveAt(q, 1)) = Len(q) - 1
  BY <1>2, KeyRemoved
<1>. QED  BY <1>3, <1>4, <1>5, <1>6

\* Map.delete of a key that may not be there, or indexOf and splice.
LEMMA FirstRemoved ==
  ASSUME NEW S, NEW q \in Seq(S), IsInjective(q), NEW x
  PROVE  /\ RemoveFirst(q, x) \in Seq(S) /\ IsInjective(RemoveFirst(q, x))
         /\ ToSet(RemoveFirst(q, x)) = ToSet(q) \ {x}
<1>1. DOMAIN q = 1 .. Len(q)
  BY LenProperties
<1>2. CASE \A i \in 1 .. Len(q) : q[i] # x
  BY <1>1, <1>2 DEF RemoveFirst, ToSet
<1>3. ASSUME NEW k \in 1 .. Len(q), q[k] = x
      PROVE  /\ RemoveFirst(q, x) = RemoveAt(q, k)
             /\ ToSet(q) = Range(q)
  <2>1. {i \in 1 .. Len(q) : q[i] = x} = {k}
    BY <1>1, <1>3 DEF IsInjective
  <2>2. Min({k}) = k
    BY DEF Min
  <2>. QED  BY <1>3, <2>1, <2>2 DEF RemoveFirst, SelectInSeq, ToSet, Range
<1>4. ASSUME NEW k \in 1 .. Len(q), q[k] = x
      PROVE  /\ RemoveFirst(q, x) \in Seq(S) /\ IsInjective(RemoveFirst(q, x))
             /\ ToSet(RemoveFirst(q, x)) = ToSet(q) \ {x}
  <2>1. /\ RemoveAt(q, k) \in Seq(S) /\ IsInjective(RemoveAt(q, k))
        /\ Range(RemoveAt(q, k)) = Range(q) \ {q[k]}
    BY KeyRemoved
  <2>2. ToSet(RemoveAt(q, k)) = Range(RemoveAt(q, k))
    BY DEF ToSet, Range
  <2>. QED  BY <1>3, <1>4, <2>1, <2>2
<1>. QED  BY <1>2, <1>4

----------------------------------------------------------------------------
(* Queues and logs: sequences of numbers that only grow. *)

Increasing(s) == \A i, j \in DOMAIN s : i < j => s[i] < s[j]
Below(S, T) == \A x \in S, y \in T : x < y

LEMMA RangeOfConcat ==
  ASSUME NEW s \in Seq(Int), NEW t \in Seq(Int)
  PROVE  /\ s \o t \in Seq(Int)
         /\ ToSet(s \o t) = ToSet(s) \cup ToSet(t)
<1>1. /\ s \o t \in Seq(Int)
      /\ \A i \in 1 .. Len(s) + Len(t) :
           (s \o t)[i] = IF i <= Len(s) THEN s[i] ELSE t[i - Len(s)]
      /\ DOMAIN (s \o t) = 1 .. Len(s) + Len(t)
  BY ConcatProperties, LenProperties
<1>2. /\ DOMAIN s = 1 .. Len(s) /\ DOMAIN t = 1 .. Len(t)
      /\ Len(s) \in Nat /\ Len(t) \in Nat
  BY LenProperties
<1>. DEFINE u == s \o t
<1>. HIDE DEF u
<1>3. \A i \in DOMAIN u : u[i] \in ToSet(s) \cup ToSet(t)
  BY <1>1, <1>2 DEF u, ToSet
<1>4. \A i \in DOMAIN s : i \in DOMAIN u /\ u[i] = s[i]
  BY <1>1, <1>2 DEF u
<1>5. \A i \in DOMAIN t : Len(s) + i \in DOMAIN u /\ u[Len(s) + i] = t[i]
  BY <1>1, <1>2 DEF u
<1>6. ToSet(u) = ToSet(s) \cup ToSet(t)
  BY <1>3, <1>4, <1>5 DEF ToSet
<1>. QED  BY <1>1, <1>6 DEF u

LEMMA ConcatIncreasing ==
  ASSUME NEW s \in Seq(Int), NEW t \in Seq(Int)
  PROVE  Increasing(s \o t) <=>
           Increasing(s) /\ Increasing(t) /\ Below(ToSet(s), ToSet(t))
<1>. DEFINE u == s \o t
<1>1. /\ \A i \in 1 .. Len(s) + Len(t) : u[i] = IF i <= Len(s) THEN s[i] ELSE t[i - Len(s)]
      /\ DOMAIN u = 1 .. Len(s) + Len(t)
  BY ConcatProperties, LenProperties
<1>2. /\ DOMAIN s = 1 .. Len(s) /\ DOMAIN t = 1 .. Len(t)
      /\ Len(s) \in Nat /\ Len(t) \in Nat
  BY LenProperties
<1>. HIDE DEF u
<1>3. ASSUME Increasing(u) PROVE Increasing(s) /\ Increasing(t) /\ Below(ToSet(s), ToSet(t))
  <2>1. \A i \in DOMAIN s : i \in DOMAIN u /\ u[i] = s[i]
    BY <1>1, <1>2
  <2>2. \A i \in DOMAIN t : Len(s) + i \in DOMAIN u /\ u[Len(s) + i] = t[i]
    BY <1>1, <1>2
  <2>3. Increasing(s)
    BY <1>2, <1>3, <2>1 DEF Increasing
  <2>4. Increasing(t)
    BY <1>2, <1>3, <2>2 DEF Increasing
  <2>5. \A i \in DOMAIN s, j \in DOMAIN t : s[i] < t[j]
    BY <1>2, <1>3, <2>1, <2>2 DEF Increasing
  <2>. QED  BY <2>3, <2>4, <2>5 DEF Below, ToSet
<1>4. ASSUME Increasing(s), Increasing(t), Below(ToSet(s), ToSet(t)) PROVE Increasing(u)
  <2>. SUFFICES ASSUME NEW i \in DOMAIN u, NEW j \in DOMAIN u, i < j PROVE u[i] < u[j]
    BY DEF Increasing
  <2>1. CASE j <= Len(s)
    BY <1>1, <1>2, <1>4, <2>1 DEF Increasing
  <2>2. CASE i > Len(s)
    <3>. DEFINE a == i - Len(s)
                b == j - Len(s)
    <3>1. a \in DOMAIN t /\ b \in DOMAIN t /\ a < b
      BY <1>1, <1>2, <2>2
    <3>2. u[i] = t[a] /\ u[j] = t[b]
      BY <1>1, <1>2, <2>2
    <3>. HIDE DEF a, b
    <3>. QED  BY <1>4, <3>1, <3>2 DEF Increasing
  <2>3. CASE i <= Len(s) /\ j > Len(s)
    <3>1. s[i] \in ToSet(s) /\ t[j - Len(s)] \in ToSet(t)
      BY <1>1, <1>2, <2>3 DEF ToSet
    <3>2. u[i] = s[i] /\ u[j] = t[j - Len(s)]
      BY <1>1, <1>2, <2>3
    <3>3. \A x \in ToSet(s), y \in ToSet(t) : x < y
      BY <1>4 DEF Below
    <3>. QED  BY <3>1, <3>2, <3>3
  <2>. QED  BY <1>1, <1>2, <2>1, <2>2, <2>3
<1>. QED  BY <1>3, <1>4 DEF u

\* A number after the last one.
LEMMA AppendIncreasing ==
  ASSUME NEW s \in Seq(Int), NEW x \in Int
  PROVE  /\ Append(s, x) \in Seq(Int)
         /\ ToSet(Append(s, x)) = ToSet(s) \cup {x}
         /\ Increasing(Append(s, x)) <=> Increasing(s) /\ Below(ToSet(s), {x})
<1>1. Append(s, x) = s \o <<x>>
  BY AppendIsConcat
<1>. DEFINE t == <<x>>
<1>2. t \in Seq(Int) /\ ToSet(t) = {x} /\ Increasing(t)
  BY DEF ToSet, Increasing
<1>. HIDE DEF t
<1>3. s \o t \in Seq(Int) /\ ToSet(s \o t) = ToSet(s) \cup {x}
  BY <1>2, RangeOfConcat
<1>4. Increasing(s \o t) <=> Increasing(s) /\ Increasing(t) /\ Below(ToSet(s), ToSet(t))
  BY <1>2, ConcatIncreasing
<1>5. Append(s, x) = s \o t
  BY <1>1 DEF t
<1>. QED  BY <1>2, <1>3, <1>4, <1>5

\* What is left of it at the end, or in between.
LEMMA PartIncreasing ==
  ASSUME NEW s \in Seq(Int), NEW m \in Nat \ {0}, NEW n \in Nat, n <= Len(s)
  PROVE  /\ SubSeq(s, m, n) \in Seq(Int)
         /\ ToSet(SubSeq(s, m, n)) \subseteq ToSet(s)
         /\ Increasing(s) => Increasing(SubSeq(s, m, n))
<1>. DEFINE r == SubSeq(s, m, n)
<1>1. DOMAIN s = 1 .. Len(s) /\ Len(s) \in Nat /\ \A i \in 1 .. Len(s) : s[i] \in Int
  BY LenProperties, ElementOfSeq
<1>2. /\ r \in Seq(Int)
      /\ Len(r) = IF m <= n THEN n - m + 1 ELSE 0
      /\ \A i \in 1 .. n - m + 1 : r[i] = s[m + i - 1]
  BY <1>1, SubSeqProperties
<1>3. DOMAIN r = 1 .. Len(r)
  BY <1>2, LenProperties
<1>. HIDE DEF r
<1>4. \A i \in DOMAIN r : i \in Nat /\ m + i - 1 \in DOMAIN s /\ r[i] = s[m + i - 1]
  <2>. SUFFICES ASSUME NEW i \in DOMAIN r
                PROVE  i \in Nat /\ m + i - 1 \in DOMAIN s /\ r[i] = s[m + i - 1]
    OBVIOUS
  <2>1. i \in 1 .. Len(r) /\ m <= n
    BY <1>2, <1>3
  <2>2. i \in 1 .. n - m + 1
    BY <1>2, <2>1
  <2>3. m + i - 1 \in 1 .. Len(s)
    BY <1>1, <2>2
  <2>4. r[i] = s[m + i - 1]
    BY <1>2, <2>2
  <2>. QED  BY <1>1, <2>2, <2>3, <2>4
<1>5. ToSet(r) \subseteq ToSet(s)
  BY <1>4 DEF ToSet
<1>6. Increasing(s) => Increasing(r)
  BY <1>1, <1>4 DEF Increasing
<1>. QED  BY <1>2, <1>5, <1>6 DEF r

\* The oldest number is taken off.
LEMMA TailIncreasing ==
  ASSUME NEW s \in Seq(Int), s # <<>>
  PROVE  /\ Tail(s) \in Seq(Int) /\ Head(s) \in Int
         /\ ToSet(s) = {Head(s)} \cup ToSet(Tail(s))
         /\ Increasing(s) => Increasing(Tail(s)) /\ Below({Head(s)}, ToSet(Tail(s)))
<1>1. /\ Head(s) \in Int /\ Tail(s) \in Seq(Int)
      /\ <<Head(s)>> \in Seq(Int)
  BY HeadTailProperties
<1>2. s = <<Head(s)>> \o Tail(s)
  <2>1. Len(s) \in Nat \ {0} /\ Head(s) = s[1]
    BY EmptySeq
  <2>2. SubSeq(s, 1, Len(s)) = s
    BY SubSeqFull
  <2>3. SubSeq(s, 1, Len(s)) = <<s[1]>> \o SubSeq(s, 2, Len(s))
    BY <2>1, SubSeqRecursiveFirst
  <2>. QED  BY <2>1, <2>2, <2>3, TailIsSubSeq
<1>3. ToSet(<<Head(s)>>) = {Head(s)}
  BY DEF ToSet
<1>. DEFINE h == <<Head(s)>>
            t == Tail(s)
<1>. HIDE DEF h, t
<1>4. h \in Seq(Int) /\ t \in Seq(Int) /\ ToSet(h) = {Head(s)} /\ s = h \o t
  BY <1>1, <1>2, <1>3 DEF h, t
<1>5. ToSet(h \o t) = ToSet(h) \cup ToSet(t)
  BY <1>4, RangeOfConcat
<1>6. Increasing(h \o t) => Increasing(t) /\ Below(ToSet(h), ToSet(t))
  BY <1>4, ConcatIncreasing
<1>7. /\ ToSet(s) = {Head(s)} \cup ToSet(t)
      /\ Increasing(s) => Increasing(t) /\ Below({Head(s)}, ToSet(t))
  BY <1>4, <1>5, <1>6
<1>. QED  BY <1>1, <1>7 DEF t

LEMMA ThreeIncreasing ==
  ASSUME NEW a \in Seq(Int), NEW b \in Seq(Int), NEW c \in Seq(Int)
  PROVE  /\ a \o b \o c \in Seq(Int)
         /\ ToSet(a \o b \o c) = ToSet(a) \cup ToSet(b) \cup ToSet(c)
         /\ Increasing(a \o b \o c) <=>
              /\ Increasing(a) /\ Increasing(b) /\ Increasing(c)
              /\ Below(ToSet(a), ToSet(b)) /\ Below(ToSet(a), ToSet(c))
              /\ Below(ToSet(b), ToSet(c))
<1>1. a \o b \in Seq(Int) /\ ToSet(a \o b) = ToSet(a) \cup ToSet(b)
  BY RangeOfConcat
<1>2. Below(ToSet(a \o b), ToSet(c)) <=> Below(ToSet(a), ToSet(c)) /\ Below(ToSet(b), ToSet(c))
  BY <1>1 DEF Below
<1>3. Increasing(a \o b) <=> Increasing(a) /\ Increasing(b) /\ Below(ToSet(a), ToSet(b))
  BY ConcatIncreasing
<1>. QED  BY <1>1, <1>2, <1>3, RangeOfConcat, ConcatIncreasing

----------------------------------------------------------------------------
(* What is under way *)

\* Each element of q leads from one number to the next, the first from a and the last to
\* z, as the triples of R say.
Chain(q, R, a, z) ==
  \E b \in [0 .. Len(q) -> Int] :
    /\ b[0] = a /\ b[Len(q)] = z
    /\ \A i \in 1 .. Len(q) : <<b[i - 1], q[i], b[i]>> \in R

LEMMA ChainIsEmpty ==
  ASSUME NEW R, NEW a \in Int
  PROVE  Chain(<<>>, R, a, a)
<1>. DEFINE b == [i \in 0 .. 0 |-> a]
<1>1. Len(<<>>) = 0
  OBVIOUS
<1>2. b \in [0 .. 0 -> Int] /\ b[0] = a
  OBVIOUS
<1>. HIDE DEF b
<1>3. /\ b \in [0 .. Len(<<>>) -> Int] /\ b[Len(<<>>)] = a
      /\ \A i \in 1 .. Len(<<>>) : <<b[i - 1], <<>>[i], b[i]>> \in R
  BY <1>1, <1>2
<1>. QED  BY <1>2, <1>3, Zenon DEF Chain

LEMMA ChainGrows ==
  ASSUME NEW S, NEW q \in Seq(S), NEW e \in S, NEW R,
         NEW a \in Int, NEW y \in Int, NEW z \in Int,
         Chain(q, R, a, y), <<y, e, z>> \in R
  PROVE  Chain(Append(q, e), R, a, z)
<1>1. PICK b \in [0 .. Len(q) -> Int] :
        /\ b[0] = a /\ b[Len(q)] = y
        /\ \A i \in 1 .. Len(q) : <<b[i - 1], q[i], b[i]>> \in R
  BY DEF Chain
<1>. DEFINE p == Append(q, e)
            c == [i \in 0 .. Len(q) + 1 |-> IF i = Len(q) + 1 THEN z ELSE b[i]]
<1>2. /\ Len(q) \in Nat /\ Len(p) = Len(q) + 1 /\ p[Len(q) + 1] = e
      /\ \A i \in 1 .. Len(q) : p[i] = q[i]
  OBVIOUS
<1>3. /\ c \in [0 .. Len(q) + 1 -> Int] /\ c[0] = a /\ c[Len(q) + 1] = z
      /\ \A i \in 0 .. Len(q) : c[i] = b[i]
  BY <1>1, <1>2
<1>. HIDE DEF p, c
<1>4. ASSUME NEW i \in 1 .. Len(q) + 1 PROVE <<c[i - 1], p[i], c[i]>> \in R
  <2>1. CASE i = Len(q) + 1
    <3>1. c[i - 1] = y /\ c[i] = z /\ p[i] = e
      BY <1>1, <1>2, <1>3, <2>1
    <3>. QED  BY <3>1
  <2>2. CASE i \in 1 .. Len(q)
    <3>1. c[i - 1] = b[i - 1] /\ c[i] = b[i] /\ p[i] = q[i]
      BY <1>2, <1>3, <2>2
    <3>2. <<b[i - 1], q[i], b[i]>> \in R
      BY <1>1, <2>2
    <3>. QED  BY <3>1, <3>2
  <2>. QED  BY <1>2, <2>1, <2>2
<1>. QED  BY <1>2, <1>3, <1>4 DEF Chain, p

LEMMA ChainShrinks ==
  ASSUME NEW S, NEW q \in Seq(S), q # <<>>, NEW R, NEW a, NEW z, Chain(q, R, a, z)
  PROVE  \E y \in Int : <<a, Head(q), y>> \in R /\ Chain(Tail(q), R, y, z)
<1>1. PICK b \in [0 .. Len(q) -> Int] :
        /\ b[0] = a /\ b[Len(q)] = z
        /\ \A i \in 1 .. Len(q) : <<b[i - 1], q[i], b[i]>> \in R
  BY DEF Chain
<1>. DEFINE p == Tail(q)
            c == [i \in 0 .. Len(q) - 1 |-> b[i + 1]]
<1>2. /\ Len(q) \in Nat \ {0} /\ Len(p) = Len(q) - 1 /\ Head(q) = q[1]
      /\ \A i \in 1 .. Len(q) - 1 : p[i] = q[i + 1]
  OBVIOUS
<1>3. /\ c \in [0 .. Len(q) - 1 -> Int] /\ c[0] = b[1] /\ c[Len(q) - 1] = z
      /\ \A i \in 0 .. Len(q) - 1 : c[i] = b[i + 1]
  BY <1>1, <1>2
<1>. HIDE DEF p, c
<1>4. ASSUME NEW i \in 1 .. Len(q) - 1 PROVE <<c[i - 1], p[i], c[i]>> \in R
  <2>1. i + 1 \in 1 .. Len(q) /\ i - 1 \in 0 .. Len(q) - 1 /\ (i - 1) + 1 = i /\ (i + 1) - 1 = i
    BY <1>2
  <2>2. c[i - 1] = b[i] /\ c[i] = b[i + 1] /\ p[i] = q[i + 1]
    BY <1>2, <1>3, <2>1
  <2>3. <<b[(i + 1) - 1], q[i + 1], b[i + 1]>> \in R
    BY <1>1, <2>1
  <2>. QED  BY <2>1, <2>2, <2>3
<1>5. b[1] \in Int /\ <<a, Head(q), b[1]>> \in R
  <2>1. 1 \in 1 .. Len(q) /\ 1 - 1 = 0
    BY <1>2
  <2>2. <<b[1 - 1], q[1], b[1]>> \in R /\ b[1] \in Int
    BY <1>1, <2>1
  <2>. QED  BY <1>1, <1>2, <2>1, <2>2
<1>6. Chain(p, R, b[1], z)
  BY <1>2, <1>3, <1>4 DEF Chain
<1>. QED  BY <1>5, <1>6 DEF p

\* A chunk leaves the wire for a buffer that is read before what is still under way.
LEMMA JoinedAgain ==
  ASSUME NEW S, NEW w \in Seq(S), NEW k \in 0 .. Len(w)
  PROVE  /\ SubSeq(w, 1, k) \in Seq(S) /\ SubSeq(w, k + 1, Len(w)) \in Seq(S)
         /\ SubSeq(w, 1, k) \o SubSeq(w, k + 1, Len(w)) = w
<1>. DEFINE p == SubSeq(w, 1, k)
            r == SubSeq(w, k + 1, Len(w))
<1>1. Len(w) \in Nat /\ k \in Int /\ \A i \in 1 .. Len(w) : w[i] \in S
  OBVIOUS
<1>2. /\ p \in Seq(S) /\ Len(p) = k
      /\ \A i \in 1 .. k : p[i] = w[i]
  BY <1>1
<1>3. /\ r \in Seq(S) /\ Len(r) = Len(w) - k
      /\ \A i \in 1 .. Len(w) - k : r[i] = w[k + i]
  BY <1>1
<1>. HIDE DEF p, r
<1>4. /\ p \o r \in Seq(S) /\ Len(p \o r) = Len(w)
      /\ \A i \in 1 .. Len(w) : (p \o r)[i] = w[i]
  <2>1. /\ p \o r \in Seq(S) /\ Len(p \o r) = Len(p) + Len(r)
        /\ \A i \in 1 .. Len(p) + Len(r) :
             (p \o r)[i] = IF i <= Len(p) THEN p[i] ELSE r[i - Len(p)]
    BY <1>2, <1>3, ConcatProperties, Zenon
  <2>2. Len(p) = k /\ Len(p) + Len(r) = Len(w)
    BY <1>1, <1>2, <1>3
  <2>3. ASSUME NEW i \in 1 .. Len(w) PROVE (p \o r)[i] = w[i]
    <3>1. CASE i <= k
      BY <1>1, <1>2, <2>1, <2>2, <3>1
    <3>2. CASE ~(i <= k)
      <4>1. i - k \in 1 .. Len(w) - k /\ k + (i - k) = i
        BY <1>1, <3>2
      <4>. QED  BY <1>3, <2>1, <2>2, <3>2, <4>1
    <3>. QED  BY <3>1, <3>2
  <2>. QED  BY <2>1, <2>2, <2>3
<1>5. p \o r = w
  BY <1>1, <1>4, SeqEqual
<1>. QED  BY <1>2, <1>3, <1>5 DEF p, r

LEMMA JoinedTail ==
  ASSUME NEW S, NEW p \in Seq(S), NEW w \in Seq(S), p # <<>>
  PROVE  /\ p \o w \in Seq(S) /\ p \o w # <<>> /\ Head(p \o w) = Head(p)
         /\ Tail(p) \in Seq(S) /\ Tail(p) \o w = Tail(p \o w)
<1>. DEFINE q == p \o w
<1>1. /\ Len(p) \in Nat \ {0} /\ Len(w) \in Nat
      /\ q \in Seq(S) /\ Len(q) = Len(p) + Len(w)
      /\ \A i \in 1 .. Len(p) + Len(w) : q[i] = IF i <= Len(p) THEN p[i] ELSE w[i - Len(p)]
  OBVIOUS
<1>2. /\ Tail(p) \in Seq(S) /\ Len(Tail(p)) = Len(p) - 1
      /\ \A i \in 1 .. Len(p) - 1 : Tail(p)[i] = p[i + 1]
  BY <1>1
<1>. DEFINE t == Tail(p)
<1>. HIDE DEF q, t
<1>3. /\ q # <<>> /\ Head(q) = Head(p)
      /\ Tail(q) \in Seq(S) /\ Len(Tail(q)) = Len(q) - 1
      /\ \A i \in 1 .. Len(q) - 1 : Tail(q)[i] = q[i + 1]
  <2>1. Len(q) >= 1 /\ q \in Seq(S) /\ q[1] = p[1]
    BY <1>1
  <2>2. q # <<>> /\ Head(q) = q[1] /\ Head(p) = p[1]
    BY <2>1
  <2>3. /\ Tail(q) \in Seq(S) /\ Len(Tail(q)) = Len(q) - 1
        /\ \A i \in 1 .. Len(q) - 1 : Tail(q)[i] = q[i + 1]
    BY <2>1, <2>2
  <2>. QED  BY <2>1, <2>2, <2>3
<1>4. /\ t \o w \in Seq(S) /\ Len(t \o w) = Len(q) - 1
      /\ \A i \in 1 .. Len(q) - 1 : (t \o w)[i] = Tail(q)[i]
  BY <1>1, <1>2, <1>3 DEF t
<1>5. t \o w = Tail(q)
  BY <1>3, <1>4, SeqEqual
<1>. QED  BY <1>1, <1>2, <1>3, <1>5 DEF q, t

LEMMA JoinedAppend ==
  ASSUME NEW S, NEW p \in Seq(S), NEW w \in Seq(S), NEW e \in S
  PROVE  p \o w \in Seq(S) /\ p \o Append(w, e) = Append(p \o w, e)
<1>1. /\ p \o w \in Seq(S) /\ Len(p \o w) = Len(p) + Len(w)
      /\ Len(p) \in Nat /\ Len(w) \in Nat
  OBVIOUS
<1>. DEFINE q == p \o w
            v == Append(w, e)
<1>2. /\ v \in Seq(S) /\ Len(v) = Len(w) + 1
      /\ \A i \in 1 .. Len(w) + 1 : v[i] = IF i = Len(w) + 1 THEN e ELSE w[i]
  BY <1>1
<1>3. \A i \in 1 .. Len(p) + Len(w) : q[i] = IF i <= Len(p) THEN p[i] ELSE w[i - Len(p)]
  BY <1>1
<1>. HIDE DEF q, v
<1>4. /\ p \o v \in Seq(S) /\ Len(p \o v) = Len(q) + 1
      /\ \A i \in 1 .. Len(q) + 1 : (p \o v)[i] = IF i <= Len(p) THEN p[i] ELSE v[i - Len(p)]
  BY <1>1, <1>2 DEF q
<1>5. /\ Append(q, e) \in Seq(S) /\ Len(Append(q, e)) = Len(q) + 1
      /\ \A i \in 1 .. Len(q) + 1 : Append(q, e)[i] = IF i = Len(q) + 1 THEN e ELSE q[i]
  BY <1>1 DEF q
<1>6. ASSUME NEW i \in 1 .. Len(q) + 1 PROVE (p \o v)[i] = Append(q, e)[i]
  <2>1. Len(q) = Len(p) + Len(w) /\ Len(p) \in Nat /\ Len(w) \in Nat
    BY <1>1 DEF q
  <2>2. CASE i <= Len(p)
    <3>1. i \in 1 .. Len(p) + Len(w) /\ i # Len(q) + 1
      BY <2>1, <2>2
    <3>. QED  BY <1>3, <1>4, <1>5, <2>2, <3>1
  <2>3. CASE i > Len(p) /\ i # Len(q) + 1
    <3>1. /\ i \in 1 .. Len(p) + Len(w) /\ ~(i <= Len(p))
          /\ i - Len(p) \in 1 .. Len(w) + 1 /\ i - Len(p) # Len(w) + 1
      BY <2>1, <2>3
    <3>2. v[i - Len(p)] = w[i - Len(p)]
      BY <1>2, <3>1
    <3>3. q[i] = w[i - Len(p)]
      BY <1>3, <3>1
    <3>. QED  BY <1>4, <1>5, <2>3, <3>1, <3>2, <3>3
  <2>4. CASE i = Len(q) + 1
    <3>1. i - Len(p) = Len(w) + 1 /\ i - Len(p) \in 1 .. Len(w) + 1 /\ ~(i <= Len(p))
      BY <2>1, <2>4
    <3>2. v[i - Len(p)] = e
      BY <1>2, <3>1
    <3>. QED  BY <1>4, <1>5, <2>4, <3>1, <3>2
  <2>5. i \in Int /\ Len(q) \in Int
    BY <2>1
  <2>6. i <= Len(p) \/ i = Len(q) + 1 \/ (i > Len(p) /\ i # Len(q) + 1)
    BY <2>1, <2>5
  <2>. QED  BY <2>2, <2>3, <2>4, <2>6, Zenon
<1>7. p \o v = Append(q, e)
  BY <1>4, <1>5, <1>6, SeqEqual
<1>. QED  BY <1>1, <1>7 DEF q, v

\* A chunk goes from the wire to an empty buffer.
LEMMA ChunkArrives ==
  ASSUME NEW S, NEW w \in Seq(S), NEW k \in 0 .. Len(w), NEW R, NEW a, NEW z,
         Chain(<<>> \o w, R, a, z)
  PROVE  /\ SubSeq(w, 1, k) \in Seq(S) /\ SubSeq(w, k + 1, Len(w)) \in Seq(S)
         /\ Chain(SubSeq(w, 1, k) \o SubSeq(w, k + 1, Len(w)), R, a, z)
<1>1. <<>> \o w = w
  BY ConcatEmptySeq
<1>. QED  BY <1>1, JoinedAgain

\* What the reader does not count may come in any order.
LEMMA ChainOfPlain ==
  ASSUME NEW P, NEW q \in Seq(P), NEW R, NEW a \in Int, \A e \in P : <<a, e, a>> \in R
  PROVE  Chain(q, R, a, a)
<1>. DEFINE b == [i \in 0 .. Len(q) |-> a]
<1>1. Len(q) \in Nat /\ \A i \in 1 .. Len(q) : q[i] \in P
  OBVIOUS
<1>2. /\ b \in [0 .. Len(q) -> Int] /\ b[0] = a /\ b[Len(q)] = a
      /\ \A i \in 1 .. Len(q) : b[i - 1] = a /\ b[i] = a
  BY <1>1
<1>. HIDE DEF b
<1>3. ASSUME NEW i \in 1 .. Len(q) PROVE <<b[i - 1], q[i], b[i]>> \in R
  <2>1. <<a, q[i], a>> \in R
    BY <1>1
  <2>. QED  BY <1>2, <2>1
<1>. QED  BY <1>2, <1>3 DEF Chain

\* The kth message is number k.
Numbered(seq) == seq \in Seq(Nat) /\ \A k \in 1 .. Len(seq) : seq[k] = k

LEMMA NumberedGrows ==
  ASSUME NEW seq, Numbered(seq), NEW n, n = Len(seq) + 1
  PROVE  Numbered(Append(seq, n)) /\ Len(Append(seq, n)) = n
<1>1. seq \in Seq(Nat) /\ Len(seq) \in Nat /\ n \in Nat
  BY DEF Numbered
<1>. DEFINE s == Append(seq, n)
<1>2. /\ s \in Seq(Nat) /\ Len(s) = n
      /\ \A k \in 1 .. n : s[k] = IF k = n THEN n ELSE seq[k]
  BY <1>1
<1>. HIDE DEF s
<1>3. ASSUME NEW k \in 1 .. n PROVE s[k] = k
  <2>1. CASE k = n
    BY <1>2, <2>1
  <2>2. CASE k # n
    <3>1. k \in 1 .. Len(seq)
      BY <1>1, <2>2
    <3>. QED  BY <1>2, <2>2, <3>1 DEF Numbered
  <2>. QED  BY <2>1, <2>2
<1>. QED  BY <1>2, <1>3 DEF Numbered, s

\* From so many messages to so many: a message is the next one, or it is none.
Counted(S) ==
  {x \in Nat \X S \X Nat :
     \/ x[2].n = 0 /\ x[3] = x[1]
     \/ x[2].n = x[1] + 1 /\ x[3] = x[1] + 1}

LEMMA CountedTaken ==
  ASSUME NEW S, NEW q \in Seq(S), q # <<>>, NEW a, NEW z, Chain(q, Counted(S), a, z)
  PROVE  /\ Head(q) \in S /\ Tail(q) \in Seq(S)
         /\ Head(q).n = 0 => Chain(Tail(q), Counted(S), a, z)
         /\ Head(q).n # 0 => Head(q).n = a + 1 /\ Chain(Tail(q), Counted(S), a + 1, z)
<1>1. PICK y \in Int : <<a, Head(q), y>> \in Counted(S) /\ Chain(Tail(q), Counted(S), y, z)
  BY ChainShrinks
<1>2. /\ a \in Nat /\ y \in Nat /\ Head(q) \in S
      /\ \/ Head(q).n = 0 /\ y = a
         \/ Head(q).n = a + 1 /\ y = a + 1
  BY <1>1 DEF Counted
<1>3. Tail(q) \in Seq(S)
  OBVIOUS
<1>4. a + 1 # 0
  BY <1>2
<1>. QED  BY <1>1, <1>2, <1>3, <1>4, Zenon

LEMMA CountedSent ==
  ASSUME NEW S, NEW q \in Seq(S), NEW e \in S, NEW a \in Nat, NEW z \in Nat,
         Chain(q, Counted(S), a, z)
  PROVE  /\ Append(q, e) \in Seq(S)
         /\ e.n = 0 => Chain(Append(q, e), Counted(S), a, z)
         /\ e.n = z + 1 => Chain(Append(q, e), Counted(S), a, z + 1)
<1>1. e.n = 0 => <<z, e, z>> \in Counted(S)
  BY DEF Counted
<1>2. e.n = z + 1 => <<z, e, z + 1>> \in Counted(S)
  <2>1. z + 1 \in Nat
    OBVIOUS
  <2>. QED  BY <2>1 DEF Counted
<1>3. a \in Int /\ z \in Int /\ z + 1 \in Int
  OBVIOUS
<1>. QED  BY <1>1, <1>2, <1>3, ChainGrows

----------------------------------------------------------------------------
(* Numbers *)

\* Induction over the natural numbers, with the induction hypothesis a set.
LEMMA NatSet ==
  ASSUME NEW S, 0 \in S, \A n \in Nat : n \in S => n + 1 \in S
  PROVE  Nat \subseteq S
<1>. DEFINE R == OpToRel(<, Nat)
            T == Nat \ S
<1>1. \A x, y \in Nat : x < y => <<x, y>> \in R
  BY DEF OpToRel
<1>2. IsWellFoundedOn(R, Nat)
  BY NatLessThanWellFounded
<1>3. SUFFICES ASSUME T # {} PROVE FALSE
  OBVIOUS
<1>4. PICK m \in T : \A y \in T : ~ (<<y, m>> \in R)
  <2>. HIDE DEF R, T
  <2>1. T \subseteq Nat
    BY DEF T
  <2>. QED  BY <1>2, <1>3, <2>1, WFMin
<1>. HIDE DEF R
<1>5. m \in Nat /\ m # 0 /\ m \notin S
  BY <1>4
<1>6. m - 1 \in Nat /\ m - 1 < m /\ m - 1 \notin S
  <2>1. m - 1 \in Nat /\ m - 1 < m /\ (m - 1) + 1 = m
    BY <1>5
  <2>. QED  BY <1>5, <2>1
<1>. QED  BY <1>1, <1>4, <1>5, <1>6

\* The greatest of some numbers.
LEMMA Greatest ==
  ASSUME NEW n \in Nat, NEW T \in SUBSET (1 .. n), T # {}
  PROVE  \E j \in T : \A k \in T : k <= j
<1>. DEFINE S == {i \in Nat : \A U \in SUBSET (1 .. i) : U # {} => \E j \in U : \A k \in U : k <= j}
<1>1. 0 \in S
  <2>1. 1 .. 0 = {}
    OBVIOUS
  <2>2. \A U \in SUBSET (1 .. 0) : U = {}
    BY <2>1, Zenon
  <2>. QED  BY <2>2
<1>2. ASSUME NEW i \in Nat, i \in S PROVE i + 1 \in S
  <2>. SUFFICES ASSUME NEW U \in SUBSET (1 .. i + 1), U # {}
                PROVE  \E j \in U : \A k \in U : k <= j
    BY <1>2
  <2>1. CASE i + 1 \in U
    BY <2>1
  <2>2. CASE i + 1 \notin U
    <3>1. U \in SUBSET (1 .. i)
      BY <2>2
    <3>. QED  BY <1>2, <3>1
  <2>. QED  BY <2>1, <2>2
<1>. HIDE DEF S
<1>3. n \in S
  BY <1>1, <1>2, NatSet
<1>. QED  BY <1>3 DEF S
=============================================================================
