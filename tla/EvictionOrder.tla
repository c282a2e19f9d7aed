--------------------------- MODULE EvictionOrder ---------------------------
(***************************************************************************)
(* Which messages a full MESSAGES map of lib/communityOps.js gives up.     *)
(* Ids grow with insertion, so id order is the iteration order of the Map. *)
(***************************************************************************)
EXTENDS Integers, FiniteSets

\* Mutant: expired entries get no preference.
EvictedByAge(stale, v, k) == v < k

\* evictOldestMessage takes the first expired entry and falls back to the first
\* entry: expired ones (stale) go before live ones, each kind by age.
EvictedBefore(stale, v, k) ==
  \/ v \in stale /\ k \notin stale
  \/ (v \in stale <=> k \in stale) /\ v < k

\* Mutant: the size check is off by one.
ExcessLate(n, cap) == IF n > cap + 1 THEN n - cap - 1 ELSE 0

Excess(n, cap) == IF n > cap THEN n - cap ELSE 0

\* What a whole fan-out into a store of at most cap messages evicts from all,
\* the messages stored before it together with the new ones.
IsEvicted(victims, all, stale, cap) ==
  /\ victims \subseteq all
  /\ Cardinality(victims) = Excess(Cardinality(all), cap)
  /\ \A v \in victims, k \in all \ victims : EvictedBefore(stale, v, k)
=============================================================================
