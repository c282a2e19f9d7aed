--------------------------- MODULE MessageFanout ---------------------------
(***************************************************************************)
(* The delivery loop shared by communitySendMessage, communityBroadcast    *)
(* and communityRoomMessage, one iteration per recipient: a full store     *)
(* evicts one message, then the new one is set.  Community takes the whole *)
(* call as one step; here that step is shown to be what the loop computes. *)
(* The clock stands still for the duration of the call.                    *)
(***************************************************************************)
EXTENDS EvictionOrder

CONSTANTS
  FanoutCap,
  FanoutMsgSeq,       \* bound: the message ids issued before the call
  FanoutTargets       \* bound: recipients of one call

ASSUME FanoutAssumption ==
  FanoutCap \in Nat \ {0} /\ FanoutMsgSeq \in Nat /\ FanoutTargets \in Nat

VARIABLES
  before,          \* the ids stored when the call began
  stale,           \* those of them that are past their expires_at
  first,           \* _msgSeq when the call began
  store,           \* the ids stored now
  issued,          \* _msgSeq
  left             \* recipients still to come

fanoutVars == <<before, stale, first, store, issued, left>>

Oldest(S) == CHOOSE i \in S : \A j \in S : i <= j

\* Mutant: the newest expired entry, as a walk that does not stop would find.
VictimLast ==
  IF store \cap stale # {}
  THEN CHOOSE i \in store \cap stale : \A j \in store \cap stale : j <= i
  ELSE Oldest(store)

\* evictOldestMessage
Victim == IF store \cap stale # {} THEN Oldest(store \cap stale) ELSE Oldest(store)

FanoutInit ==
  /\ first \in 0 .. FanoutMsgSeq
  /\ before \in {S \in SUBSET (1 .. first) : Cardinality(S) <= FanoutCap}
  /\ stale \in SUBSET before
  /\ store = before
  /\ issued = first
  /\ left \in 0 .. FanoutTargets

Iterate ==
  /\ left > 0
  /\ store' = (IF Cardinality(store) >= FanoutCap THEN store \ {Victim} ELSE store)
                \cup {issued + 1}
  /\ issued' = issued + 1
  /\ left' = left - 1
  /\ UNCHANGED <<before, stale, first>>

FanoutNext == Iterate

FanoutSpec == FanoutInit /\ [][FanoutNext]_fanoutVars

----------------------------------------------------------------------------

All == before \cup (first + 1 .. issued)

\* The bookkeeping of the loop: ids are issued in order and the store holds only
\* messages that were there or were sent by this call.
FanoutTypeOK ==
  /\ first \in Nat /\ issued \in Nat /\ left \in Nat
  /\ first <= issued
  /\ before \subseteq 1 .. first
  /\ stale \subseteq before
  /\ store \subseteq All

\* However many recipients have been served, what the one-at-a-time evictions of
\* evictOldestMessage have thrown away is exactly what Community's single step
\* throws away: the right number, the expired first, then the oldest, the
\* messages of this very call included when the fan-out exceeds the cap.
LoopEvictsInOrder == IsEvicted(All \ store, All, stale, FanoutCap)
=============================================================================
