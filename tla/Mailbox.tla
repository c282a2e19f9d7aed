------------------------------ MODULE Mailbox ------------------------------
(***************************************************************************)
(* What the message store of the community promises, whoever sends, reads, *)
(* joins, leaves or is dropped: ids are issued in order, a message is      *)
(* unread until collected, is never unread again, and is pushed out by a   *)
(* later one only when the store is full, one for one.                     *)
(***************************************************************************)
EXTENDS EvictionOrder

CONSTANTS Capacity

VARIABLES
  issued,      \* the number of messages accepted so far
  unread,      \* the ids stored and not yet collected
  read         \* the ids stored and collected

vars == <<issued, unread, read>>

Init == issued = 0 /\ unread = {} /\ read = {}

\* New messages (a fan-out posts one per recipient) push out the excess.
Accept ==
  LET all == unread \cup read \cup (issued + 1 .. issued')
  IN /\ issued' \in Nat /\ issued <= issued'
     /\ \E lost \in SUBSET all :
          /\ Cardinality(lost) = Excess(Cardinality(all), Capacity)
          /\ unread' = (all \ read) \ lost
          /\ read' = read \ lost

Collect ==
  \E S \in SUBSET unread :
    unread' = unread \ S /\ read' = read \cup S /\ UNCHANGED issued

\* A purge: of the messages of a deleted session, or of a deleted room.
Discard ==
  \E S \in SUBSET (unread \cup read) :
    unread' = unread \ S /\ read' = read \ S /\ UNCHANGED issued

Next == Accept \/ Collect \/ Discard

Spec == Init /\ [][Next]_vars
=============================================================================
