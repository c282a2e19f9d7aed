-------------------------- MODULE CommunityProofs --------------------------
(***************************************************************************)
(* The safety of the community store, of the loop that delivers to a room  *)
(* and of the tool calls, for every number of sessions, rooms, messages,   *)
(* calls and steps and every cap.                                          *)
(***************************************************************************)
EXTENDS MCToolCalls, MessageFanout, KeySequenceTheorems, FiniteSetTheorems,
        WellFoundedInduction

\* Deleting a key of an insertion-ordered Map.
LEMMA WithoutKey ==
  ASSUME NEW S, NEW q \in Seq(S), IsInjective(q), NEW x \in Range(q)
  PROVE  /\ Without(q, x) \in Seq(S) /\ IsInjective(Without(q, x))
         /\ Range(Without(q, x)) = Range(q) \ {x}
         /\ Len(Without(q, x)) = Len(q) - 1
<1>. DEFINE k == CHOOSE i \in DOMAIN q : q[i] = x
<1>1. \E i \in DOMAIN q : q[i] = x  BY DEF Range
<1>2. k \in DOMAIN q /\ q[k] = x  BY <1>1
<1>3. k \in 1 .. Len(q)  BY <1>2, LenProperties
<1>4. Without(q, x) = RemoveAt(q, k)  BY DEF Without
<1>. HIDE DEF k
<1>. QED  BY <1>2, <1>3, <1>4, KeyRemoved

LEMMA StoredIsFinite ==
  ASSUME TypeOK
  PROVE  IsFiniteSet(Stored) /\ Cardinality(Stored) \in Nat /\ Stored \in SUBSET Nat
<1>1. msgSeq \in Nat /\ Stored \in SUBSET (1 .. msgSeq)  BY DEF TypeOK
<1>2. IsFiniteSet(1 .. msgSeq)  BY <1>1, FS_Interval
<1>3. IsFiniteSet(Stored)  BY <1>1, <1>2, FS_Subset
<1>. QED  BY <1>1, <1>3, FS_CardinalityType

----------------------------------------------------------------------------
(* A fan-out *)

\* What a call of one of the three sending tools is, with its recipients.
Sent(from, R, room, expires, reply) ==
  /\ from \in SessionIds /\ R \in Seq(SessionIds \ {from})
  /\ room \in RoomIds \cup {NoRoom}
  /\ expires \in Nat \cup {Never} /\ (expires # Never => expires >= now)
  /\ reply \in {0} \cup Stored
  /\ Deliver(from, R, room, expires, reply)

IsSent == \E from, R, room, expires, reply : Sent(from, R, room, expires, reply)

LEMMA SendingIsSent ==
  ASSUME TypeOK,
         NEW s \in SessionIds, NEW e \in ExpiryChoices, NEW re \in ReplyChoices,
         Send(s, e, re)
  PROVE  IsSent
<1>1. /\ e \in Nat \cup {Never} /\ (e # Never => e >= now)
      /\ re \in {0} \cup Stored
  BY CommunityAssumption DEF ExpiryChoices, ReplyChoices, TypeOK
<1>2. Registered \subseteq SessionIds
  BY LenProperties, ElementOfSeq DEF TypeOK, Registered, Range
<1>3. CASE \E to \in SessionIds : SendMessage(s, to, e, re)
  <2>1. PICK to \in SessionIds : SendMessage(s, to, e, re)  BY <1>3
  <2>2. <<to>> \in Seq(SessionIds \ {s})  BY <2>1 DEF SendMessage
  <2>3. Sent(s, <<to>>, NoRoom, e, re)  BY <1>1, <2>1, <2>2 DEF Sent, SendMessage
  <2>. QED  BY <2>3 DEF IsSent
<1>4. CASE Broadcast(s, e, re)
  <2>0. s \in Registered  BY <1>4 DEF Broadcast
  <2>1. CASE Deliver(s, Without(sessions, s), NoRoom, e, re)
    <3>. DEFINE R == Without(sessions, s)
    <3>1. R \in Seq(SessionIds) /\ Range(R) = Range(sessions) \ {s}
      BY <2>0, WithoutKey DEF TypeOK, Registered
    <3>. HIDE DEF R
    <3>2. \A i \in 1 .. Len(R) : R[i] \in SessionIds \ {s}
      BY <3>1, LenProperties, ElementOfSeq DEF Range
    <3>3. Len(R) \in Nat /\ R \in [1 .. Len(R) -> SessionIds]  BY <3>1, LenProperties
    <3>4. R \in [1 .. Len(R) -> SessionIds \ {s}]  BY <3>2, <3>3
    <3>5. R \in Seq(SessionIds \ {s})  BY <3>3, <3>4
    <3>6. Sent(s, R, NoRoom, e, re)  BY <1>1, <2>1, <3>5 DEF Sent, R
    <3>. QED  BY <3>6 DEF IsSent
  <2>2. CASE \E n \in 1 .. MaxTargets : \E R \in [1 .. n -> Registered \ {s}] :
               Deliver(s, R, NoRoom, e, re)
    <3>0. PICK n \in 1 .. MaxTargets : \E R \in [1 .. n -> Registered \ {s}] :
            Deliver(s, R, NoRoom, e, re)
      BY <2>2
    <3>1. PICK R \in [1 .. n -> Registered \ {s}] : Deliver(s, R, NoRoom, e, re)
      BY <3>0
    <3>2. R \in [1 .. n -> SessionIds \ {s}] /\ n \in Nat
      BY <1>2, CommunityAssumption
    <3>3. R \in Seq(SessionIds \ {s})  BY <3>2
    <3>4. Sent(s, R, NoRoom, e, re)  BY <1>1, <3>1, <3>3 DEF Sent
    <3>. QED  BY <3>4 DEF IsSent
  <2>. QED  BY <1>4, <2>1, <2>2 DEF Broadcast
<1>5. CASE \E r \in RoomIds : RoomMessage(s, r, e, re)
  <2>1. PICK r \in RoomIds : RoomMessage(s, r, e, re)  BY <1>5
  <2>2. PICK R \in SetToSeqs(members[r] \ {s}) : Deliver(s, R, r, e, re)
    BY <2>1 DEF RoomMessage
  <2>3. members[r] \ {s} \in SUBSET SessionIds  BY DEF TypeOK
  <2>. DEFINE k == Cardinality(members[r] \ {s})
  <2>4. k \in Nat  BY <2>3, CommunityAssumption, FS_Subset, FS_CardinalityType
  <2>5. R \in [1 .. k -> members[r] \ {s}]  BY DEF SetToSeqs
  <2>. HIDE DEF k
  <2>6. R \in [1 .. k -> SessionIds \ {s}]  BY <2>3, <2>5
  <2>8. R \in Seq(SessionIds \ {s})  BY <2>4, <2>6
  <2>9. Sent(s, R, r, e, re)  BY <1>1, <2>2, <2>8 DEF Sent
  <2>. QED  BY <2>9 DEF IsSent
<1>. QED  BY <1>3, <1>4, <1>5 DEF Send

\* What a fan-out does to the store: it issues ids, keeps what it does not
\* evict as it was, and posts unread messages that answer earlier ones.
Fanout ==
  /\ msgSeq' \in Nat /\ msgSeq <= msgSeq' /\ msgSeq' <= MaxMsgSeq
  /\ Stored' \subseteq Stored \cup (msgSeq + 1 .. msgSeq')
  /\ \A i \in Stored' \cap Stored : messages'[i] = messages[i]
  /\ \A i \in Stored' \ Stored :
       /\ messages'[i] \in Message /\ messages'[i].from # messages'[i].to
       /\ messages'[i].sent = now /\ messages'[i].status = "unread"
       /\ messages'[i].reply < i /\ ~IsExpired(messages'[i], now)
  /\ LET all == Stored \cup (msgSeq + 1 .. msgSeq')
     IN IsEvicted(all \ Stored', all, Stale(messages), MAX_MESSAGES)
  /\ UNCHANGED <<sessions, rooms, members, now, evicted>>

LEMMA SentIsFanout ==
  ASSUME TypeOK, IsSent
  PROVE  Fanout
<1>1. PICK from, R, room, expires, reply : Sent(from, R, room, expires, reply)
  BY DEF IsSent
<1>. DEFINE all == Posted(from, R, room, expires, reply)
<1>2. PICK victims \in SUBSET DOMAIN all :
        /\ IsEvicted(victims, DOMAIN all, Stale(all), MAX_MESSAGES)
        /\ messages' = Restrict(all, DOMAIN all \ victims)
  BY <1>1 DEF Sent, Deliver
<1>3. /\ from \in SessionIds /\ R \in Seq(SessionIds \ {from})
      /\ room \in RoomIds \cup {NoRoom} /\ expires \in Nat \cup {Never}
      /\ expires # Never => expires >= now
      /\ reply \in {0} \cup Stored
      /\ msgSeq + Len(R) <= MaxMsgSeq /\ msgSeq' = msgSeq + Len(R)
      /\ UNCHANGED <<sessions, rooms, members, now, evicted>>
  BY <1>1 DEF Sent, Deliver
<1>4. Len(R) \in Nat /\ \A k \in 1 .. Len(R) : R[k] \in SessionIds \ {from}
  BY <1>3, LenProperties, ElementOfSeq
<1>5. msgSeq \in Nat /\ now \in Nat /\ Stored \subseteq 1 .. msgSeq
  BY DEF TypeOK
<1>6. DOMAIN all = Stored \cup (msgSeq + 1 .. msgSeq')
  BY <1>3 DEF Posted
<1>7. Stored' = DOMAIN all \ victims
  BY <1>2 DEF Restrict, Stored
<1>8. \A i \in Stored' : messages'[i] = all[i]
  BY <1>2, <1>7 DEF Restrict
<1>9. \A i \in Stored : all[i] = messages[i]
  BY DEF Posted
<1>10. ASSUME NEW i \in DOMAIN all \ Stored
       PROVE  /\ all[i] \in Message /\ all[i].from # all[i].to
              /\ all[i].sent = now /\ all[i].status = "unread"
              /\ all[i].reply < i /\ ~IsExpired(all[i], now)
  <2>1. i \in msgSeq + 1 .. msgSeq + Len(R)  BY <1>3, <1>6
  <2>2. i - msgSeq \in 1 .. Len(R)  BY <1>4, <1>5, <2>1
  <2>3. all[i] = [from |-> from, to |-> R[i - msgSeq], room |-> room, sent |-> now,
                  expires |-> expires, reply |-> reply, status |-> "unread"]
    BY <1>6 DEF Posted
  <2>. HIDE DEF all
  <2>4. R[i - msgSeq] \in SessionIds \ {from}  BY <1>4, <2>2
  <2>5. reply \in Nat /\ reply < i  BY <1>3, <1>5, <2>1
  <2>6. all[i] \in Message  BY <1>3, <1>5, <2>3, <2>4, <2>5 DEF Message
  <2>7. ~IsExpired(all[i], now)  BY <1>3, <1>5, <2>3, CommunityAssumption DEF IsExpired
  <2>. QED  BY <2>3, <2>4, <2>5, <2>6, <2>7
<1>11. Stale(all) = Stale(messages)
  <2>1. Stale(all) \subseteq Stored  BY <1>10 DEF Stale
  <2>2. Stored \subseteq DOMAIN all  BY <1>6
  <2>. QED  BY <1>9, <2>1, <2>2 DEF Stale, Stored
<1>12. DOMAIN all \ Stored' = victims  BY <1>7
<1>13. IsEvicted(DOMAIN all \ Stored', DOMAIN all, Stale(messages), MAX_MESSAGES)
  BY <1>2, <1>11, <1>12
<1>. HIDE DEF all
<1>14. \A i \in Stored' \cap Stored : messages'[i] = messages[i]
  BY <1>8, <1>9
<1>15. \A i \in Stored' \ Stored : i \in DOMAIN all \ Stored /\ messages'[i] = all[i]
  BY <1>7, <1>8
<1>16. msgSeq' \in Nat /\ msgSeq <= msgSeq' /\ msgSeq' <= MaxMsgSeq
  BY <1>3, <1>4, <1>5
<1>. QED  BY <1>3, <1>6, <1>7, <1>10, <1>13, <1>14, <1>15, <1>16 DEF Fanout

----------------------------------------------------------------------------
(* What a step does to the messages, to the sessions and to the rooms *)

\* The calls that are not sends mark messages read or drop them.
Marked ==
  /\ msgSeq' = msgSeq
  /\ Stored' = Stored
  /\ \A i \in Stored : \/ messages'[i] = messages[i]
                       \/ messages'[i] = [messages[i] EXCEPT !.status = "read"]

Dropped ==
  /\ msgSeq' = msgSeq
  /\ Stored' \subseteq Stored
  /\ \A i \in Stored' : messages'[i] = messages[i]

LEMMA StoreStep ==
  ASSUME TypeOK, [Next]_vars
  PROVE  (Fanout \/ Marked \/ Dropped) /\ now' \in Nat /\ now <= now'
<1>. now \in Nat  BY DEF TypeOK
<1>1. CASE UNCHANGED <<messages, msgSeq, now>>
  BY <1>1 DEF Dropped, Stored
<1>2. ASSUME NEW s \in SessionIds, Read(s)
      PROVE  Marked /\ now' = now
  BY <1>2 DEF Read, ReadMessages, Marked, Stored
<1>3. ASSUME NEW s \in SessionIds, NEW purge \in BOOLEAN, DeleteSession(s, purge)
      PROVE  Dropped /\ now' = now
  BY <1>3 DEF DeleteSession, Dropped, Stored, Restrict
<1>4. ASSUME NEW r \in RoomIds, NEW purge \in BOOLEAN, DeleteRoom(r, purge)
      PROVE  Dropped /\ now' = now
  BY <1>4 DEF DeleteRoom, Dropped, Stored, Restrict
<1>5. ASSUME NEW s \in SessionIds, NEW e \in ExpiryChoices, NEW re \in ReplyChoices,
             Send(s, e, re)
      PROVE  Fanout /\ now' = now
  BY <1>5, SendingIsSent, SentIsFanout DEF Fanout
<1>6. CASE Tick
  BY <1>6 DEF Tick, Dropped, Stored
<1>7. ASSUME NEW s \in SessionIds, Register(s)
      PROVE  UNCHANGED <<messages, msgSeq, now>>
  BY <1>7 DEF Register
<1>8. ASSUME NEW s \in SessionIds, NEW r \in RoomIds, RoomCall(s, r)
      PROVE  UNCHANGED <<messages, msgSeq, now>>
  BY <1>8 DEF RoomCall, CreateRoom, JoinRoom, LeaveRoom
<1>9. CASE UNCHANGED vars
  BY <1>1, <1>9 DEF vars
<1>. QED  BY <1>1, <1>2, <1>3, <1>4, <1>5, <1>6, <1>7, <1>8, <1>9 DEF Next

\* Only a registration and a deletion touch the directory.
LEMMA SessionsStep ==
  ASSUME TypeOK, [Next]_vars
  PROVE  \/ \E s \in SessionIds : Register(s)
         \/ \E s \in SessionIds, purge \in BOOLEAN : DeleteSession(s, purge)
         \/ UNCHANGED <<sessions, evicted>>
<1>1. ASSUME NEW s \in SessionIds, NEW e \in ExpiryChoices, NEW re \in ReplyChoices,
             Send(s, e, re)
      PROVE  UNCHANGED <<sessions, evicted>>
  BY <1>1, SendingIsSent, SentIsFanout DEF Fanout
<1>2. ASSUME NEW s \in SessionIds, Read(s)
      PROVE  UNCHANGED <<sessions, evicted>>
  BY <1>2 DEF Read, ReadMessages
<1>3. ASSUME NEW s \in SessionIds, NEW r \in RoomIds, RoomCall(s, r)
      PROVE  UNCHANGED <<sessions, evicted>>
  BY <1>3 DEF RoomCall, CreateRoom, JoinRoom, LeaveRoom
<1>4. ASSUME NEW r \in RoomIds, NEW purge \in BOOLEAN, DeleteRoom(r, purge)
      PROVE  UNCHANGED <<sessions, evicted>>
  BY <1>4 DEF DeleteRoom
<1>5. Tick \/ UNCHANGED vars => UNCHANGED <<sessions, evicted>>
  BY DEF Tick, vars
<1>. QED  BY <1>1, <1>2, <1>3, <1>4, <1>5 DEF Next

\* Only the room tools and the deletion of a session touch rooms and members.
LEMMA RoomsStep ==
  ASSUME TypeOK, [Next]_vars
  PROVE  \/ \E s \in SessionIds, r \in RoomIds : RoomCall(s, r)
         \/ \E r \in RoomIds, purge \in BOOLEAN : DeleteRoom(r, purge)
         \/ \E s \in SessionIds, purge \in BOOLEAN : DeleteSession(s, purge)
         \/ UNCHANGED <<rooms, members>>
<1>1. ASSUME NEW s \in SessionIds, NEW e \in ExpiryChoices, NEW re \in ReplyChoices,
             Send(s, e, re)
      PROVE  UNCHANGED <<rooms, members>>
  BY <1>1, SendingIsSent, SentIsFanout DEF Fanout
<1>2. ASSUME NEW s \in SessionIds, Read(s) \/ Register(s)
      PROVE  UNCHANGED <<rooms, members>>
  BY <1>2 DEF Read, ReadMessages, Register
<1>3. Tick \/ UNCHANGED vars => UNCHANGED <<rooms, members>>
  BY DEF Tick, vars
<1>. QED  BY <1>1, <1>2, <1>3 DEF Next

----------------------------------------------------------------------------
(* Type correctness *)

LEMMA MessagesStayTyped ==
  ASSUME TypeOK, [Next]_vars
  PROVE  /\ Stored' \subseteq 1 .. msgSeq'
         /\ \A i \in Stored' : messages'[i] \in Message /\ messages'[i].from # messages'[i].to
         /\ msgSeq' \in 0 .. MaxMsgSeq
<1>1. CASE Fanout
  <2>1. msgSeq' \in 0 .. MaxMsgSeq /\ msgSeq <= msgSeq' /\ msgSeq \in Nat
    BY <1>1 DEF Fanout, TypeOK
  <2>2. Stored' \subseteq 1 .. msgSeq'
    BY <1>1, <2>1 DEF Fanout, TypeOK
  <2>3. \A i \in Stored' : messages'[i] \in Message /\ messages'[i].from # messages'[i].to
    BY <1>1 DEF Fanout, TypeOK
  <2>. QED  BY <2>1, <2>2, <2>3
<1>2. CASE Marked \/ Dropped
  <2>1. ASSUME NEW i \in Stored'
        PROVE  messages'[i] \in Message /\ messages'[i].from # messages'[i].to
    <3>1. i \in Stored /\ messages[i] \in Message /\ messages[i].from # messages[i].to
      BY <1>2 DEF Marked, Dropped, TypeOK
    <3>2. messages'[i] \in {messages[i], [messages[i] EXCEPT !.status = "read"]}
      BY <1>2, <3>1 DEF Marked, Dropped
    <3>. QED  BY <3>1, <3>2 DEF Message
  <2>. QED  BY <1>2, <2>1 DEF Marked, Dropped, TypeOK
<1>. QED  BY <1>1, <1>2, StoreStep

LEMMA SessionsStayTyped ==
  ASSUME TypeOK, [Next]_vars
  PROVE  /\ sessions' \in Seq(SessionIds) /\ IsInjective(sessions')
         /\ evicted' \subseteq SessionIds \ Registered'
         /\ Len(sessions) <= MAX_SESSIONS => Len(sessions') <= MAX_SESSIONS
<1>. /\ sessions \in Seq(SessionIds) /\ IsInjective(sessions)
     /\ evicted \subseteq SessionIds \ Registered /\ Len(sessions) \in Nat
     /\ MAX_SESSIONS \in Nat \ {0}
  BY CommunityAssumption, LenProperties DEF TypeOK
<1>1. ASSUME NEW s \in SessionIds, Register(s), Len(sessions) < MAX_SESSIONS
      PROVE  /\ sessions' \in Seq(SessionIds) /\ IsInjective(sessions')
             /\ evicted' \subseteq SessionIds \ Registered'
             /\ Len(sessions') <= MAX_SESSIONS
  <2>1. sessions' = Append(sessions, s) /\ evicted' = evicted \ {s} /\ s \notin Range(sessions)
    BY <1>1 DEF Register, Registered
  <2>. QED  BY <1>1, <2>1, KeyAdded DEF Registered
<1>2. ASSUME NEW s \in SessionIds, Register(s), Len(sessions) >= MAX_SESSIONS
      PROVE  /\ sessions' \in Seq(SessionIds) /\ IsInjective(sessions')
             /\ evicted' \subseteq SessionIds \ Registered'
             /\ Len(sessions') = Len(sessions)
  <2>1. /\ sessions' = Append(Tail(sessions), s) /\ s \notin Range(sessions)
        /\ evicted' = (evicted \cup {Head(sessions)}) \ {s}
    BY <1>2 DEF Register, Registered
  <2>2. sessions # <<>>  BY <1>2, EmptySeq
  <2>3. /\ Tail(sessions) \in Seq(SessionIds) /\ IsInjective(Tail(sessions))
        /\ Head(sessions) \in SessionIds
        /\ Range(Tail(sessions)) = Range(sessions) \ {Head(sessions)}
        /\ Len(Tail(sessions)) = Len(sessions) - 1
    BY <2>2, OldestKeyRemoved
  <2>4. /\ sessions' \in Seq(SessionIds) /\ IsInjective(sessions')
        /\ Range(sessions') = (Range(sessions) \ {Head(sessions)}) \cup {s}
        /\ Len(sessions') = Len(sessions) - 1 + 1
    <3>. DEFINE t == Tail(sessions)
    <3>1. s \notin Range(t)  BY <2>1, <2>3
    <3>2. /\ t \in Seq(SessionIds) /\ IsInjective(t) /\ sessions' = Append(t, s)
          /\ Range(t) = Range(sessions) \ {Head(sessions)} /\ Len(t) = Len(sessions) - 1
      BY <2>1, <2>3
    <3>. HIDE DEF t
    <3>. QED  BY <3>1, <3>2, KeyAdded
  <2>. QED  BY <2>1, <2>3, <2>4 DEF Registered
<1>3. ASSUME NEW s \in SessionIds, NEW purge \in BOOLEAN, DeleteSession(s, purge)
      PROVE  /\ sessions' \in Seq(SessionIds) /\ IsInjective(sessions')
             /\ evicted' \subseteq SessionIds \ Registered'
             /\ Len(sessions') = Len(sessions) - 1
  <2>1. sessions' = Without(sessions, s) /\ s \in Range(sessions) /\ evicted' = evicted
    BY <1>3 DEF DeleteSession, Registered
  <2>. QED  BY <2>1, WithoutKey DEF Registered
<1>4. CASE UNCHANGED <<sessions, evicted>>
  BY <1>4 DEF Registered
<1>. QED  BY <1>1, <1>2, <1>3, <1>4, SessionsStep

LEMMA RoomsStayTyped ==
  ASSUME TypeOK, [Next]_vars
  PROVE  /\ rooms' \in Seq(RoomIds) /\ IsInjective(rooms')
         /\ members' \in [RoomIds -> SUBSET SessionIds]
         /\ \A q \in RoomIds \ Rooms' : members'[q] = {}
         /\ Len(rooms) <= MAX_ROOMS => Len(rooms') <= MAX_ROOMS
<1>. /\ rooms \in Seq(RoomIds) /\ IsInjective(rooms) /\ Len(rooms) \in Nat
     /\ members \in [RoomIds -> SUBSET SessionIds]
     /\ \A q \in RoomIds \ Rooms : members[q] = {}
     /\ MAX_ROOMS \in Nat \ {0}
  BY CommunityAssumption, LenProperties DEF TypeOK
<1>1. ASSUME NEW s \in SessionIds, NEW r \in RoomIds, CreateRoom(s, r), Len(rooms) < MAX_ROOMS
      PROVE  /\ rooms' \in Seq(RoomIds) /\ IsInjective(rooms')
             /\ members' \in [RoomIds -> SUBSET SessionIds]
             /\ \A q \in RoomIds \ Rooms' : members'[q] = {}
             /\ Len(rooms') <= MAX_ROOMS
  <2>1. /\ rooms' = Append(rooms, r) /\ r \notin Range(rooms)
        /\ members' = [members EXCEPT ![r] = {s}]
    BY <1>1 DEF CreateRoom, Rooms
  <2>. QED  BY <1>1, <2>1, KeyAdded DEF Rooms
<1>2. ASSUME NEW s \in SessionIds, NEW r \in RoomIds, CreateRoom(s, r), Len(rooms) >= MAX_ROOMS
      PROVE  /\ rooms' \in Seq(RoomIds) /\ IsInjective(rooms')
             /\ members' \in [RoomIds -> SUBSET SessionIds]
             /\ \A q \in RoomIds \ Rooms' : members'[q] = {}
             /\ Len(rooms') = Len(rooms)
  <2>1. /\ rooms' = Append(Tail(rooms), r) /\ r \notin Range(rooms)
        /\ members' = [members EXCEPT ![Head(rooms)] = {}, ![r] = {s}]
    BY <1>2 DEF CreateRoom, Rooms
  <2>2. rooms # <<>>  BY <1>2, EmptySeq
  <2>3. /\ Tail(rooms) \in Seq(RoomIds) /\ IsInjective(Tail(rooms))
        /\ Head(rooms) \in RoomIds
        /\ Range(Tail(rooms)) = Range(rooms) \ {Head(rooms)}
        /\ Len(Tail(rooms)) = Len(rooms) - 1
    BY <2>2, OldestKeyRemoved
  <2>4. /\ rooms' \in Seq(RoomIds) /\ IsInjective(rooms')
        /\ Range(rooms') = (Range(rooms) \ {Head(rooms)}) \cup {r}
        /\ Len(rooms') = Len(rooms) - 1 + 1
    <3>. DEFINE t == Tail(rooms)
    <3>1. r \notin Range(t)  BY <2>1, <2>3
    <3>2. /\ t \in Seq(RoomIds) /\ IsInjective(t) /\ rooms' = Append(t, r)
          /\ Range(t) = Range(rooms) \ {Head(rooms)} /\ Len(t) = Len(rooms) - 1
      BY <2>1, <2>3
    <3>. HIDE DEF t
    <3>. QED  BY <3>1, <3>2, KeyAdded
  <2>. QED  BY <2>1, <2>3, <2>4 DEF Rooms
<1>3. ASSUME NEW s \in SessionIds, NEW r \in RoomIds, JoinRoom(s, r) \/ LeaveRoom(s, r)
      PROVE  /\ rooms' = rooms /\ Rooms' = Rooms
             /\ members' \in [RoomIds -> SUBSET SessionIds]
             /\ \A q \in RoomIds \ Rooms' : members'[q] = {}
  BY <1>3 DEF JoinRoom, LeaveRoom, Rooms
<1>4. ASSUME NEW r \in RoomIds, NEW purge \in BOOLEAN, DeleteRoom(r, purge)
      PROVE  /\ rooms' \in Seq(RoomIds) /\ IsInjective(rooms')
             /\ members' \in [RoomIds -> SUBSET SessionIds]
             /\ \A q \in RoomIds \ Rooms' : members'[q] = {}
             /\ Len(rooms') = Len(rooms) - 1
  <2>1. /\ rooms' = Without(rooms, r) /\ r \in Range(rooms)
        /\ members' = [members EXCEPT ![r] = {}]
    BY <1>4 DEF DeleteRoom, Rooms
  <2>2. /\ rooms' \in Seq(RoomIds) /\ IsInjective(rooms')
        /\ Range(rooms') = Range(rooms) \ {r} /\ Len(rooms') = Len(rooms) - 1
    BY <2>1, WithoutKey
  <2>. QED  BY <2>1, <2>2 DEF Rooms
<1>5. ASSUME NEW s \in SessionIds, NEW purge \in BOOLEAN, DeleteSession(s, purge)
      PROVE  /\ rooms' = rooms /\ Rooms' = Rooms
             /\ members' \in [RoomIds -> SUBSET SessionIds]
             /\ \A q \in RoomIds \ Rooms' : members'[q] = {}
  BY <1>5 DEF DeleteSession, Rooms
<1>6. CASE UNCHANGED <<rooms, members>>
  BY <1>6 DEF Rooms
<1>. QED  BY <1>1, <1>2, <1>3, <1>4, <1>5, <1>6, RoomsStep DEF RoomCall

\* The Maps keep their shape: distinct keys, ids issued so far, typed records,
\* no members without a room, whatever the calls and their order.
THEOREM TypeCorrect == Spec => []TypeOK
<1>1. Init => TypeOK
  <2>. SUFFICES ASSUME Init PROVE TypeOK
    OBVIOUS
  <2>1. <<>> \in Seq(SessionIds) /\ <<>> \in Seq(RoomIds) /\ IsInjective(<<>>)
    BY DEF IsInjective
  <2>2. Stored = {}  BY DEF Init, Stored
  <2>. QED  BY <2>1, <2>2, CommunityAssumption DEF Init, TypeOK
<1>2. TypeOK /\ [Next]_vars => TypeOK'
  BY MessagesStayTyped, SessionsStayTyped, RoomsStayTyped, StoreStep DEF TypeOK
<1>. QED  BY <1>1, <1>2, PTL DEF Spec

----------------------------------------------------------------------------
(* The caps *)

\* No order of registrations, sends, fan-outs and deletions takes one of the
\* three Maps past its cap.
THEOREM LimitsHold == Spec => []WithinLimits
<1>1. Init => WithinLimits
  <2>. SUFFICES ASSUME Init PROVE WithinLimits
    OBVIOUS
  <2>1. Stored = {} /\ Len(sessions) = 0 /\ Len(rooms) = 0
    BY DEF Init, Stored
  <2>. QED  BY <2>1, FS_EmptySet, CommunityAssumption DEF WithinLimits
<1>2. TypeOK /\ WithinLimits /\ [Next]_vars => WithinLimits'
  <2>. SUFFICES ASSUME TypeOK, WithinLimits, [Next]_vars PROVE WithinLimits'
    OBVIOUS
  <2>1. ASSUME Fanout PROVE Cardinality(Stored') <= MAX_MESSAGES
    <3>. DEFINE all == Stored \cup (msgSeq + 1 .. msgSeq')
    <3>1. msgSeq \in Nat /\ msgSeq' \in Nat /\ Stored' \subseteq all
      BY <2>1 DEF Fanout, TypeOK
    <3>2. IsFiniteSet(all)
      <4>1. IsFiniteSet(msgSeq + 1 .. msgSeq')  BY <3>1, FS_Interval
      <4>. QED  BY <4>1, StoredIsFinite, FS_Union
    <3>3. Cardinality(all \ Stored') = Excess(Cardinality(all), MAX_MESSAGES)
      BY <2>1 DEF Fanout, IsEvicted
    <3>. HIDE DEF all
    <3>4. all \cap Stored' = Stored' /\ Cardinality(all) \in Nat
      BY <3>1, <3>2, FS_CardinalityType
    <3>5. Cardinality(all \ Stored') = Cardinality(all) - Cardinality(Stored')
      BY <3>2, <3>4, FS_Difference
    <3>6. Cardinality(Stored') \in Nat  BY <3>1, <3>2, FS_Subset, FS_CardinalityType
    <3>. QED  BY <3>3, <3>4, <3>5, <3>6, CommunityAssumption DEF Excess
  <2>2. ASSUME Marked \/ Dropped PROVE Cardinality(Stored') <= MAX_MESSAGES
    <3>1. Stored' \in SUBSET Stored  BY <2>2 DEF Marked, Dropped
    <3>2. Cardinality(Stored') <= Cardinality(Stored)  BY <3>1, StoredIsFinite, FS_Subset
    <3>3. Cardinality(Stored') \in Nat
      BY <3>1, StoredIsFinite, FS_Subset, FS_CardinalityType
    <3>. QED  BY <3>2, <3>3, StoredIsFinite, CommunityAssumption DEF WithinLimits
  <2>3. Cardinality(Stored') <= MAX_MESSAGES
    BY <2>1, <2>2, StoreStep DEF WithinLimits
  <2>4. Len(sessions') <= MAX_SESSIONS /\ Len(rooms') <= MAX_ROOMS
    BY SessionsStayTyped, RoomsStayTyped DEF WithinLimits
  <2>. QED  BY <2>3, <2>4 DEF WithinLimits
<1>. QED  BY <1>1, <1>2, TypeCorrect, PTL DEF Spec

----------------------------------------------------------------------------
(* Threads, evictions and ghosts *)

\* A reply is younger than what it answers and ids follow the sending times:
\* the sort of communityReadMessages is the order of sending, threads are trees.
THEOREM ThreadsOrdered == Spec => []ThreadsAndTimesOrdered
<1>1. Init => ThreadsAndTimesOrdered
  BY DEF Init, Stored, ThreadsAndTimesOrdered
<1>2. TypeOK /\ ThreadsAndTimesOrdered /\ [Next]_vars => ThreadsAndTimesOrdered'
  <2>. SUFFICES ASSUME TypeOK, ThreadsAndTimesOrdered, [Next]_vars
                PROVE  ThreadsAndTimesOrdered'
    OBVIOUS
  <2>1. now \in Nat /\ now' \in Nat /\ now <= now' /\ msgSeq \in Nat
        /\ \A i \in Stored : /\ i \in 1 .. msgSeq /\ messages[i].sent \in Nat
                            /\ messages[i].reply < i /\ messages[i].sent <= now
    BY StoreStep DEF TypeOK, Message, ThreadsAndTimesOrdered
  <2>2. CASE Fanout
    <3>1. now' = now  BY <2>2 DEF Fanout
    <3>2. ASSUME NEW i \in Stored'
          PROVE  /\ messages'[i].reply < i /\ messages'[i].sent <= now
                 /\ i \in Stored \/ messages'[i].sent = now
      BY <2>1, <2>2 DEF Fanout
    <3>3. ASSUME NEW i \in Stored', NEW j \in Stored', i < j
          PROVE  messages'[i].sent <= messages'[j].sent
      <4>1. CASE j \in Stored
        <5>1. i \in Stored  BY <2>1, <2>2, <3>3, <4>1 DEF Fanout
        <5>. QED  BY <2>2, <3>3, <4>1, <5>1 DEF Fanout, ThreadsAndTimesOrdered
      <4>2. CASE j \notin Stored
        BY <3>2, <4>2
      <4>. QED  BY <4>1, <4>2
    <3>. QED  BY <3>1, <3>2, <3>3 DEF ThreadsAndTimesOrdered
  <2>3. CASE Marked \/ Dropped
    <3>1. ASSUME NEW i \in Stored'
          PROVE  /\ i \in Stored /\ messages'[i].reply = messages[i].reply
                 /\ messages'[i].sent = messages[i].sent
      <4>1. i \in Stored /\ messages[i] \in Message
        BY <2>3 DEF Marked, Dropped, TypeOK
      <4>. QED  BY <2>3, <4>1 DEF Marked, Dropped, Message
    <3>. QED  BY <2>1, <3>1 DEF ThreadsAndTimesOrdered
  <2>. QED  BY <2>2, <2>3, StoreStep
<1>. QED  BY <1>1, <1>2, TypeCorrect, PTL DEF Spec

\* A send that evicts a live message leaves no expired one behind and spares
\* only younger ones.
THEOREM LivingSpared == Spec => EvictionSparesTheLiving
<1>1. ASSUME TypeOK, [Next]_vars, msgSeq' > msgSeq,
             NEW v \in Stored \ Stored', ~IsExpired(messages[v], now), NEW k \in Stored'
      PROVE  ~IsExpired(messages'[k], now) /\ v < k
  <2>1. Fanout
    <3>1. msgSeq \in Nat /\ (Marked \/ Dropped => msgSeq' = msgSeq)
      BY <1>1 DEF TypeOK, Marked, Dropped
    <3>. QED  BY <1>1, <3>1, StoreStep
  <2>. DEFINE all == Stored \cup (msgSeq + 1 .. msgSeq')
  <2>2. v \in all \ Stored' /\ k \in all \ (all \ Stored')
    BY <1>1, <2>1 DEF Fanout
  <2>3. EvictedBefore(Stale(messages), v, k)
    BY <2>1, <2>2 DEF Fanout, IsEvicted
  <2>4. v \notin Stale(messages)  BY <1>1 DEF Stale
  <2>5. k \notin Stale(messages) /\ v < k  BY <2>3, <2>4 DEF EvictedBefore
  <2>6. CASE k \in Stored
    BY <1>1, <2>1, <2>5, <2>6 DEF Fanout, Stale, Stored
  <2>7. CASE k \notin Stored
    BY <1>1, <2>1, <2>5, <2>7 DEF Fanout
  <2>. QED  BY <2>6, <2>7
<1>2. TypeOK /\ [Next]_vars =>
        [msgSeq' > msgSeq =>
           \A v \in Stored \ DOMAIN messages' :
             ~IsExpired(messages[v], now) =>
               \A k \in DOMAIN messages' : ~IsExpired(messages'[k], now) /\ v < k]_vars
  BY <1>1 DEF Stored
<1>. QED  BY <1>2, TypeCorrect, PTL DEF Spec, EvictionSparesTheLiving

\* A stored message never changes but for unread becoming read, and one that has
\* left the store is not put back.
THEOREM MessagesAge == Spec => MessagesOnlyAge
<1>1. TypeOK /\ [Next]_vars =>
        [/\ \A i \in Stored \cap DOMAIN messages' :
              \/ messages'[i] = messages[i]
              \/ messages'[i] = [messages[i] EXCEPT !.status = "read"]
         /\ DOMAIN messages' \subseteq Stored \cup (msgSeq + 1 .. msgSeq')]_vars
  <2>. SUFFICES ASSUME TypeOK, [Next]_vars
                PROVE  /\ \A i \in Stored \cap Stored' :
                            \/ messages'[i] = messages[i]
                            \/ messages'[i] = [messages[i] EXCEPT !.status = "read"]
                       /\ Stored' \subseteq Stored \cup (msgSeq + 1 .. msgSeq')
    BY DEF Stored
  <2>1. CASE Fanout  BY <2>1 DEF Fanout
  <2>2. CASE Marked \/ Dropped  BY <2>2 DEF Marked, Dropped
  <2>. QED  BY <2>1, <2>2, StoreStep
<1>. QED  BY <1>1, TypeCorrect, PTL DEF Spec, MessagesOnlyAge

\* Deleting a session leaves it in no room: a member that is not registered was
\* evicted by a registration.
THEOREM GhostsEvicted == Spec => []GhostsWereEvicted
<1>1. Init => GhostsWereEvicted
  BY DEF Init, GhostsWereEvicted
<1>2. TypeOK /\ GhostsWereEvicted /\ [Next]_vars => GhostsWereEvicted'
  <2>. SUFFICES ASSUME TypeOK, GhostsWereEvicted, [Next]_vars
                PROVE  GhostsWereEvicted'
    OBVIOUS
  <2>. /\ sessions \in Seq(SessionIds) /\ IsInjective(sessions)
       /\ members \in [RoomIds -> SUBSET SessionIds]
       /\ MAX_SESSIONS \in Nat \ {0} /\ Len(sessions) \in Nat
    BY CommunityAssumption, LenProperties DEF TypeOK
  <2>1. ASSUME NEW s \in SessionIds, Register(s)
        PROVE  members' = members /\ Registered \cup evicted \subseteq (Registered \cup evicted)'
    <3>1. CASE Len(sessions) < MAX_SESSIONS
      <4>1. sessions' = Append(sessions, s) /\ s \notin Range(sessions)
        BY <2>1, <3>1 DEF Register, Registered
      <4>2. Registered' = Registered \cup {s}  BY <4>1, KeyAdded DEF Registered
      <4>. QED  BY <2>1, <3>1, <4>2 DEF Register
    <3>2. CASE Len(sessions) >= MAX_SESSIONS
      <4>1. sessions' = Append(Tail(sessions), s) /\ s \notin Range(sessions)
        BY <2>1, <3>2 DEF Register, Registered
      <4>2. sessions # <<>>  BY <3>2, EmptySeq
      <4>3. Registered' = (Registered \ {Head(sessions)}) \cup {s}
        <5>. DEFINE t == Tail(sessions)
        <5>1. /\ t \in Seq(SessionIds) /\ IsInjective(t)
              /\ Range(t) = Range(sessions) \ {Head(sessions)}
          BY <4>2, OldestKeyRemoved
        <5>. HIDE DEF t
        <5>2. Range(Append(t, s)) = Range(t) \cup {s}  BY <4>1, <5>1, KeyAdded
        <5>. QED  BY <4>1, <5>1, <5>2 DEF Registered, t
      <4>. QED  BY <2>1, <3>2, <4>3 DEF Register
    <3>. QED  BY <3>1, <3>2
  <2>2. ASSUME NEW s \in SessionIds, NEW purge \in BOOLEAN, DeleteSession(s, purge)
        PROVE  GhostsWereEvicted'
    <3>1. Registered' = Registered \ {s}
      BY <2>2, WithoutKey DEF DeleteSession, Registered
    <3>2. evicted' = evicted /\ \A r \in RoomIds : members'[r] = members[r] \ {s}
      BY <2>2 DEF DeleteSession
    <3>. QED  BY <3>1, <3>2 DEF GhostsWereEvicted
  <2>3. CASE UNCHANGED <<sessions, evicted>>
    <3>1. Registered' = Registered /\ evicted' = evicted  BY <2>3 DEF Registered
    <3>2. \A r \in RoomIds : members'[r] \subseteq members[r] \cup Registered
      <4>1. ASSUME NEW s \in SessionIds, NEW r \in RoomIds, RoomCall(s, r)
            PROVE  \A q \in RoomIds : members'[q] \subseteq members[q] \cup {s} /\ s \in Registered
        BY <4>1 DEF RoomCall, CreateRoom, JoinRoom, LeaveRoom
      <4>2. ASSUME NEW r \in RoomIds, NEW purge \in BOOLEAN, DeleteRoom(r, purge)
            PROVE  \A q \in RoomIds : members'[q] \subseteq members[q]
        BY <4>2 DEF DeleteRoom
      <4>3. ASSUME NEW s \in SessionIds, NEW purge \in BOOLEAN, DeleteSession(s, purge)
            PROVE  \A q \in RoomIds : members'[q] \subseteq members[q]
        BY <4>3 DEF DeleteSession
      <4>. QED  BY <4>1, <4>2, <4>3, RoomsStep
    <3>. QED  BY <3>1, <3>2 DEF GhostsWereEvicted
  <2>. QED  BY <2>1, <2>2, <2>3, SessionsStep DEF GhostsWereEvicted
<1>. QED  BY <1>1, <1>2, TypeCorrect, PTL DEF Spec

----------------------------------------------------------------------------
(* The store implements the mailbox *)

LEMMA SameCardinality == \A S : MB!Cardinality(S) = Cardinality(S)
  BY DEF MB!Cardinality, Cardinality

LEMMA FanoutIsAccept ==
  ASSUME TypeOK, Fanout
  PROVE  MB!Accept
<1>. DEFINE U == HasStatus("unread")
            R == HasStatus("read")
            all == Stored \cup (msgSeq + 1 .. msgSeq')
            lost == all \ Stored'
<1>1. \A i \in Stored : messages[i].status \in {"unread", "read"}
  BY DEF TypeOK, Message
<1>2. \A i : /\ i \in U <=> i \in Stored /\ messages[i].status = "unread"
             /\ i \in R <=> i \in Stored /\ messages[i].status = "read"
             /\ i \in U' <=> i \in Stored' /\ messages'[i].status = "unread"
             /\ i \in R' <=> i \in Stored' /\ messages'[i].status = "read"
  BY DEF HasStatus
<1>3. msgSeq' \in Nat /\ msgSeq <= msgSeq' /\ Stored' \subseteq all
  BY DEF Fanout
<1>4. Cardinality(lost) = Excess(Cardinality(all), MAX_MESSAGES)
  BY DEF Fanout, IsEvicted
<1>5. \A i \in Stored' \ Stored : messages'[i].status = "unread"
  BY DEF Fanout
<1>. HIDE DEF U, R
<1>6. ASSUME NEW i
      PROVE  /\ i \in R' <=> i \in R \ lost
             /\ i \in U' <=> i \in (all \ R) \ lost
  <2>1. CASE i \notin Stored'
    <3>1. i \notin R' /\ i \notin U'  BY <1>2, <2>1
    <3>2. i \in all => i \in lost  BY <2>1
    <3>3. i \in R => i \in all  BY <1>2
    <3>. QED  BY <3>1, <3>2, <3>3
  <2>2. CASE i \in Stored' /\ i \in Stored
    <3>0. i \notin lost /\ i \in all  BY <2>2
    <3>1. messages'[i] = messages[i]  BY <2>2 DEF Fanout
    <3>2. i \in R' <=> i \in R  BY <1>2, <2>2, <3>1
    <3>3. i \in U' <=> i \notin R  BY <1>1, <1>2, <2>2, <3>1
    <3>. QED  BY <2>2, <3>0, <3>2, <3>3
  <2>3. CASE i \in Stored' /\ i \notin Stored
    <3>1. messages'[i].status = "unread" /\ i \notin lost /\ i \in all  BY <1>3, <1>5, <2>3
    <3>2. i \notin R /\ i \notin R' /\ i \in U'  BY <1>2, <2>3, <3>1
    <3>. QED  BY <3>1, <3>2
  <2>. QED  BY <2>1, <2>2, <2>3
<1>8. R' = R \ lost /\ U' = (all \ R) \ lost /\ all = U \cup R \cup (msgSeq + 1 .. msgSeq')
  BY <1>1, <1>2, <1>6
<1>. HIDE DEF all
<1>9. \E L \in SUBSET all : /\ Cardinality(L) = Excess(Cardinality(all), MAX_MESSAGES)
                           /\ U' = (all \ R) \ L /\ R' = R \ L
  BY <1>4, <1>8
<1>. QED  BY <1>3, <1>8, <1>9, SameCardinality DEF MB!Accept, MB!Excess, Excess, U, R

LEMMA MarkedIsCollect ==
  ASSUME TypeOK, Marked
  PROVE  MB!Collect
<1>. DEFINE S == {i \in HasStatus("unread") : messages'[i].status = "read"}
<1>1. \A i \in Stored : /\ messages[i] \in Message
                       /\ messages[i].status \in {"unread", "read"}
  BY DEF TypeOK, Message
<1>2. ASSUME NEW i \in Stored
      PROVE  messages'[i].status = "read" \/ messages'[i].status = messages[i].status
  BY <1>1, <1>2 DEF Marked, Message
<1>3. HasStatus("unread")' = HasStatus("unread") \ S
  BY <1>1, <1>2 DEF HasStatus, Marked
<1>4. HasStatus("read")' = HasStatus("read") \cup S
  BY <1>1, <1>2 DEF HasStatus, Marked
<1>. QED  BY <1>3, <1>4 DEF MB!Collect, Marked

LEMMA DroppedIsDiscard ==
  ASSUME TypeOK, Dropped
  PROVE  MB!Discard
<1>. DEFINE S == Stored \ Stored'
<1>1. S \in SUBSET (HasStatus("unread") \cup HasStatus("read"))
  BY DEF HasStatus, TypeOK, Message
<1>2. \A st \in {"unread", "read"} : HasStatus(st)' = HasStatus(st) \ S
  BY DEF HasStatus, Dropped
<1>. QED  BY <1>1, <1>2 DEF MB!Discard, Dropped

\* The three Maps and their handlers implement the mailbox: a stored message is
\* lost to a newer one only when the store is full, one for one.
THEOREM ImplementsMailbox == Spec => KeepsMailbox
<1>1. Init => MB!Init
  BY DEF Init, MB!Init, HasStatus, Stored
<1>2. TypeOK /\ [Next]_vars => [MB!Next]_MB!vars
  BY StoreStep, FanoutIsAccept, MarkedIsCollect, DroppedIsDiscard DEF MB!Next
<1>. QED  BY <1>1, <1>2, TypeCorrect, PTL DEF Spec, KeepsMailbox, MB!Spec

----------------------------------------------------------------------------
(* The delivery loop evicts what the single step of Community evicts *)

LEMMA OldestIsMinimum ==
  ASSUME NEW S \in SUBSET Nat, S # {}
  PROVE  Oldest(S) \in S /\ \A j \in S : Oldest(S) <= j
<1>. DEFINE Less == {p \in Nat \X Nat : p[1] < p[2]}
<1>1. IsWellFoundedOn(Less, Nat)
  BY NatLessThanWellFounded DEF OpToRel
<1>2. PICK i \in S : \A j \in S : <<j, i>> \notin Less
  BY <1>1, WFMin
<1>3. ASSUME NEW j \in S, j < i PROVE FALSE
  <2>1. <<j, i>> \in Nat \X Nat  OBVIOUS
  <2>2. <<j, i>> \in Less  BY <1>3, <2>1
  <2>. QED  BY <1>2, <2>2
<1>4. \A j \in S : i <= j
  BY <1>3
<1>. QED  BY <1>4 DEF Oldest

\* The victim is a stored message that comes before every other stored one.
LEMMA VictimIsFirst ==
  ASSUME FanoutTypeOK, store # {}
  PROVE  /\ Victim \in store
         /\ \A k \in store \ {Victim} : EvictedBefore(stale, Victim, k)
<1>1. store \in SUBSET Nat /\ store \cap stale \in SUBSET Nat
  BY DEF FanoutTypeOK, All
<1>2. CASE store \cap stale # {}
  <2>1. Victim = Oldest(store \cap stale)  BY <1>2 DEF Victim
  <2>2. /\ Victim \in store \cap stale
        /\ \A j \in store \cap stale : Victim <= j
    BY <1>1, <1>2, <2>1, OldestIsMinimum
  <2>. QED  BY <1>1, <2>2 DEF EvictedBefore
<1>3. CASE store \cap stale = {}
  <2>1. Victim = Oldest(store)  BY <1>3 DEF Victim
  <2>2. Victim \in store /\ \A j \in store : Victim <= j
    BY <1>1, <2>1, OldestIsMinimum
  <2>. QED  BY <1>1, <1>3, <2>2 DEF EvictedBefore
<1>. QED  BY <1>2, <1>3

LEMMA AllIsFinite ==
  ASSUME FanoutTypeOK
  PROVE  /\ IsFiniteSet(All) /\ IsFiniteSet(store) /\ IsFiniteSet(All \ store)
         /\ Cardinality(All) \in Nat /\ Cardinality(store) \in Nat
         /\ Cardinality(All \ store) = Cardinality(All) - Cardinality(store)
<1>1. IsFiniteSet(1 .. issued)  BY FS_Interval DEF FanoutTypeOK
<1>2. All \in SUBSET (1 .. issued)  BY DEF FanoutTypeOK, All
<1>3. IsFiniteSet(All)  BY <1>1, <1>2, FS_Subset
<1>4. store \in SUBSET All  BY DEF FanoutTypeOK
<1>5. All \cap store = store  BY <1>4
<1>6. IsFiniteSet(store) /\ IsFiniteSet(All \ store)
  BY <1>3, <1>4, FS_Subset, FS_Difference
<1>. QED  BY <1>3, <1>5, <1>6, FS_Difference, FS_CardinalityType

\* Type correctness: ids are issued in order and nothing foreign is stored.
THEOREM FanoutTypeCorrect == FanoutSpec => []FanoutTypeOK
<1>1. FanoutInit => FanoutTypeOK
  BY FanoutAssumption DEF FanoutInit, FanoutTypeOK, All
<1>2. FanoutTypeOK /\ [FanoutNext]_fanoutVars => FanoutTypeOK'
  <2>. SUFFICES ASSUME FanoutTypeOK, [FanoutNext]_fanoutVars PROVE FanoutTypeOK'
    OBVIOUS
  <2>1. CASE Iterate
    <3>1. /\ first' \in Nat /\ issued' \in Nat /\ left' \in Nat
          /\ first' <= issued' /\ before' \subseteq 1 .. first' /\ stale' \subseteq before'
      BY <2>1 DEF FanoutTypeOK, Iterate
    <3>2. All' = All \cup {issued + 1}
      BY <2>1 DEF FanoutTypeOK, All, Iterate
    <3>3. store' \subseteq All'
      BY <2>1, <3>2 DEF FanoutTypeOK, Iterate
    <3>. QED  BY <3>1, <3>3 DEF FanoutTypeOK
  <2>2. CASE UNCHANGED fanoutVars
    BY <2>2 DEF FanoutTypeOK, All, fanoutVars
  <2>. QED  BY <2>1, <2>2 DEF FanoutNext
<1>. QED  BY <1>1, <1>2, PTL DEF FanoutSpec

\* One iteration keeps the account of what has been evicted.
LEMMA IterateEvictsInOrder ==
  ASSUME FanoutTypeOK, LoopEvictsInOrder, Iterate
  PROVE  LoopEvictsInOrder'
<1>. DEFINE n == issued + 1
<1>1. All' = All \cup {n} /\ n \notin All /\ n \notin stale /\ stale' = stale
      /\ \A u \in All : u \in Nat /\ u < n
  BY DEF FanoutTypeOK, All, Iterate
<1>2. Cardinality(All') = Cardinality(All) + 1 /\ Cardinality(All) \in Nat
  BY <1>1, AllIsFinite, FS_AddElement
<1>3. /\ Cardinality(All) - Cardinality(store) = Excess(Cardinality(All), FanoutCap)
      /\ Cardinality(store) \in Nat
  BY AllIsFinite DEF LoopEvictsInOrder, IsEvicted
<1>4. FanoutCap \in Nat \ {0}
  BY FanoutAssumption
<1>5. \A u \in All : EvictedBefore(stale, u, n) 
  BY <1>1 DEF EvictedBefore
<1>6. CASE Cardinality(store) < FanoutCap
  <2>1. store' = store \cup {n}  BY <1>3, <1>4, <1>6 DEF Iterate
  <2>2. Cardinality(All \ store) = 0
    BY <1>2, <1>3, <1>4, <1>6, AllIsFinite DEF Excess
  <2>3. All \ store = {}  BY <2>2, AllIsFinite, FS_EmptySet
  <2>4. (All \ store)' = {}  BY <1>1, <2>1, <2>3
  <2>5. Excess(Cardinality(All'), FanoutCap) = 0
    BY <1>2, <1>3, <1>4, <1>6, <2>2, AllIsFinite DEF Excess
  <2>. QED  BY <2>4, <2>5, FS_EmptySet DEF LoopEvictsInOrder, IsEvicted
<1>7. CASE Cardinality(store) >= FanoutCap
  <2>1. store' = (store \ {Victim}) \cup {n}  BY <1>7 DEF Iterate
  <2>2. store # {}  BY <1>4, <1>7, FS_EmptySet
  <2>3. Victim \in store /\ \A k \in store \ {Victim} : EvictedBefore(stale, Victim, k)
    BY <2>2, VictimIsFirst
  <2>4. Victim \in All /\ Victim # n  BY <1>1, <2>3 DEF FanoutTypeOK
  <2>5. (All \ store)' = (All \ store) \cup {Victim}
    BY <1>1, <2>1, <2>3, <2>4 DEF FanoutTypeOK
  <2>6. Cardinality((All \ store)') = Cardinality(All \ store) + 1
    BY <2>3, <2>5, AllIsFinite, FS_AddElement
  <2>7. Excess(Cardinality(All'), FanoutCap) = Excess(Cardinality(All), FanoutCap) + 1
    BY <1>2, <1>3, <1>4, <1>7 DEF Excess
  <2>8. Cardinality((All \ store)') = Excess(Cardinality(All'), FanoutCap)
    BY <1>3, <2>6, <2>7, AllIsFinite
  <2>9. ASSUME NEW u \in (All \ store)', NEW k \in All' \ (All \ store)'
        PROVE  EvictedBefore(stale', u, k)
    <3>1. u \in All \ store \/ u = Victim  BY <2>5
    <3>2. u \in All  BY <2>4, <3>1
    <3>3. k = n \/ k \in store \ {Victim}  BY <1>1, <2>5
    <3>4. CASE k = n  BY <1>1, <1>5, <3>2, <3>4
    <3>5. CASE k \in store \ {Victim} /\ u = Victim  BY <1>1, <2>3, <3>5
    <3>6. CASE k \in store \ {Victim} /\ u \in All \ store
      <4>1. k \in All \ (All \ store)  BY <3>6 DEF FanoutTypeOK
      <4>. QED  BY <1>1, <3>6, <4>1 DEF LoopEvictsInOrder, IsEvicted
    <3>. QED  BY <3>1, <3>3, <3>4, <3>5, <3>6
  <2>10. (All \ store)' \subseteq All'  OBVIOUS
  <2>. QED  BY <2>8, <2>9, <2>10 DEF LoopEvictsInOrder, IsEvicted
<1>. QED  BY <1>3, <1>4, <1>6, <1>7

\* After any number of recipients the loop has evicted exactly what IsEvicted,
\* the single step of Community, says: for every cap and every store.
THEOREM FanoutIsOneStep == FanoutSpec => []LoopEvictsInOrder
<1>1. FanoutInit => LoopEvictsInOrder
  <2>. SUFFICES ASSUME FanoutInit PROVE LoopEvictsInOrder
    OBVIOUS
  <2>1. All = before /\ store = before  BY FanoutAssumption DEF FanoutInit, All
  <2>2. All \ store = {}  BY <2>1
  <2>3. Cardinality(All) <= FanoutCap  BY <2>1 DEF FanoutInit
  <2>4. FanoutTypeOK  BY FanoutAssumption DEF FanoutInit, FanoutTypeOK, All
  <2>5. Excess(Cardinality(All), FanoutCap) = 0
    BY <2>3, <2>4, AllIsFinite, FanoutAssumption DEF Excess
  <2>. QED  BY <2>2, <2>5, FS_EmptySet DEF LoopEvictsInOrder, IsEvicted
<1>2. FanoutTypeOK /\ LoopEvictsInOrder /\ [FanoutNext]_fanoutVars => LoopEvictsInOrder'
  <2>1. FanoutTypeOK /\ LoopEvictsInOrder /\ Iterate => LoopEvictsInOrder'
    BY IterateEvictsInOrder
  <2>2. LoopEvictsInOrder /\ UNCHANGED fanoutVars => LoopEvictsInOrder'
    BY DEF LoopEvictsInOrder, All, fanoutVars
  <2>. QED  BY <2>1, <2>2 DEF FanoutNext
<1>. QED  BY <1>1, <1>2, FanoutTypeCorrect, PTL DEF FanoutSpec

----------------------------------------------------------------------------
(* Tool calls *)

\* The inbox count stapled to a result is that of the moment the result is returned,
\* whatever the other sessions did while the tool was at work.
THEOREM NoticesAreCurrent == CallsSpec => NoticeIsCurrent
<1>. DEFINE c0 == DOMAIN call = Calls
            A == \A c \in Calls :
                   call'[c].at = "returned" /\ call[c].at # "returned" /\ call'[c].notice # NoNotice
                     => /\ call'[c].session \in Registered
                        /\ call'[c].notice = Cardinality(Unread(call'[c].session))
<1>1. CallsInit => c0
  BY DEF CallsInit, NoticeInit
<1>2. c0 /\ [CallsNext]_<<noticeVars, pipelineVars>> => c0' /\ [A]_noticeVars
  <2>. SUFFICES ASSUME c0, NoticeNext PROVE c0' /\ A
    BY DEF CallsNext, noticeVars
  <2>1. CASE Next /\ UNCHANGED call
    BY <2>1
  <2>2. ASSUME NEW c \in Calls, NEW s \in SessionIds, SyncCall(c, s) PROVE c0' /\ A
    BY <2>2 DEF SyncCall, Returned, Injected
  <2>3. ASSUME NEW c \in Calls, NEW s \in SessionIds, AsyncCall(c, s) PROVE c0' /\ A
    BY <2>3 DEF AsyncCall, Pending
  <2>4. ASSUME NEW c \in Calls, NEW s \in SessionIds, CommunityCall(c, s) PROVE c0' /\ A
    BY <2>4 DEF CommunityCall, Returned
  <2>5. ASSUME NEW c \in Calls, Fulfilled(c) PROVE c0' /\ A
    BY <2>5 DEF Fulfilled, Returned, Injected
  <2>6. ASSUME NEW c \in Calls, Rejected(c) PROVE c0' /\ A
    BY <2>6 DEF Rejected, Failed
  <2>. QED  BY <2>1, <2>2, <2>3, <2>4, <2>5, <2>6 DEF NoticeNext
<1>. HIDE DEF c0
<1>. QED  BY <1>1, <1>2, PTL DEF CallsSpec, NoticeIsCurrent

----------------------------------------------------------------------------
(* The pipeline *)

Fatal(k) == results[k] = "error" /\ steps[k].on_error = "stop"

\* Up to the step to run next: each has its entry, none of them ended the pipeline.
GoingOn ==
  /\ Len(results) = next - 1
  /\ \A k \in 1 .. next - 1 : results[k] # "skipped" /\ ~Fatal(k)
  /\ ToSet(ran) = {k \in 1 .. next - 1 : steps[k].op}

PipelineInv ==
  /\ steps \in Seq(StepArgs) /\ results \in Seq({"ok", "error", "skipped"})
  /\ next \in 1 .. Len(steps) + 1 /\ stoppedAt \in Nat
  /\ ran \in Seq(Int) /\ Increasing(ran)
  /\ IF stoppedAt = 0 THEN thrown \/ GoingOn ELSE done
  /\ done => steps # <<>> /\ ~thrown /\ (next = Len(steps) + 1 \/ stoppedAt # 0)
  /\ thrown => steps # <<>>
  /\ ReportIsTrue

\* What a step adds to the tools that were called.
Runs == ran' = IF steps[next].op THEN Append(ran, next) ELSE ran

LEMMA RanNext ==
  ASSUME PipelineInv, GoingOn, InLoop, Runs
  PROVE  /\ ran' \in Seq(Int) /\ Increasing(ran')
         /\ ToSet(ran') = {k \in 1 .. next : steps[k].op}
<1>1. next \in Nat \ {0} /\ next \in 1 .. Len(steps) /\ Len(steps) \in Nat
  BY DEF PipelineInv, InLoop
<1>2. 1 .. next = (1 .. next - 1) \cup {next} /\ next \in Int
  BY <1>1
<1>3. CASE steps[next].op
  <2>1. Below(ToSet(ran), {next})
    BY <1>1 DEF GoingOn, Below
  <2>2. ran' = Append(ran, next)
    BY <1>3 DEF Runs
  <2>3. /\ ran' \in Seq(Int) /\ Increasing(ran')
        /\ ToSet(ran') = ToSet(ran) \cup {next}
    BY <1>2, <2>1, <2>2, AppendIncreasing DEF PipelineInv
  <2>. QED  BY <1>2, <1>3, <2>3 DEF GoingOn
<1>4. CASE ~steps[next].op
  <2>1. ran' = ran
    BY <1>4 DEF Runs
  <2>. QED  BY <1>2, <1>4, <2>1 DEF GoingOn, PipelineInv
<1>. QED  BY <1>3, <1>4

\* A step that does not end the pipeline.
LEMMA PipelineGoesOn ==
  ASSUME PipelineInv, InLoop, Runs, NEW x \in {"ok", "error"},
         x = "error" => steps[next].on_error # "stop",
         results' = Append(results, x), next' = next + 1,
         UNCHANGED <<steps, stoppedAt, done, thrown>>
  PROVE  PipelineInv'
<1>1. /\ ~done /\ stoppedAt = 0 /\ GoingOn
      /\ next \in Nat \ {0} /\ next \in 1 .. Len(steps) /\ Len(steps) \in Nat
  BY DEF PipelineInv, InLoop
<1>2. /\ ran' \in Seq(Int) /\ Increasing(ran')
      /\ ToSet(ran') = {k \in 1 .. next : steps[k].op}
  BY <1>1, RanNext
<1>3. /\ results' \in Seq({"ok", "error", "skipped"}) /\ Len(results') = next
      /\ results'[next] = x /\ \A k \in 1 .. next - 1 : results'[k] = results[k]
  BY <1>1 DEF PipelineInv, GoingOn
<1>4. \A k \in 1 .. next : results'[k] # "skipped" /\ ~Fatal(k)'
  <2>. SUFFICES ASSUME NEW k \in 1 .. next PROVE results'[k] # "skipped" /\ ~Fatal(k)'
    OBVIOUS
  <2>1. CASE k = next
    BY <1>1, <1>3, <2>1 DEF Fatal
  <2>2. CASE k \in 1 .. next - 1
    <3>1. results'[k] = results[k] /\ steps' = steps
      BY <1>3, <2>2
    <3>2. results[k] # "skipped" /\ ~Fatal(k)
      BY <1>1, <2>2 DEF GoingOn
    <3>. QED  BY <3>1, <3>2 DEF Fatal
  <2>3. k = next \/ k \in 1 .. next - 1
    BY <1>1
  <2>. QED  BY <2>1, <2>2, <2>3
<1>5. GoingOn'
  BY <1>1, <1>2, <1>3, <1>4 DEF GoingOn
<1>6. ReportIsTrue'
  BY <1>1 DEF ReportIsTrue
<1>. QED  BY <1>1, <1>2, <1>3, <1>5, <1>6 DEF PipelineInv

\* A step that does: later ones are not run, and have no entry or one as skipped.
LEMMA PipelineStops ==
  ASSUME PipelineInv, InLoop, Runs, steps[next].on_error = "stop",
         results' \in Seq({"ok", "error", "skipped"}),
         Len(results') \in next .. Len(steps),
         \A k \in 1 .. next - 1 : results'[k] = results[k],
         results'[next] = "error",
         \A k \in next + 1 .. Len(results') : results'[k] = "skipped",
         stoppedAt' = next, done' = TRUE, UNCHANGED <<steps, next, thrown>>
  PROVE  PipelineInv'
<1>1. /\ ~done /\ ~thrown /\ stoppedAt = 0 /\ GoingOn
      /\ next \in Nat \ {0} /\ next \in 1 .. Len(steps) /\ Len(steps) \in Nat
  BY DEF PipelineInv, InLoop
<1>2. /\ ran' \in Seq(Int) /\ Increasing(ran')
      /\ ToSet(ran') = {k \in 1 .. next : steps[k].op}
  BY <1>1, RanNext
<1>3. DOMAIN results' = 1 .. Len(results') /\ DOMAIN steps = 1 .. Len(steps)
  BY DEF PipelineInv
<1>. DEFINE fatal == {k \in DOMAIN results \cap DOMAIN steps : Fatal(k)}
<1>4. \A k \in DOMAIN results' : k \in Int /\ (Fatal(k)' <=> k = next)
  <2>. SUFFICES ASSUME NEW k \in 1 .. Len(results') PROVE Fatal(k)' <=> k = next
    BY <1>1, <1>3
  <2>1. CASE k \in 1 .. next - 1
    BY <1>1, <2>1 DEF GoingOn, Fatal
  <2>2. CASE k = next
    BY <2>2 DEF Fatal
  <2>3. CASE k \in next + 1 .. Len(results')
    BY <1>1, <2>3 DEF Fatal
  <2>. QED  BY <1>1, <2>1, <2>2, <2>3
<1>5. fatal' = {next}
  BY <1>1, <1>3, <1>4
<1>6. \A k \in DOMAIN results' : results'[k] = "skipped" <=> k > next
  <2>. SUFFICES ASSUME NEW k \in 1 .. Len(results') PROVE results'[k] = "skipped" <=> k > next
    BY <1>3
  <2>1. CASE k \in 1 .. next - 1
    BY <1>1, <2>1 DEF GoingOn
  <2>2. CASE k = next
    BY <1>1, <2>2
  <2>3. CASE k \in next + 1 .. Len(results')
    BY <1>1, <2>3
  <2>. QED  BY <1>1, <2>1, <2>2, <2>3
<1>. HIDE DEF fatal
<1>7. ReportIsTrue'
  <2>1. \A j, k \in DOMAIN ran' : j < k => ran'[j] < ran'[k]
    BY <1>2 DEF Increasing
  <2>2. /\ Len(results') <= Len(steps') /\ fatal' = {stoppedAt'} /\ stoppedAt' # 0
        /\ ToSet(ran') = {k \in 1 .. stoppedAt' : steps'[k].op}
        /\ \A k \in DOMAIN results' : results'[k] = "skipped" <=> k > stoppedAt'
    BY <1>1, <1>2, <1>5, <1>6
  <2>. QED  BY <2>1, <2>2 DEF ReportIsTrue, fatal, Fatal
<1>. QED  BY <1>1, <1>2, <1>7 DEF PipelineInv

LEMMA PipelineStep ==
  ASSUME PipelineInv, [PipelineNext]_pipelineVars
  PROVE  PipelineInv'
<1>1. CASE PipelineCall
  <2>1. steps' \in Seq(StepArgs)
    BY <1>1 DEF PipelineCall, PipelineAssumption
  <2>2. Len(steps) = 0
    BY <1>1 DEF PipelineCall
  <2>3. /\ next = 1 /\ ~done /\ stoppedAt = 0
        /\ Len(steps') \in Nat /\ next \in 1 .. Len(steps') + 1
    <3>1. ~done
      BY <1>1 DEF PipelineCall, PipelineInv
    <3>2. next = 1
      BY <2>2 DEF PipelineInv
    <3>3. Len(steps') \in Nat
      BY <2>1
    <3>. QED  BY <3>1, <3>2, <3>3 DEF PipelineInv
  <2>4. GoingOn'
    BY <1>1, <2>3 DEF PipelineCall, PipelineInv, GoingOn
  <2>. QED  BY <1>1, <2>1, <2>3, <2>4 DEF PipelineCall, PipelineInv, ReportIsTrue
<1>2. CASE NoOp
  <2>1. InLoop /\ Runs /\ UNCHANGED <<steps, thrown>> /\ results' = Append(results, "error")
    BY <1>2 DEF NoOp, Runs
  <2>2. CASE steps[next].on_error = "stop"
    <3>1. stoppedAt' = next /\ done' = TRUE /\ next' = next
      BY <1>2, <2>2 DEF NoOp
    <3>2. /\ Len(results) = next - 1 /\ next \in 1 .. Len(steps) /\ Len(steps) \in Nat
          /\ results \in Seq({"ok", "error", "skipped"})
      BY <2>1 DEF PipelineInv, InLoop, GoingOn
    <3>3. /\ results' \in Seq({"ok", "error", "skipped"}) /\ Len(results') = next
          /\ \A k \in 1 .. next - 1 : results'[k] = results[k]
          /\ results'[next] = "error"
      BY <2>1, <3>2
    <3>4. Len(results') \in next .. Len(steps) /\ next + 1 .. Len(results') = {}
      BY <3>2, <3>3
    <3>. QED  BY <2>1, <2>2, <3>1, <3>3, <3>4, PipelineStops
  <2>3. CASE steps[next].on_error # "stop"
    <3>1. next' = next + 1 /\ UNCHANGED <<steps, stoppedAt, done, thrown>>
      BY <1>2, <2>3 DEF NoOp
    <3>. QED  BY <2>1, <2>3, <3>1, PipelineGoesOn
  <2>. QED  BY <2>2, <2>3
<1>3. CASE StepSucceeds
  BY <1>3, PipelineGoesOn DEF StepSucceeds, Runs
<1>4. CASE StepFails
  <2>1. InLoop /\ Runs /\ UNCHANGED <<steps, thrown>>
    BY <1>4 DEF StepFails, Runs
  <2>2. CASE steps[next].on_error = "stop"
    <3>. DEFINE e == Append(results, "error")
                z == Skipped(next)
                S == {"ok", "error", "skipped"}
    <3>1. stoppedAt' = next /\ done' = TRUE /\ next' = next /\ results' = e \o z
      BY <1>4, <2>2 DEF StepFails
    <3>2. /\ Len(results) = next - 1 /\ next \in 1 .. Len(steps) /\ Len(steps) \in Nat
          /\ results \in Seq(S)
      BY <2>1 DEF PipelineInv, InLoop, GoingOn
    <3>3. /\ e \in Seq(S) /\ Len(e) = next
          /\ \A k \in 1 .. next - 1 : e[k] = results[k]
          /\ e[next] = "error"
      BY <3>2
    <3>4. /\ z \in Seq(S) /\ Len(z) = Len(steps) - next
          /\ \A k \in 1 .. Len(z) : z[k] = "skipped"
      BY <3>2 DEF Skipped
    <3>. HIDE DEF e, z, S
    <3>5. /\ results' \in Seq(S) /\ Len(results') = Len(e) + Len(z)
          /\ \A k \in 1 .. Len(e) + Len(z) :
               results'[k] = IF k <= Len(e) THEN e[k] ELSE z[k - Len(e)]
      BY <3>1, <3>3, <3>4, ConcatProperties
    <3>6. Len(results') = Len(steps) /\ results'[next] = "error"
      BY <3>2, <3>3, <3>4, <3>5
    <3>7. \A k \in 1 .. next - 1 : results'[k] = results[k]
      <4>1. \A k \in 1 .. next - 1 : k \in 1 .. Len(e) + Len(z) /\ k <= Len(e)
        BY <3>2, <3>3, <3>4
      <4>. QED  BY <3>3, <3>5, <4>1
    <3>8. \A k \in next + 1 .. Len(results') : results'[k] = "skipped"
      BY <3>2, <3>3, <3>4, <3>5, <3>6, SMTT(20)
    <3>. QED  BY <2>1, <2>2, <3>1, <3>2, <3>5, <3>6, <3>7, <3>8, PipelineStops DEF S
  <2>3. CASE steps[next].on_error # "stop"
    <3>1. /\ next' = next + 1 /\ UNCHANGED <<stoppedAt, done>>
          /\ results' = Append(results, "error")
      BY <1>4, <2>3 DEF StepFails
    <3>. QED  BY <2>1, <2>3, <3>1, PipelineGoesOn
  <2>. QED  BY <2>2, <2>3
<1>5. CASE PipelineReturns
  <2>1. /\ GoingOn /\ stoppedAt = 0 /\ next = Len(steps) + 1 /\ Len(steps) \in Nat
        /\ DOMAIN results = 1 .. Len(steps) /\ Len(results) = Len(steps)
        /\ DOMAIN steps = 1 .. Len(steps)
    BY <1>5 DEF PipelineReturns, PipelineInv, GoingOn
  <2>2. \A j, k \in DOMAIN ran : j < k => ran[j] < ran[k]
    BY DEF PipelineInv, Increasing
  <2>3. /\ \A k \in DOMAIN results : ~Fatal(k) /\ results[k] # "skipped" /\ ~(k > Len(steps))
        /\ ToSet(ran) = {k \in 1 .. Len(steps) : steps[k].op}
    BY <2>1 DEF GoingOn
  <2>4. /\ UNCHANGED <<steps, next, results, ran, stoppedAt, thrown>>
        /\ done' /\ ~thrown /\ steps # <<>>
    BY <1>5 DEF PipelineReturns
  <2>5. ReportIsTrue'
    BY <2>1, <2>2, <2>3, <2>4 DEF ReportIsTrue, Fatal
  <2>. QED  BY <2>1, <2>4, <2>5 DEF PipelineInv, GoingOn, Fatal
<1>6. CASE NullStep
  <2>1. /\ ~done /\ stoppedAt = 0 /\ GoingOn /\ steps # <<>>
        /\ next \in 1 .. Len(steps)
    BY <1>6 DEF NullStep, InLoop, PipelineInv
  <2>2. /\ UNCHANGED <<steps, next, results, stoppedAt, done>> /\ thrown'
        /\ ran' = ran \/ Runs
    BY <1>6 DEF NullStep, Runs
  <2>3. ran' \in Seq(Int) /\ Increasing(ran')
    BY <1>6, <2>1, <2>2, RanNext DEF NullStep, PipelineInv
  <2>. QED  BY <2>1, <2>2, <2>3 DEF PipelineInv, ReportIsTrue
<1>7. CASE UNCHANGED pipelineVars
  BY <1>7 DEF pipelineVars, PipelineInv, GoingOn, Fatal, ReportIsTrue
<1>. QED  BY <1>1, <1>2, <1>3, <1>4, <1>5, <1>6, <1>7 DEF PipelineNext

\* For a pipeline of any length, whatever becomes of each of its steps: no tool runs
\* after a step that fails with on_error "stop", those before ran in order and once, and
\* the report says so.
THEOREM ReportsAreTrue == CallsSpec => []ReportIsTrue
<1>1. CallsInit => PipelineInv
  <2>. SUFFICES ASSUME PipelineInit PROVE PipelineInv
    BY DEF CallsInit
  <2>. DEFINE none == <<>>
  <2>1. /\ steps = none /\ next = 1 /\ results = none /\ ran = none
        /\ stoppedAt = 0 /\ done = FALSE /\ thrown = FALSE
    BY DEF PipelineInit
  <2>2. /\ \A S : none \in Seq(S)
        /\ Len(none) = 0 /\ ToSet(none) = {} /\ Increasing(none)
    BY DEF ToSet, Increasing
  <2>. HIDE DEF none
  <2>. QED  BY <2>1, <2>2 DEF PipelineInv, GoingOn, ReportIsTrue
<1>2. PipelineInv /\ [CallsNext]_<<noticeVars, pipelineVars>> => PipelineInv'
  <2>1. [CallsNext]_<<noticeVars, pipelineVars>> => [PipelineNext]_pipelineVars
    BY DEF CallsNext
  <2>. QED  BY <2>1, PipelineStep
<1>3. PipelineInv => ReportIsTrue
  BY DEF PipelineInv
<1>. QED  BY <1>1, <1>2, <1>3, PTL DEF CallsSpec
=============================================================================
