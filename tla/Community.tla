----------------------------- MODULE Community -----------------------------
(***************************************************************************)
(* The AI-community store of lib/communityOps.js: three insertion-ordered  *)
(* Maps (SESSIONS, MESSAGES, ROOMS) changed by synchronous tool handlers.  *)
(* A handler never yields, so each one is a single step; the interleaving  *)
(* is the order in which several AIs call them, and the clock.             *)
(*                                                                         *)
(* Abstracted: names, descriptions, bodies and the display-only timestamps *)
(* created_at, last_seen_at and read_at (set exactly when status is set to *)
(* "read").  The read-only tools change nothing and are not actions.       *)
(***************************************************************************)
EXTENDS EvictionOrder, Sequences, SequencesExt

CONSTANTS
  SessionIds,      \* the session_id strings clients may use
  RoomIds,         \* the room_id strings, supplied or generated
  NoRoom,          \* room_id: null of a direct or broadcast message
  Never,           \* expires_at: null
  MAX_SESSIONS, MAX_MESSAGES, MAX_ROOMS,
  Ttls,            \* the ttl_seconds values clients pass, in clock units
  PageSizes,       \* the page_size values clients pass
  MaxMsgSeq,       \* bound: messages ever sent
  MaxTime,         \* bound: the clock
  MaxTargets,      \* bound: length of an explicit to_sessions array
  MaxPage          \* bound: page numbers requested

ASSUME CommunityAssumption ==
  /\ IsFiniteSet(SessionIds)
  /\ NoRoom \notin RoomIds
  /\ Never \notin Nat
  /\ MAX_SESSIONS \in Nat \ {0}
  /\ MAX_MESSAGES \in Nat \ {0}
  /\ MAX_ROOMS \in Nat \ {0}
  /\ Ttls \subseteq Nat          \* a positive ttl below a millisecond is 0 here
  /\ PageSizes \subseteq Nat \ {0}
  /\ MaxMsgSeq \in Nat /\ MaxTime \in Nat /\ MaxTargets \in Nat /\ MaxPage \in Nat

VARIABLES
  sessions,        \* SESSIONS: the registered ids, oldest insertion first
  messages,        \* MESSAGES: message id -> record; ids grow with insertion
  msgSeq,          \* _msgSeq: the last message id issued
  rooms,           \* ROOMS: the room ids, oldest insertion first
  members,         \* room.members, {} for a room that does not exist
  now,             \* Date.now()
  evicted          \* history: ids dropped by evictOldestSession since registered

vars == <<sessions, messages, msgSeq, rooms, members, now, evicted>>

Registered == Range(sessions)
Rooms == Range(rooms)
Stored == DOMAIN messages

Message ==
  [from : SessionIds, to : SessionIds, room : RoomIds \cup {NoRoom},
   sent : Nat, expires : Nat \cup {Never}, reply : Nat,
   status : {"unread", "read"}]

\* isExpired: strictly past its expires_at.
IsExpired(m, t) == m.expires # Never /\ m.expires < t

Stale(store) == {i \in DOMAIN store : IsExpired(store[i], now)}

Without(seq, x) == RemoveAt(seq, CHOOSE i \in DOMAIN seq : seq[i] = x)

Init ==
  /\ sessions = <<>>
  /\ messages = [i \in {} |-> 0]
  /\ msgSeq = 0
  /\ rooms = <<>>
  /\ members = [r \in RoomIds |-> {}]
  /\ now = 1
  /\ evicted = {}

----------------------------------------------------------------------------
(* Sessions *)

\* communityRegister: a known id is only refreshed; a new one may push out the
\* oldest registration, whose rooms and messages evictOldestSession leaves.
Register(s) ==
  /\ s \notin Registered
  /\ IF Len(sessions) >= MAX_SESSIONS
     THEN /\ sessions' = Append(Tail(sessions), s)
          /\ evicted' = (evicted \cup {Head(sessions)}) \ {s}
     ELSE /\ sessions' = Append(sessions, s)
          /\ evicted' = evicted \ {s}
  /\ UNCHANGED <<messages, msgSeq, rooms, members, now>>

\* Mutant: the rooms are not swept.
DeleteSessionUnswept(s, purge) ==
  /\ s \in Registered
  /\ sessions' = Without(sessions, s)
  /\ UNCHANGED <<messages, members, msgSeq, rooms, now, evicted>>

\* communityDeleteSession
DeleteSession(s, purge) ==
  /\ s \in Registered
  /\ sessions' = Without(sessions, s)
  /\ members' = [r \in RoomIds |-> members[r] \ {s}]
  /\ messages' = IF purge
                 THEN Restrict(messages, {i \in Stored : messages[i].from # s
                                                         /\ messages[i].to # s})
                 ELSE messages
  /\ UNCHANGED <<msgSeq, rooms, now, evicted>>

----------------------------------------------------------------------------
(* Sending *)

\* Mutant: reply_to is not looked up.
ReplyUnchecked == 0 .. MaxMsgSeq

\* The expires_at a caller can ask for, and the reply_to that passes the check.
ExpiryChoices == {Never} \cup {now + t : t \in Ttls}
ReplyChoices == {0} \cup Stored

\* The store after one message is set for each recipient of R in order, before
\* any eviction.
Posted(from, R, room, expires, reply) ==
  [i \in Stored \cup (msgSeq + 1 .. msgSeq + Len(R)) |->
     IF i \in Stored THEN messages[i]
     ELSE [from |-> from, to |-> R[i - msgSeq], room |-> room, sent |-> now,
           expires |-> expires, reply |-> reply, status |-> "unread"]]

\* Mutant: the store evicts one message before it is full.
DeliverEarly(from, R, room, expires, reply) ==
  LET all == Posted(from, R, room, expires, reply)
  IN /\ msgSeq + Len(R) <= MaxMsgSeq
     /\ msgSeq' = msgSeq + Len(R)
     /\ \E victims \in SUBSET DOMAIN all :
          /\ IsEvicted(victims, DOMAIN all, Stale(all), MAX_MESSAGES - 1)
          /\ messages' = Restrict(all, DOMAIN all \ victims)
     /\ UNCHANGED <<sessions, rooms, members, now, evicted>>

\* The fan-out loop as one step: MessageFanout shows that the loop evicts what
\* IsEvicted says, a message of this call only after all the older ones.
Deliver(from, R, room, expires, reply) ==
  LET all == Posted(from, R, room, expires, reply)
  IN /\ msgSeq + Len(R) <= MaxMsgSeq
     /\ msgSeq' = msgSeq + Len(R)
     /\ \E victims \in SUBSET DOMAIN all :
          /\ IsEvicted(victims, DOMAIN all, Stale(all), MAX_MESSAGES)
          /\ messages' = Restrict(all, DOMAIN all \ victims)
     /\ UNCHANGED <<sessions, rooms, members, now, evicted>>

\* communitySendMessage
SendMessage(from, to, expires, reply) ==
  /\ from \in Registered /\ to \in Registered
  /\ from # to
  /\ expires \in ExpiryChoices /\ reply \in ReplyChoices
  /\ Deliver(from, <<to>>, NoRoom, expires, reply)

\* Mutant: the sender is not filtered out.
BroadcastToSelf(from, expires, reply) ==
  /\ from \in Registered
  /\ expires \in ExpiryChoices /\ reply \in ReplyChoices
  /\ Deliver(from, sessions, NoRoom, expires, reply)

\* communityBroadcast: to every other session in registration order, or to the
\* registered members of a to_sessions array, which may name one twice.
Broadcast(from, expires, reply) ==
  /\ from \in Registered
  /\ expires \in ExpiryChoices /\ reply \in ReplyChoices
  /\ \/ Deliver(from, Without(sessions, from), NoRoom, expires, reply)
     \/ \E n \in 1 .. MaxTargets : \E R \in [1 .. n -> Registered \ {from}] :
          Deliver(from, R, NoRoom, expires, reply)

\* communityRoomMessage: to every member but the sender, in joining order (any
\* order here).  Members are not checked to be registered.
RoomMessage(from, r, expires, reply) ==
  /\ from \in Registered /\ r \in Rooms
  /\ from \in members[r]
  /\ expires \in ExpiryChoices /\ reply \in ReplyChoices
  /\ \E R \in SetToSeqs(members[r] \ {from}) : Deliver(from, R, r, expires, reply)

----------------------------------------------------------------------------
(* Reading *)

\* The unexpired messages of the folder; a thread widens it to "all".
Listed(s, folder, thread) ==
  {i \in Stored :
     LET m == messages[i]
     IN /\ ~IsExpired(m, now)
        /\ IF thread # 0
           THEN (m.to = s \/ m.from = s) /\ (m.reply = thread \/ i = thread)
           ELSE \/ folder # "sent" /\ m.to = s
                \/ folder # "inbox" /\ m.from = s}

\* Position in the list sorted by sent_at, the stable sort keeping id order.
Position(i, list) ==
  Cardinality({j \in list : \/ messages[j].sent < messages[i].sent
                            \/ messages[j].sent = messages[i].sent /\ j < i})

\* Mutant: the offset is that of the next page.
SliceLate(list, page, size) ==
  {i \in list : page * size <= Position(i, list) /\ Position(i, list) < (page + 1) * size}

Slice(list, page, size) ==
  {i \in list : /\ (page - 1) * size <= Position(i, list)
                /\ Position(i, list) < page * size}

\* communityReadMessages with mark_read: the unread ones of the page that are
\* addressed to the caller become read.
ReadMessages(s, folder, thread, page, size) ==
  /\ s \in Registered
  /\ LET slice == Slice(Listed(s, folder, thread), page, size)
     IN messages' = [i \in Stored |->
          IF i \in slice /\ messages[i].to = s
          THEN [messages[i] EXCEPT !.status = "read"] ELSE messages[i]]
  /\ UNCHANGED <<sessions, msgSeq, rooms, members, now, evicted>>

\* The unread count of communityInboxSummary and of the _inbox envelope.
Unread(s) ==
  {i \in Stored : /\ ~IsExpired(messages[i], now)
                  /\ messages[i].to = s /\ messages[i].status = "unread"}

----------------------------------------------------------------------------
(* Rooms *)

\* communityCreateRoom: the creator joins; a full table drops its oldest room.
CreateRoom(s, r) ==
  /\ s \in Registered
  /\ r \notin Rooms
  /\ IF Len(rooms) >= MAX_ROOMS
     THEN /\ rooms' = Append(Tail(rooms), r)
          /\ members' = [members EXCEPT ![Head(rooms)] = {}, ![r] = {s}]
     ELSE /\ rooms' = Append(rooms, r)
          /\ members' = [members EXCEPT ![r] = {s}]
  /\ UNCHANGED <<sessions, messages, msgSeq, now, evicted>>

\* communityJoinRoom
JoinRoom(s, r) ==
  /\ s \in Registered /\ r \in Rooms
  /\ members' = [members EXCEPT ![r] = @ \cup {s}]
  /\ UNCHANGED <<sessions, messages, msgSeq, rooms, now, evicted>>

\* communityLeaveRoom
LeaveRoom(s, r) ==
  /\ s \in Registered /\ r \in Rooms
  /\ s \in members[r]
  /\ members' = [members EXCEPT ![r] = @ \ {s}]
  /\ UNCHANGED <<sessions, messages, msgSeq, rooms, now, evicted>>

\* communityDeleteRoom: any caller, no membership check.
DeleteRoom(r, purge) ==
  /\ r \in Rooms
  /\ rooms' = Without(rooms, r)
  /\ members' = [members EXCEPT ![r] = {}]
  /\ messages' = IF purge
                 THEN Restrict(messages, {i \in Stored : messages[i].room # r})
                 ELSE messages
  /\ UNCHANGED <<sessions, msgSeq, now, evicted>>

----------------------------------------------------------------------------

\* The wall clock, assumed not to be set back.
Tick ==
  /\ now < MaxTime
  /\ now' = now + 1
  /\ UNCHANGED <<sessions, messages, msgSeq, rooms, members, evicted>>

Send(s, e, re) ==
  \/ \E to \in SessionIds : SendMessage(s, to, e, re)
  \/ Broadcast(s, e, re)
  \/ \E r \in RoomIds : RoomMessage(s, r, e, re)

Read(s) ==
  \E folder \in {"inbox", "sent", "all"}, thread \in 0 .. msgSeq,
     page \in 1 .. MaxPage, size \in PageSizes :
       ReadMessages(s, folder, thread, page, size)

RoomCall(s, r) == CreateRoom(s, r) \/ JoinRoom(s, r) \/ LeaveRoom(s, r)

Next ==
  \/ \E s \in SessionIds : Register(s) \/ Read(s)
  \/ \E s \in SessionIds, purge \in BOOLEAN : DeleteSession(s, purge)
  \/ \E s \in SessionIds, e \in ExpiryChoices, re \in ReplyChoices : Send(s, e, re)
  \/ \E s \in SessionIds, r \in RoomIds : RoomCall(s, r)
  \/ \E r \in RoomIds, purge \in BOOLEAN : DeleteRoom(r, purge)
  \/ Tick

Spec == Init /\ [][Next]_vars

\* Fairness is the callers', who are told to read by the hint of every _inbox
\* envelope: either they go through all the pages of their inbox again and
\* again, or they repeat the call with its defaults (inbox, first page).
PagingReaders ==
  Spec /\ \A s \in SessionIds, page \in 1 .. MaxPage, size \in PageSizes :
            WF_vars(ReadMessages(s, "inbox", 0, page, size))

DefaultReaders ==
  Spec /\ \A s \in SessionIds, size \in PageSizes :
            WF_vars(ReadMessages(s, "inbox", 0, 1, size))

----------------------------------------------------------------------------
(* Properties *)

\* The shape of the three Maps: distinct keys, ids issued so far, members and
\* reply targets within range, nobody writing to itself.
TypeOK ==
  /\ sessions \in Seq(SessionIds) /\ IsInjective(sessions)
  /\ Stored \subseteq 1 .. msgSeq
  /\ \A i \in Stored : messages[i] \in Message /\ messages[i].from # messages[i].to
  /\ msgSeq \in 0 .. MaxMsgSeq
  /\ rooms \in Seq(RoomIds) /\ IsInjective(rooms)
  /\ members \in [RoomIds -> SUBSET SessionIds]
  /\ \A r \in RoomIds \ Rooms : members[r] = {}
  /\ now \in Nat
  /\ evicted \subseteq SessionIds \ Registered

\* The caps of the header ("Max 1 000 sessions, 100 000 messages, 500 rooms")
\* hold after every call, a room or broadcast fan-out included.
WithinLimits ==
  /\ Len(sessions) <= MAX_SESSIONS
  /\ Cardinality(Stored) <= MAX_MESSAGES
  /\ Len(rooms) <= MAX_ROOMS

\* A reply names a message sent before it, and ids follow the sending times, so
\* that threads are acyclic and the sort by sent_at is the order of sending.
ThreadsAndTimesOrdered ==
  /\ \A i \in Stored : messages[i].reply < i /\ messages[i].sent <= now
  /\ \A i, j \in Stored : i < j => messages[i].sent <= messages[j].sent

\* The only members of a room that are not registered are sessions that
\* evictOldestSession dropped: deleting a session leaves none behind.
GhostsWereEvicted ==
  \A r \in RoomIds : members[r] \subseteq Registered \cup evicted

\* "prevent ghost members" (the comment of communityDeleteSession), read of
\* every way a session goes: room members are registered sessions.
NoGhostMembers == \A r \in RoomIds : members[r] \subseteq Registered

\* A send throws away a message that is still alive only when no expired one is
\* left to throw away, and never one younger than a survivor of the same kind.
EvictionSparesTheLiving ==
  [][msgSeq' > msgSeq =>
       \A v \in Stored \ DOMAIN messages' :
         ~IsExpired(messages[v], now) =>
           \A k \in DOMAIN messages' : ~IsExpired(messages'[k], now) /\ v < k]_vars

\* What is stored of a message is never altered but for unread becoming read;
\* a message once gone does not come back.
MessagesOnlyAge ==
  [][/\ \A i \in Stored \cap DOMAIN messages' :
          \/ messages'[i] = messages[i]
          \/ messages'[i] = [messages[i] EXCEPT !.status = "read"]
     /\ DOMAIN messages' \subseteq Stored \cup (msgSeq + 1 .. msgSeq')]_vars

\* The store keeps the promise of Mailbox: it loses a message to a newer one
\* only when full, one for one, and no read message is unread again.
HasStatus(st) == {i \in Stored : messages[i].status = st}

MB == INSTANCE Mailbox WITH Capacity <- MAX_MESSAGES, issued <- msgSeq,
                            unread <- HasStatus("unread"), read <- HasStatus("read")

KeepsMailbox == MB!Spec

\* "You have N unread message(s). Use community_read_messages to view them."
\* (the hint of every _inbox envelope): callers that do get to see every message,
\* unless it expires, is purged or evicted, or they are unregistered first.
UnreadIsSeen ==
  \A s \in SessionIds, i \in 1 .. MaxMsgSeq :
    (s \in Registered /\ i \in Unread(s)) ~> (s \notin Registered \/ i \notin Unread(s))
=============================================================================
