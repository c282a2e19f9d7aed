---------------------------- MODULE MCCommunity ----------------------------
(***************************************************************************)
(* The community store for TLC, three questions of it, each with bounds of *)
(* its own: what happens to messages, what a reader sees who turns pages,  *)
(* and what the delivery loop of one fan-out (MessageFanout) evicts.       *)
(***************************************************************************)
EXTENDS Community, MessageFanout

VARIABLE part     \* which question

communityVars == <<part, vars, fanoutVars>>

\* Two messages, that do not expire, on two pages of one.
Paging == INSTANCE Community WITH
  Ttls <- {}, MaxMsgSeq <- 2, MaxTime <- 1, MaxTargets <- 1, MaxPage <- 2

PartsInit ==
  /\ Init
  /\ \/ /\ part \in {"messages", "paging"}
        /\ before = {} /\ stale = {} /\ first = 0 /\ store = {} /\ issued = 0 /\ left = 0
     \/ part = "fanout" /\ FanoutInit

\* A loop that is over stays: there is always something to call in a store.
PartsNext ==
  \/ part = "messages" /\ Next /\ UNCHANGED <<part, fanoutVars>>
  \/ part = "paging" /\ Paging!Next /\ UNCHANGED <<part, fanoutVars>>
  \/ part = "fanout" /\ FanoutNext /\ UNCHANGED <<part, vars>>
  \/ part = "fanout" /\ left = 0 /\ UNCHANGED communityVars

\* The fairness of PagingReaders.
PartsSpec ==
  /\ PartsInit /\ [][PartsNext]_communityVars
  /\ \A s \in SessionIds, page \in 1 .. 2, size \in PageSizes :
       WF_vars(part = "paging" /\ Paging!ReadMessages(s, "inbox", 0, page, size))

\* Callers that go through every page of their inbox see every message, unless it is
\* gone before.
EveryMessageIsSeen == part = "paging" => Paging!UnreadIsSeen
=============================================================================
