---------------------------- MODULE MCTransfers ----------------------------
(***************************************************************************)
(* The clients of HTTP servers and TFTP, for TLC: the token cache of a     *)
(* cloud client (TokenCache), a request of http_client (HttpRequest), the  *)
(* pool of http_multi_fetch (FetchPool), a download (TftpGet) and an upload*)
(* (TftpPut).  One of them at a time; the variables of the others stay as  *)
(* they are.                                                               *)
(***************************************************************************)
EXTENDS TokenCache, HttpRequest, FetchPool, TftpGet

CONSTANTS PutBlocks, PutModulus   \* of an upload

VARIABLES
  tool,                           \* which of them
  upload, current, lastSent, waitingForOack, tries, timed, stored, again, data, acks

putVars == <<upload, current, lastSent, waitingForOack, tries, timed, stored, again,
             data, acks>>

Put == INSTANCE TftpPut WITH
  Blocks <- PutBlocks, Modulus <- PutModulus, phase <- upload, retries <- tries,
  armed <- timed, copies <- again, toServer <- data, toClient <- acks

ASSUME PutBounds == Put!PutAssumption

\* Those that stay begin in one state of theirs.
TransfersInit ==
  /\ tool \in {"token", "http", "pool", "get", "put"}
  /\ TokenInit /\ HttpInit /\ PoolInit /\ GetInit /\ Put!Init
  /\ tool # "token" => \A c \in Calls : scope[c] = CHOOSE s \in Scopes : TRUE
  /\ tool # "http" => method = "GET" /\ ~digest /\ ~hasBody /\ ~ownLength
  /\ tool # "pool" => ~failFast /\ concurrency = MAX_CONCURRENCY
  /\ tool # "put" => ~waitingForOack

TransfersNext ==
  \/ tool = "token" /\ TokenNext /\ UNCHANGED <<tool, httpVars, poolVars, getVars, putVars>>
  \/ tool = "http" /\ HttpNext /\ UNCHANGED <<tool, tokenVars, poolVars, getVars, putVars>>
  \/ tool = "pool" /\ PoolNext /\ UNCHANGED <<tool, tokenVars, httpVars, getVars, putVars>>
  \/ tool = "get" /\ GetNext /\ UNCHANGED <<tool, tokenVars, httpVars, poolVars, putVars>>
  \/ tool = "put" /\ Put!Next /\ UNCHANGED <<tool, tokenVars, httpVars, poolVars, getVars>>

\* The fairness of each, as in its module.
TransfersSpec ==
  /\ TransfersInit
  /\ [][TransfersNext]_<<tool, tokenVars, httpVars, poolVars, getVars, putVars>>
  /\ WF_httpVars(tool = "http" /\ RequestFails)
  /\ WF_httpVars(tool = "http" /\ Backoff)
  /\ WF_httpVars(tool = "http" /\ (BodyEnds \/ BodyBreaks))
  /\ WF_getVars(tool = "get" /\ (Timer \/ LingerEnds))
  /\ WF_putVars(tool = "put" /\ Put!Timer)

\* Each block is accepted once, in order, and a call that succeeds has the whole file.
PutIsATransfer == Put!PutIsATransfer

\* Calls end; a transfer may also have ignored a datagram and stand without a timer.
TransfersEnd ==
  /\ tool = "http" => RequestEnds
  /\ tool = "get" => GetEnds
  /\ tool = "put" => Put!PutEnds
=============================================================================
