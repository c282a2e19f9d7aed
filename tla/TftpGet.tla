------------------------------ MODULE TftpGet ------------------------------
(***************************************************************************)
(* A TFTP download (tftpGet of lib/tftpClientOps.js) from a server over    *)
(* UDP.  Datagrams are kept by their true block number; what the client    *)
(* and the server compare is that number modulo 2^16 (Modulus).  The server*)
(* and the network are external: datagrams are lost, reordered, and        *)
(* delivered again, but none outlives half a cycle of block numbers.       *)
(***************************************************************************)
EXTENDS Integers, Sequences

CONSTANTS
  Blocks,       \* blocks of the file as the server sends them; the last is short
  Modulus,
  MAX_RETRIES,
  Honours,      \* whether the server may, or may not, take the blksize option
  MaxResends,   \* bound: retransmissions of the server
  MaxCopies     \* bound: datagrams delivered more than once

ASSUME GetAssumption ==
  /\ Blocks \in Nat \ {0} /\ Modulus \in Nat \ {0, 1}
  /\ {MAX_RETRIES, MaxResends, MaxCopies} \subseteq Nat
  /\ Honours \subseteq BOOLEAN

VARIABLES
  phase,      \* running, lingering (the last ACK is on its way), ok, failed
  expected,   \* expectedBlock
  chunks,     \* the blocks accepted
  lastAck,    \* NoAck, or the block acknowledged last
  retries,
  armed,      \* is the timer set?
  sent,       \* the block the server sent last, 0 for its OACK, -1 before
  over,       \* the server has ended its side
  honours,    \* does it take the blksize option?
  resends, copies,
  toServer,   \* ACKs under way, and Request
  toClient    \* DATA under way, 0 for an OACK, and Error

client == <<phase, expected, chunks, lastAck, retries, armed>>
server == <<sent, over, honours, resends>>
getVars == <<client, server, copies, toServer, toClient>>

NoAck == -1
Request == -1
Error == -1

\* What the client takes for the last block: data.length < blockSize.  A server that
\* ignores the option sends 512 bytes where the client asked for more.
IsShort(n) == n = Blocks \/ ~honours

Waiting == phase \in {"running", "lingering"}

GetInit ==
  /\ phase = "running" /\ expected = 1 /\ chunks = <<>>
  /\ lastAck = NoAck /\ retries = 0 /\ armed = TRUE
  /\ sent = -1 /\ over = FALSE /\ honours \in Honours
  /\ resends = 0 /\ copies = 0
  /\ toServer = {Request} /\ toClient = {}

----------------------------------------------------------------------------
(* The client *)

Young(n) == n + Modulus \div 2 >= sent

\* A datagram is handled; the network may keep a copy.
Delivers(n) ==
  /\ Waiting /\ n \in toClient /\ Young(n)
  /\ \/ toClient' = toClient \ {n} /\ UNCHANGED copies
     \/ copies < MaxCopies /\ copies' = copies + 1 /\ UNCHANGED toClient
  /\ retries' = 0
  /\ UNCHANGED server

RcvError ==
  /\ Delivers(Error)
  /\ phase' = "failed" /\ armed' = FALSE
  /\ UNCHANGED <<expected, chunks, lastAck, toServer>>

RcvOack ==
  /\ Delivers(0)
  /\ lastAck' = 0 /\ toServer' = toServer \cup {0} /\ armed' = TRUE
  /\ UNCHANGED <<phase, expected, chunks>>

\* Mutant: a block at or before the expected one is taken for it.
RcvAnyBlock(n) ==
  /\ n > 0 /\ Delivers(n)
  /\ n % Modulus \in {expected, expected - 1}
  /\ chunks' = Append(chunks, n)
  /\ lastAck' = n /\ toServer' = toServer \cup {n}
  /\ expected' = (n + 1) % Modulus
  /\ phase' = IF IsShort(n) THEN "lingering" ELSE phase
  /\ armed' = ~IsShort(n)

\* The block that comes next; any may be the one that passes MAX_TRANSFER_BYTES.
RcvBlock(n) ==
  /\ n > 0 /\ Delivers(n)
  /\ n % Modulus = expected
  /\ \/ /\ phase' = "failed" /\ armed' = FALSE
        /\ UNCHANGED <<expected, chunks, lastAck, toServer>>
     \/ /\ chunks' = Append(chunks, n)
        /\ lastAck' = n /\ toServer' = toServer \cup {n}
        /\ expected' = (expected + 1) % Modulus
        /\ phase' = IF IsShort(n) THEN "lingering" ELSE phase
        /\ armed' = ~IsShort(n)

\* The one before it: the last ACK goes out again.  Before block 0 comes no block:
\* (expectedBlock - 1) & 0xFFFF is compared before it is masked.
RcvDuplicate(n) ==
  /\ n > 0 /\ Delivers(n)
  /\ n % Modulus = expected - 1
  /\ toServer' = IF lastAck = NoAck THEN toServer ELSE toServer \cup {lastAck}
  /\ armed' = TRUE
  /\ UNCHANGED <<phase, expected, chunks, lastAck>>

\* Neither the block expected nor the one before it.
OutOfPlace(n) == n > 0 /\ n % Modulus \notin {expected, expected - 1}

\* Any other: ignored, with the timer cleared.
RcvOther(n) ==
  /\ Delivers(n) /\ OutOfPlace(n)
  /\ armed' = FALSE
  /\ UNCHANGED <<phase, expected, chunks, lastAck, toServer>>

\* Mutant: the retries are not counted.
TimerUncounted ==
  /\ phase = "running" /\ armed
  /\ IF lastAck # NoAck
     THEN toServer' = toServer \cup {lastAck} /\ UNCHANGED <<phase, armed>>
     ELSE phase' = "failed" /\ armed' = FALSE /\ UNCHANGED toServer
  /\ UNCHANGED <<expected, chunks, lastAck, retries, server, copies, toClient>>

\* The timer: nothing is sent again before the first answer.
Timer ==
  /\ phase = "running" /\ armed
  /\ IF retries < MAX_RETRIES /\ lastAck # NoAck
     THEN /\ retries' = retries + 1
          /\ toServer' = toServer \cup {lastAck}
          /\ UNCHANGED <<phase, armed>>
     ELSE phase' = "failed" /\ armed' = FALSE /\ UNCHANGED <<retries, toServer>>
  /\ UNCHANGED <<expected, chunks, lastAck, server, copies, toClient>>

\* 50 ms after the last block, long before a timer set again meanwhile.
LingerEnds ==
  /\ phase = "lingering"
  /\ phase' = "ok" /\ armed' = FALSE
  /\ UNCHANGED <<expected, chunks, lastAck, retries, server, copies, toServer, toClient>>

\* A socket or send error.
Breaks ==
  /\ Waiting
  /\ phase' = "failed" /\ armed' = FALSE
  /\ UNCHANGED <<expected, chunks, lastAck, retries, server, copies, toServer, toClient>>

----------------------------------------------------------------------------
(* The server and the network *)

\* It answers the request with an OACK, with the first block, or with an error ...
Accepts ==
  /\ Request \in toServer /\ sent = -1
  /\ toServer' = toServer \ {Request}
  /\ \/ honours /\ sent' = 0 /\ toClient' = toClient \cup {0} /\ UNCHANGED over
     \/ sent' = 1 /\ toClient' = toClient \cup {1} /\ UNCHANGED over
     \/ over' = TRUE /\ toClient' = toClient \cup {Error} /\ UNCHANGED sent
  /\ UNCHANGED <<client, honours, resends, copies>>

\* ... and the ACK of its last block with the next one; others it ignores.
Acked(n) ==
  /\ n \in toServer /\ n >= 0 /\ Young(n) /\ ~over
  /\ toServer' = toServer \ {n}
  /\ \/ /\ n % Modulus = sent % Modulus /\ sent < Blocks
        /\ sent' = sent + 1 /\ toClient' = toClient \cup {sent + 1}
        /\ UNCHANGED over
     \/ /\ n % Modulus = sent % Modulus /\ sent = Blocks
        /\ over' = TRUE
        /\ UNCHANGED <<sent, toClient>>
     \/ /\ n % Modulus # sent % Modulus
        /\ UNCHANGED <<sent, over, toClient>>
  /\ UNCHANGED <<client, honours, resends, copies>>

Resends ==
  /\ sent >= 0 /\ ~over /\ resends < MaxResends
  /\ resends' = resends + 1
  /\ toClient' = toClient \cup {sent}
  /\ UNCHANGED <<client, sent, over, honours, copies, toServer>>

Lose ==
  /\ \/ \E n \in toServer : toServer' = toServer \ {n} /\ UNCHANGED toClient
     \/ \E n \in toClient : toClient' = toClient \ {n} /\ UNCHANGED toServer
  /\ UNCHANGED <<client, server, copies>>

GetNext ==
  \/ RcvError \/ RcvOack
  \/ \E n \in 1 .. Blocks : RcvBlock(n) \/ RcvDuplicate(n) \/ RcvOther(n)
  \/ Timer \/ LingerEnds \/ Breaks
  \/ Accepts \/ Resends \/ Lose
  \/ \E n \in 0 .. Blocks : Acked(n)

GetSpec == GetInit /\ [][GetNext]_getVars

\* Timers fire.
GetFairSpec == GetSpec /\ WF_getVars(Timer) /\ WF_getVars(LingerEnds)

----------------------------------------------------------------------------
(* Properties *)

Outcome == IF Waiting THEN "pending" ELSE phase

Transfer == INSTANCE FileTransfer WITH stored <- chunks, outcome <- Outcome

\* Whatever the network loses, repeats and reorders, and across the wrap of the block
\* numbers: each block is accepted once and in order, and the call returns the whole
\* file or fails.
GetIsATransfer == Transfer!Spec

\* A download to which no block comes out of place ends, and any other ends or stands
\* without a timer.
GetEnds ==
  /\ [](\A n \in toClient : ~OutOfPlace(n)) => <>~Waiting
  /\ <>[](~Waiting \/ ~armed)

\* Every call ends, with the file or with an error.
GetAlwaysEnds == <>~Waiting
=============================================================================
