------------------------------ MODULE TftpPut ------------------------------
(***************************************************************************)
(* A TFTP upload (tftpPut of lib/tftpClientOps.js), with the options taken *)
(* or the default block size.  As in TftpGet, datagrams are kept by their  *)
(* true block number, the network loses, repeats and reorders them, and    *)
(* server and network are external.                                        *)
(***************************************************************************)
EXTENDS Integers, Sequences

CONSTANTS
  Blocks,       \* blocks sent, the short or empty last one included
  Modulus,      \* 2^16: block numbers on the wire
  MAX_RETRIES,
  MaxCopies     \* bound: datagrams delivered more than once

PutAssumption ==
  /\ Blocks \in Nat \ {0} /\ Modulus \in Nat \ {0, 1}
  /\ {MAX_RETRIES, MaxCopies} \subseteq Nat

VARIABLES
  phase,      \* running, ok, failed
  current,    \* currentBlock, which does not wrap
  lastSent,   \* WRQ, or the block sent last
  waitingForOack,
  retries,
  armed,      \* is the timer set?
  stored,     \* the blocks the server has stored
  toServer,   \* DATA under way, and WRQ
  toClient,   \* ACKs under way, Oack, Error and Stray
  copies

client == <<phase, current, lastSent, waitingForOack, retries, armed>>
vars == <<client, stored, toServer, toClient, copies>>

WRQ == 0
Oack == -1
Error == -2
Stray == -3    \* of another opcode, or an ACK of a block not sent yet

Init ==
  /\ phase = "running" /\ current = 1 /\ lastSent = WRQ
  /\ waitingForOack \in BOOLEAN /\ retries = 0 /\ armed = TRUE
  /\ stored = <<>>
  /\ toServer = {WRQ} /\ toClient = {} /\ copies = 0

----------------------------------------------------------------------------
(* The client *)

Running == phase = "running"

\* A datagram is handled; the network may keep a copy.
Delivers(n) ==
  /\ Running /\ n \in toClient
  /\ \/ toClient' = toClient \ {n} /\ UNCHANGED copies
     \/ copies < MaxCopies /\ copies' = copies + 1 /\ UNCHANGED toClient
  /\ retries' = 0
  /\ UNCHANGED stored

Sends(block) ==
  /\ lastSent' = block /\ toServer' = toServer \cup {block}
  /\ armed' = TRUE

Ends(outcome) ==
  /\ phase' = outcome /\ armed' = FALSE
  /\ UNCHANGED <<current, lastSent, waitingForOack>>

RcvError ==
  /\ Delivers(Error)
  /\ Ends("failed")
  /\ UNCHANGED toServer

\* An OACK at any time, and an ACK 0 before the first block's, bring the current block.
Starts(n) ==
  \/ n = Oack
  \/ n >= 0 /\ n % Modulus = 0 /\ (waitingForOack \/ current = 1)

RcvStart(n) ==
  /\ Delivers(n) /\ Starts(n)
  /\ waitingForOack' = FALSE
  /\ Sends(current)
  /\ UNCHANGED <<phase, current>>

\* The number on the wire is compared with currentBlock.
Acks(n) == n >= 0 /\ ~Starts(n) /\ n % Modulus = current

\* Mutant: any ACK ends the upload once the last block is out.
RcvAnyLastAck(n) ==
  /\ Delivers(n) /\ n >= 0 /\ ~Starts(n) /\ current = Blocks
  /\ Ends("ok")
  /\ UNCHANGED toServer

RcvLastAck(n) ==
  /\ Delivers(n) /\ Acks(n) /\ current = Blocks
  /\ Ends("ok")
  /\ UNCHANGED toServer

RcvAck(n) ==
  /\ Delivers(n) /\ Acks(n) /\ current < Blocks
  /\ current' = current + 1
  /\ Sends(current + 1)
  /\ UNCHANGED <<phase, waitingForOack>>

\* An earlier number sets the timer again ...
RcvOther(n) ==
  /\ Delivers(n) /\ n >= 0 /\ ~Starts(n) /\ n % Modulus # current
  /\ armed' = (n % Modulus < current)
  /\ UNCHANGED <<phase, current, lastSent, waitingForOack, toServer>>

\* ... and anything else leaves it cleared.
RcvStray ==
  /\ Delivers(Stray)
  /\ armed' = FALSE
  /\ UNCHANGED <<phase, current, lastSent, waitingForOack, toServer>>

\* Mutant: as in TftpGet.
TimerUncounted ==
  /\ Running /\ armed
  /\ toServer' = toServer \cup {lastSent}
  /\ UNCHANGED <<client, stored, toClient, copies>>

Timer ==
  /\ Running /\ armed
  /\ \/ /\ retries < MAX_RETRIES
        /\ retries' = retries + 1
        /\ toServer' = toServer \cup {lastSent}
        /\ UNCHANGED <<phase, current, lastSent, waitingForOack, armed>>
     \/ /\ retries = MAX_RETRIES
        /\ Ends("failed")
        /\ UNCHANGED <<retries, toServer>>
  /\ UNCHANGED <<stored, toClient, copies>>

\* A socket or send error.
Breaks ==
  /\ Running
  /\ Ends("failed")
  /\ UNCHANGED <<retries, stored, toServer, toClient, copies>>

----------------------------------------------------------------------------
(* The server and the network *)

\* The server answers the request, also when it comes again, and may refuse anything.
Accepts ==
  /\ WRQ \in toServer
  /\ toServer' = toServer \ {WRQ}
  /\ \E answer \in (IF stored = <<>> THEN {0, Oack, Error} ELSE {Error}) :
       toClient' = toClient \cup {answer}
  /\ UNCHANGED <<client, stored, copies>>

\* It stores the next block, and acknowledges the last one again.
Stores(n) ==
  /\ n \in toServer /\ n > 0
  /\ toServer' = toServer \ {n}
  /\ \/ /\ n % Modulus = (Len(stored) + 1) % Modulus
        /\ stored' = Append(stored, n) /\ toClient' = toClient \cup {n}
     \/ /\ n % Modulus = Len(stored) % Modulus
        /\ toClient' = toClient \cup {n}
        /\ UNCHANGED stored
     \/ /\ n % Modulus \notin {Len(stored) % Modulus, (Len(stored) + 1) % Modulus}
        /\ UNCHANGED <<stored, toClient>>
  /\ UNCHANGED <<client, copies>>

Strays ==
  /\ toClient' = toClient \cup {Stray}
  /\ UNCHANGED <<client, stored, toServer, copies>>

Lose ==
  /\ \/ \E n \in toServer : toServer' = toServer \ {n} /\ UNCHANGED toClient
     \/ \E n \in toClient : toClient' = toClient \ {n} /\ UNCHANGED toServer
  /\ UNCHANGED <<client, stored, copies>>

Next ==
  \/ RcvError \/ RcvStray
  \/ \E n \in Oack .. Blocks : RcvStart(n) \/ RcvLastAck(n) \/ RcvAck(n) \/ RcvOther(n)
  \/ Timer \/ Breaks
  \/ Accepts \/ Strays \/ Lose
  \/ \E n \in 1 .. Blocks : Stores(n)

Spec == Init /\ [][Next]_vars

\* Timers fire.
FairSpec == Spec /\ WF_vars(Timer)

----------------------------------------------------------------------------
(* Properties *)

Outcome == IF Running THEN "pending" ELSE phase

Transfer == INSTANCE FileTransfer WITH outcome <- Outcome

\* The server stores the file's blocks in order, each once, and the call returns
\* without an error only when all of them are stored.
PutIsATransfer == Transfer!Spec

\* An upload to which no stray datagram comes ends, and any other ends or stands without
\* a timer.
PutEnds ==
  /\ [](Stray \notin toClient) => <>~Running
  /\ <>[](~Running \/ ~armed)

\* Every call ends; "Block number wraparound supported (16-bit, wraps at 65535)".
PutAlwaysEnds == <>~Running
=============================================================================
