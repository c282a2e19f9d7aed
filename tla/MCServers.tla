----------------------------- MODULE MCServers -----------------------------
(***************************************************************************)
(* What the server listens to, for TLC: a mock server of HttpServe, the    *)
(* streams and posts of the SSE transport (SseTransport) and the lines of  *)
(* the stdio transport (StdioLines).  They share no variable: behaviours in*)
(* which only one of them moves are all that any of them needs.            *)
(***************************************************************************)
EXTENDS HttpServe

CONSTANTS Streams, Posts, NoSession, MaxInput, MaxChunk

VARIABLES
  openStreams, ended, sessions, stale, post,
  buffer, lines, input

sseVars == <<openStreams, ended, sessions, stale, post>>
stdioVars == <<buffer, lines, input>>

Sse == INSTANCE SseTransport WITH open <- openStreams
Stdio == INSTANCE StdioLines

ASSUME Sse!SseAssumption
ASSUME Stdio!StdioAssumption

ServersInit == Init /\ Sse!Init /\ Stdio!Init

ServersNext ==
  \/ Sse!Init /\ Stdio!Init /\ Next /\ UNCHANGED <<sseVars, stdioVars>>
  \/ Init /\ Stdio!Init /\ Sse!Next /\ UNCHANGED <<vars, stdioVars>>
  \/ Init /\ Sse!Init /\ Stdio!Next /\ UNCHANGED <<vars, sseVars>>

\* In its initial state the mock server has no fair action to take.
ServersSpec ==
  /\ ServersInit /\ [][ServersNext]_<<vars, sseVars, stdioVars>>
  /\ WF_vars(StopReturns)
  /\ \A w \in Waits : WF_vars(Found(w) \/ TimedOut(w))

\* A wait reports only what came after it was made, and, unless the captures were cleared
\* or full meanwhile, misses nothing.
WaitsAreTrue == FoundIsNew /\ UndisturbedMissNothing

\* An accepted message's answer is lost only with the client.
LostWithTheClient == Sse!LostWithTheClient

\* Each message on stdin comes out once, whole and in order, wherever the chunks are cut.
FramingIsExact == Stdio!FramingIsExact
=============================================================================
