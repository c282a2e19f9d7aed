# Verification of mcp-common-server

TLA+ models, TLC runs and TLAPS proofs for the stateful core of the server.
Paths are relative to `src/`.

The repository is a Node.js MCP server. JSON-RPC requests come in over stdio or
HTTP/SSE, `lib/executeTool.js` finds a handler for each, and about five hundred
handlers under `lib/` do the work. There is one thread: two handlers interleave
only where one of them awaits, and between two awaits a handler is one atomic
step. That is the granularity of every model here. Most handlers keep nothing
between calls; the ones that do keep it in module-level Maps and arrays, or in
processes, browsers, sockets and files that outlive the call. Those are modelled.

## 1. Inventory

| Component (code) | State | Operations | What is hard | What makes it correct |
|---|---|---|---|---|
| Community store (`lib/communityOps.js`) | Maps of sessions, messages, rooms; `msgSeq`; all capped | register, delete, send, broadcast, room create/join/leave/delete/message, read, purge; expiry by time | each cap evicts something, a fan-out evicts once per recipient, and other Maps refer to what was evicted | caps hold, a live message goes only when no expired one is left, threads stay ordered, only evicted sessions stay members of rooms |
| Tool dispatcher (`lib/executeTool.js`) | none of its own | look up, run, record, staple the `_inbox` envelope | the tool is awaited while the caller's session and messages change | the envelope is true when it is returned |
| Pipeline (`lib/executeTool.js`) | the report under construction | run a list of tool calls | failing and malformed steps in the middle | nothing runs after a stop, and the report says what ran |
| Browser sessions (`lib/browserLaunch.js`) | `SESSIONS`, `pendingLaunches` | launch, close | four awaits in a launch, each may fail, others run in between | the cap holds, a reservation is given back once, no browser runs out of reach |
| Browser tabs (`lib/browserLaunch.js`) | `pages`, `activePageId` per session | new, switch, close; a page may close itself | closes and loads overlap | the active tab is listed, no open tab is unlisted |
| Capture and interception (`lib/browserActions/network.js`) | `networkCapture`, `routes` per session; listeners per page | start, stop, route, unroute | flags are per session, handlers per page, and the active page changes | what the tables say is what the pages do |
| Dialogs (`lib/browserLaunch.js`, `lib/browserActions/dialogs.js`) | armed answers, log, waiters | arm, wait, read; the `dialog` event | the listener awaits; timers race dialogs | an answer serves once, in order; a waiter is told once or times out |
| Recording and replay (`lib/browserLaunch.js`, `lib/dispatchBrowser.js`) | `actionLog`, `recording` | start, stop, clear, record, replay | the replayed array is the live log | in order, nothing twice |
| `run_command` (`lib/processOps.js`) | one spawned shell, its buffer and timer | spawn, data, timeout, close | exit, close, timeout and output come in any order; children hold the pipes | one answer, after all the output, with all of it |
| Background processes (`lib/processOps.js`) | `BG_PROCESSES` with capped buffers | start, poll, send, kill, list | listeners outlive the entry | output in order, lost only by the cap and by a tail read |
| Mock HTTP server (`lib/httpServeOps.js`) | servers with routes and captured requests | start, wait, read, clear, stop | waits poll while others clear and stop | a wait reports a later request and misses none |
| HTTP/SSE transport (`server-http.js`) | SSE sessions | connect, post, ping, sweep, close | a session goes while its tool is at work | an accepted call's reply is lost only with its client |
| Directory move and copy (`lib/moveDirOps.js`) | two trees on disk | rename, walk, copy, remove | any system call may fail; others write meanwhile | no file is lost at any moment |
| Single-file move and copy (`lib/moveOps.js`) | the disk | rename, or copy and unlink across devices | check-then-act against other processes; a death between two system calls | the file is whole at one of the two places |
| stdio transport (`lib/stdioProtocol.js`, `server-stdio.js`) | input buffer | cut the input into lines | chunks end anywhere | each message comes out once, whole, in order |
| HTTP client tools (`lib/httpClientOps.js`, `lib/httpMultiFetchOps.js`) | attempt, redirect and timer of one request; next index of the pool | request, redirect, retry, answer a digest challenge; fetch many | timer, answer and retry race; workers share an index | requests bounded, body and length header agree, each task once |
| Token caches (`lib/azureClientOps.js`, `lib/gcpClientOps.js`) | Map of tokens and expiry times | look up, fetch, keep | a token expires between check and use; two calls fetch at once | the token a call uses is of its scope and not expired when used |
| TFTP client (`lib/tftpClientOps.js`) | block number, retry count, timer of a transfer | get, put, resend, linger | datagrams lost, repeated, reordered; block numbers wrap | what a successful call stored is the file |
| Protocol clients (`lib/natsClientOps.js`, `mqttClientOps.js`, `stompClientOps.js`, `websocketClientOps.js`, `kafkaClientOps.js`) | waiters, buffers and timers of one connection within one call | connect, authenticate, exchange, close | timers, answers, errors and closes in any order; leftover waiters | the outcome is settled once, nothing is sent after it, the socket is closed at the return, the call returns |
| File edits and writes | the disk | read, change, write, synchronously | nothing concurrent within the server | not modelled |
| Service APIs, other protocol clients, other browser actions, git, SQLite, scanners, converters, file formats, configuration | none that outlives a call, but for SQLite's connections | one call each | little; section 8 | not modelled; section 8 |

How they interact: the transports call the dispatcher; the dispatcher calls every
handler, reads the community store after each and records browser calls; the
pipeline and the replay call the dispatcher again, one call after another. Capture
and interception read the active tab. The community store, the browser sessions,
the processes, the servers, the disk and the clients do not touch one another.

`PROJECT.json` lists the components, the hazards line by line with the properties
that watch them, and the lines each definition translates.

## 2. Modules

| Module | Models | Notes on the abstraction |
|---|---|---|
| `Community` | the three Maps, one action per tool that changes them | a Map is the sequence of its keys in insertion order plus a function; time is a counter that `Tick` advances; names, bodies and metadata are dropped; a fan-out is one step |
| `EvictionOrder` | how many entries a full store gives up, and which | shared by the next module and by `Community` |
| `MessageFanout` | the delivery loop, one recipient a step, from every small store | shows that the one step in `Community` does what the loop does |
| `Mailbox` | abstract: what the store promises of a message | ids in order, unread then read and never back, pushed out one for one and only by a full store |
| `ExecuteTool` | the dispatcher's inbox envelope, over `Community`; `executePipeline` | a call lies between its start and its result, and every other call may come between; a step is null, or its `on_error`, whether it has an `op`, and how its tool ends |
| `BrowserPool` | `launchSession`, `closeSession` | one stage per await, each with its failures; a browser may die at any time |
| `BrowserTabs` | `newPage`, `switchPage`, `closePage` of one session | one stage per await; a page may close itself |
| `BrowserHooks` | capture and interception, over `BrowserTabs` | which handlers each page has, beside what the session believes |
| `Dialogs` | the dialog listener and its tools | dialogs of several tabs are handled at once; answers are numbered |
| `ActionLog` | recording and replay | arrays have identities, since a clear replaces the array a replay reads |
| `RunCommand` | one `run_command` with the processes it starts, which hold its pipes or do not | one stream, with the marks it gets as stdout and as stderr; POSIX branch |
| `ProcessTable` | `start_process`, `poll_process`, `send`, `kill` and the listeners | chunks are numbered; the buffer keeps the last `MAX_BUF` |
| `HttpServe` | captures and waits of one mock server | requests are numbered, all match |
| `SseTransport` | SSE sessions, the sweep and POSTs | a session is fresh or stale, instead of a clock |
| `DirectoryMove` | `moveDirectory`, `copyDirectory` | a file is absent, one of either side, half written or a link; a path of the destination may lead to a file of the source (`Overlapping`); one action per system call that can fail |
| `FileMove` | `moveFile`, `copyFile` | one action per system call; with `Rivals`, another process may create the destination in between |
| `StdioLines` | `splitLines` over a growing buffer | characters are what the code tells apart: newline, return, blank, other |
| `TokenCache` | `resolveToken` of azure, `resolveAccessToken` of gcp | the two differ in the cache key, `KeyedByScope`; time counts in the units of `Margin` and `Timeout` |
| `HttpRequest` | `doRequest` and the retry loop of `http_client` | a response is its status class, its redirect and its challenge |
| `FetchPool` | `pMap` of `http_multi_fetch` and its answer | a task settles, well or with an error; `concurrency` is what the code rounds it to, 0 included |
| `FileTransfer` | abstract: a transfer of a file in blocks | stored in order, each once; success only with all of them |
| `TftpGet`, `TftpPut` | `tftpGet`, `tftpPut` | datagrams keep their true block number; client and server compare it modulo 2^16; what an upload's handler falls through on is one `Stray` datagram |
| `ClientCall` | abstract: a call of a protocol client | act, settle once, close, return |
| `NatsCall`, `MqttCall`, `StompCall`, `WebSocketCall`, `KafkaCall` | one call of each client | frames are events; one action per handler or timer, and one per event taken from a buffer, in the order the microtasks allow |
| `KeySequenceTheorems`, `CommunityProofs`, `BrowserSessionsProofs`, `BrowserPagesProofs`, `ProcessesProofs`, `NetworkProofs`, `FilesProofs`, `TransfersProofs` | theorems | section 7 |
| `MC*` | instances for TLC | section 3 |

State and code correspond by name: the variables are called as in the source
(`sessions`, `messages`, `rooms`, `msgSeq`, `pendingLaunches`, `pages`, `active`,
`capturing`, `queue`, `requests`, ...) and the actions as the handlers, or as the
handler and what its await brings (`Reserve`, `LaunchResolves`, `LaunchFails`,
`Opened`, `ContextFails`; `CloseBegins`, `CloseReturns`). What the environment does
has actions of its own: `Dies`, `ClosesItself`, `Writes`, `Ends`, `Arrives`, `Age`,
`Write`, what servers send and what the network does to it, and the failures. A few variables
keep history for the properties and guard nothing of the code's: `evicted`, `polled`,
`cut`, `read`, `before`, `touched`; the comment beside each declaration says so.

## 3. Runs

Every bound is a CONSTANT of the module or the size of a set in the cfg.

| Run | Question | Bounds, and why they are enough |
|---|---|---|
| `tool_calls` | Do the Maps keep their shape and their caps, are ghosts of rooms only evicted sessions, is the envelope true when it is returned, is a pipeline's report true? | three sessions for two places, two rooms for one, two messages for a store of one: each cap is met and passed; one call at work among all the others; every pipeline of up to four steps: a stop, a malformed or a null step with one before it and two behind |
| `community` | Are threads and times ordered, does eviction spare live messages, does the store implement `Mailbox`? Does a caller that turns its pages see every message? Does the delivery loop evict as the single step? | two messages stored of three sent, with and without expiry, in two instants: an expired and a live one, a reply to each, an eviction with a choice. Two messages on two pages of one. Every store of up to three out of four, with up to five recipients: a fan-out that evicts its own messages |
| `browser_sessions` | Reservations, stray browsers, tabs, answers; do all calls return? | three launches for two places, two closers of each session; three tabs; two dialogs at once, two waiters, a third answer for a queue of two |
| `browser_pages` | Do flags and routes match the pages, does a replay keep order? | two tabs, three calls, two patterns, two captures: a switch between start and stop, and two routes of one pattern; an action log of two with five actions: the cap shifts it under the replay, and a clear replaces it |
| `processes` | Is output complete and in order, is a command answered once and last, are exits seen? | four chunks through a buffer of two with polls; a shell with two children, each with the pipes or without, and one of its two chunks above the cap. A full product: one process table and one command, in every interleaving |
| `servers` | Does a wait report only what came later, and miss nothing; are replies lost only with the client; do waits end; is input framed exactly? | four requests, two captured, two waits, two stops; two streams and two posts: reordered replies, and a stream that is swept while its post is at work; all inputs of six characters in chunks of up to three: two messages, each cut in every place |
| `files` | Is a tree or a file ever lost, does an aborted call write nothing? | three walked files and an ignored one, each absent, old or a link: half a tree copied, half removed; any paths of the destination lead to any files of the source: two that share, and a third that does not; one write of another process at any moment; a single file on one device or two, with a rival at the destination |
| `transfers` | Is a token of its scope, and valid when used; are requests bounded, framed and over in the end; is no task run twice and none left out; is what a TFTP transfer stored the file? | three calls, two scopes, a lifetime of two with a margin of one: a token renewed while another call uses it; two redirects and two retries; five tasks for three workers or fewer, or none; downloads of five blocks modulo four, so that numbers wrap, one retry, two resends of the server, two late copies; uploads of four blocks modulo five; stray datagrams at any moment |
| `clients` | Does each protocol client keep `ClientCall`, and is what it returns what it was sent? | two messages to send or collect, six frames of the broker (five for NATS, four for Kafka): the handshake, two messages and what arrives after the end; payload limits of three and four bytes, so that two legal frames pass the total |
| `browser_cap` | violation, section 4 | two launches for one place |
| `move_ignored` | violation, section 4 | as `files` |
| `kafka_timeout` | violation, section 4 | a broker that may be slow, three answers |

Parts that share no variable and never call one another are put in one run by an
MC module that lets one part move at a time, while the others stay in their
initial state. A safety property reads the variables of one part, so the behaviours
in which only that part moves are all it needs; and a part that does not move has
no fair action, so liveness loses nothing either. `MCProcesses` takes the product.
A run's property is then a conjunction of the parts' own, named in the MC module:
`OutputIsKept`, for instance, is order and completeness of a process's output.

Deadlock is checked in the runs of `MCCommunity`, where some tool can always be
called. Elsewhere `CHECK_DEADLOCK FALSE` stands because a model with
bounded calls stops once all have returned; that the calls which await return is
what the liveness properties say.

Some properties worth reading first:

- `EvictionSparesTheLiving` (`Community`): a step that sends evicts a message that
  has not expired only if it has dropped every expired one, and by age. The code
  purges expired messages once per delivery, inside a loop that fills the store.
- `KeepsMailbox`: the store implements `Mailbox`. An eviction or a purge is its
  `Discard`, a send and all of its own evictions its `Accept`.
- `NoticeIsCurrent` (`ExecuteTool`): the count belongs to the moment of the
  return, not of the call, and an evicted caller gets none.
- `ReservationsExact`, `NoStrayBrowser` (`BrowserPool`): whatever fails, at
  whichever await. Each names its one exception: a `proxy.server` that is no string
  throws between the reservation and the `try`, and keeps the reservation for good; a
  `storage_state` that does not parse leaves its browser behind.
- `OneTabIsExact`, `RoutesAreInstalled` (`BrowserHooks`): as long as a session has
  one tab, its listeners are those of the capture that is on; a handler the routes
  table names is on some tab unless a call is about to remove it. They are as strong
  as the code allows: section 5 has the stronger statements, which fail.
- `WaitsAreTrue` (`HttpServe`): a wait reports only a request that came after it was
  made, and times out only if none came, or the captures were cleared or full
  meanwhile. Without the proviso it fails (section 5).
- `OutputIsKept` (`ProcessTable`): each chunk written is on its way, buffered,
  returned by a poll, or was given up by the cap or by a tail read that clears.
- `NoOutputMissed`, `AnswerIsFinal` (`RunCommand`): the answer holds all the output or is
  full and marked, and nothing follows it: no output, no signal of the timer, no second
  answer. Processes with the pipes delay it; those that redirected their output do not.
- `TreesAreKept`, `FileIsWhole`: each file is whole on one side at every
  moment, so also when the server dies there. Of a directory they speak of the files with
  one path on each side; section 5 has what happens to the others.
- `GetIsATransfer`, `PutIsATransfer`: a TFTP transfer implements `FileTransfer`,
  although block numbers wrap and datagrams are lost, repeated and reordered. The
  late ones may be up to half a cycle old; the model says so (`Young`), and an older
  one would be stored for the block of the same number.
- `IsACall`: each of five clients implements `ClientCall`, whatever frames the other side
  sends and whichever of timer, error and close comes first. The operation's frames go
  out before the outcome is settled; the frames of a closing (DISCONNECT, a Close
  frame) do not count as its effects.
- `MessagesAreTrue`: no frame is taken by a waiter whose race is over; what MQTT
  returns is what it has acknowledged, so that the broker keeps the rest.
- `ServedIsHonoured` (`TokenCache`): a call never sends a token that has expired,
  as long as fetching one takes no longer than the margin of 60 seconds.

## 4. Findings

Three runs check a statement of the repository that the code does not keep.

- `browser_cap`: `pendingLaunches` exists "so concurrent launchSession() calls
  can't all pass the cap check" (`lib/browserLaunch.js:87`). It is decremented
  when `browser.launch()` resolves, two awaits before `SESSIONS.set`; a launch that
  begins in between does not count the first one and passes the cap. Nothing else breaks
  it (`CapHoldsUnlessContextAwaited`, section 7).
- `move_ignored`: "Move (or merge) an entire directory tree"
  (`lib/schemas/writeSchemas.js:79`). The copy leaves out what `MCP_IGNORE`
  matches, and the source is then removed with it. Unless one of the trees lies inside
  the other, or the destination has links, hard ones included, into the source
  (section 5), nothing else is lost (`OnlyIgnoredAreLost`, section 7).
- `kafka_timeout`: "Total wall-clock timeout in seconds for the entire operation"
  (`lib/schemas/utilSchemas33.js:54`). The timer marks the connection as done before
  it destroys the socket (`lib/kafkaClientOps.js:211`), so no handler rejects the
  promise the call awaits: with a broker that is slow to authenticate, or with
  `timeout` no longer than `connect_timeout`, the call never returns.

## 5. Further statements the code does not keep

Each module also states what a comment, a description or a test says of its part.
TLC answers each of the following with a short behaviour that breaks it. To see one,
write a cfg with the specification and the property, the constants of the run that
covers the module made as small as needed, and what the second column says.

| Statement | Where it fails | Said at | What the code does |
|---|---|---|---|
| `NoGhostMembers` | `Community` | `lib/communityOps.js:582`, "prevent ghost members" | an evicted session stays a member of its rooms (164) |
| `UnreadIsSeen` | `Community`, `DefaultReaders` | `lib/communityOps.js:214`, the hint | a call with defaults returns the oldest page, read messages included (492) |
| `EveryResponseHasInbox` | `ExecuteTool` | `lib/communityOps.js:11`, "Every tool call ..." | the community tools themselves are left out (`lib/executeTool.js:89`) |
| `EveryStepReported` | `ExecuteTool` | `lib/schemas/execSchemas.js:141`, "per-step status" | steps behind one without an `op` get no entry (`lib/executeTool.js:124`) |
| `ReservationsReturned` | `BrowserPool` | `lib/browserLaunch.js:87`, what the counter is for | a `proxy.server` that is truthy but no string throws (117) after the reservation (99) and before the `try` (161): the place is lost, and `MAX_SESSIONS` such calls end all launches |
| `LastPageStays` | `BrowserTabs` | `lib/schemas/browserSchemas/session.js:86` | two closes that overlap both pass the check (`lib/browserLaunch.js:310`) |
| `StoppedIsSilent` | `BrowserHooks` | `lib/schemas/browserSchemas/advanced.js:40` | the listeners are taken off the page that is active now (`network.js:58`) |
| `UnroutedMeansUnintercepted` | `BrowserHooks` | `advanced.js:73` | as above (`network.js:116`), and a second route of a pattern overwrites the first entry |
| `WaitsForTheNext` | `Dialogs` | `advanced.js:161`, "until the next ... dialog fires" | waiters are told after the answer, so of a dialog that fired before they asked (`lib/browserLaunch.js:73`) |
| `PlaysExactlyTheRecording` | `ActionLog` | `lib/schemas/browserSchemas/session.js:123`, "in order" | the replay runs over the live log, which shifts at its cap |
| `TimeoutAnswers` | `RunCommand`, `ShellEndsSpec` | `test/sections/01-core-ops.js:90`, "doesn't hang forever" | one SIGTERM to the shell, and the answer waits for everyone who holds the pipes (`lib/processOps.js:71`, 99) |
| `CutIsMarked` | `RunCommand` | `lib/processOps.js:91`, the mark | after a timeout stderr is passed as it is (101), so without the mark |
| `AnsweredIsOver` | `RunCommand` | `lib/schemas/execSchemas.js:12`, "before the command is killed" | `close` waits for the shell and the pipes only: what was started with its output redirected runs on |
| `TimedOutWasAtWork` | `RunCommand` | the same line | the timer is cleared at `close`, not at `exit` (`lib/processOps.js:87`, 99): a command that has exited is reported as 124 while a child holds its pipes |
| `ZeroIsSuccess` | `RunCommand` | `lib/schemas/execSchemas.js:8`, "exit code" | the code of a shell that a signal killed is null, and answered as 0 (`lib/processOps.js:103`) |
| `AliveIsListed` | `ProcessTable` | `lib/schemas/execSchemas.js:49` | the entry goes as soon as the signal is sent (`lib/processOps.js:235`) |
| `StatusSettles` | `ProcessTable`, `FairSpec` | the same line | a failed spawn emits `error` and no `exit`, and stays "running" (159) |
| `MissNothing` | `HttpServe` | `lib/httpServeOps.js:347`, "Block until a request matching ... arrives" | the wait remembers an index into the captures (352); once they are cleared, the next request lies below it |
| `ActiveStreamIsUsed` | `SseTransport` | `server-http.js:596` | the sweep looks at the last POST only, not at the open stream (464) |
| `LinksAbort` | `DirectoryMove` | `lib/schemas/writeSchemas.js:79`, "aborts the whole operation" | the fast path renames the tree without walking it (`lib/moveDirOps.js:168`) |
| `EntireTreeMoves` | `DirectoryMove`, `Nested` = TRUE, nothing ignored | the same line | with overwrite, the copy lands in what is then removed (`lib/moveDirOps.js:177`) |
| `NoWalkedFileLost`, `EntireTreeMoves` | `DirectoryMove`, `Overlapping` = TRUE, nothing ignored | the same line, "non-colliding files from both sides are kept" | nothing rules out a source inside the destination (80 to 118), nor links there to files of the source: moving `/r/a/b` to `/r/a` with overwrite, the source's `b/x` is copied onto its `x`, which is lost if it was not copied before, and the removal of the source (177) then takes what was copied; `moved: true` is answered. A copy overwrites files of its source |
| `NoneDestroyed` | `FileMove`, `Rivals` = TRUE | `lib/moveOps.js:26`, "instead of silently destroying" | the check for an existing destination comes before the rename (133) |
| `GetIsATransfer` | `TftpGet`, a server that may ignore `blksize` | the tool's promise of a file | the client's own block size decides which block is the last (`lib/tftpClientOps.js:308`), so the first of 512 bytes ends the call |
| `GetAlwaysEnds` | `TftpGet`, `GetFairSpec` | the timeout and retries the tool takes | a datagram with another block number returns after the timer has been cleared (`lib/tftpClientOps.js:322`); if the server then falls silent nothing is left to end the call |
| `PutAlwaysEnds` | `TftpPut`, `FairSpec` | the timeout and retries the tool takes | every datagram clears the timer and the retries (`lib/tftpClientOps.js:436`); one that is no ERROR, OACK or ACK, or acknowledges a block not sent yet, falls through without setting it again (502), and if no ACK follows nothing is left to end the call |
| `PutEnds` | `TftpPut`, `FairSpec`, `Blocks` = `Modulus` | `lib/tftpClientOps.js:679`, "Block number wraparound supported" | an upload compares with a counter that does not wrap (471), and then sends its last block again and again |
| `PongIsAwaited` | `NatsCall`, `AsyncInfo` = TRUE | `lib/natsClientOps.js:312`, "buffer or ignore" | a buffered event is taken and put back without an await for a new one (311), so the PONG is never read |
| `MqttIsACall` | `MqttCall`, `CutsOpening` = TRUE | the overall timeout the tool takes | while the handshake is on, `socket` is not yet set (655), so after the timeout the finally block (873) closes nothing, and the operation may still go out |
| `PubackIsAwaited` | `MqttCall` | `lib/mqttClientOps.js:801` | the echo ends the wait (831), whether the PUBACK has come or not |
| `DisconnectConfirmed` | `StompCall` | `lib/schemas/utilSchemas28.js:16`, "RECEIPT confirmed" | the call is ok without the receipt too |
| `MaxMessagesCloses` | `WebSocketCall` | `lib/schemas/utilSchemas17.js:22` | the count is looked at only when a further frame comes (`lib/websocketClientOps.js:371`) |
| `RequestEnds` | `HttpRequest`, `HttpFairSpec`, `Stalls` = TRUE | `lib/httpClientOps.js:13`, "Timeout (connect + total)" | the timer is cleared with the headers (320), so a body that does not end keeps the call |
| `DigestFitsMethod` | `HttpRequest` | the digest of RFC 7616 | it is computed for the method asked for, also after a redirect has changed it (441) |
| `ServedIsHonoured` | `TokenCache`, `Timeout` > `Margin` | the margin | the expiry counts from the answer, not from when the token was issued (`lib/azureClientOps.js:255`) |
| `TokenFitsScope` | `TokenCache`, `KeyedByScope` = FALSE | `lib/schemas/utilSchemas103.js:30`, the scopes "to request" | the key is the account alone (`lib/gcpClientOps.js:177`) |
| `AllAreAnswered` | `FetchPool` | `lib/schemas/utilSchemas14.js:71`, "return all results" | a `concurrency` between 0 and 1 passes the check and is rounded to 0 (`lib/httpMultiFetchOps.js:73`): no worker, no request, and an answer of holes; with `fail_fast` a `TypeError` (150) |
| `AlwaysReports` | `ExecuteTool` | `lib/schemas/execSchemas.js:141`, "Returns a summary with per-step status" | a null step throws out of `executePipeline`, at its turn (`lib/executeTool.js:119`) or while the rest is entered as skipped (150), after tools have run |
| `StopsAtTheFirst` | `FetchPool` | `lib/httpMultiFetchOps.js:56`, "reject on first connection error" | all requests are sent before the results are looked at (149) |

## 6. Fairness

Safety runs assume none. Liveness assumes weak fairness of these actions only:

- Browser calls (`LaunchSettles`, `CloseSettles`): the promises of Playwright that
  a handler awaits settle, because Playwright bounds launch, context creation and
  close by timeouts. Nobody is obliged to call.
- Timers (`CallsEnd`, `WaitsEnd`): `setTimeout` callbacks run.
  `server.close` ends because the stop closes the connections.
- Child processes (`EndsAreSeen`): Node delivers data, exit,
  error and close events. For `run_command` it also assumes that the command ends and
  those who hold its pipes let go of them; `TimeoutAnswers` shows that without it the
  call never returns.
- Callers (`EveryMessageIsSeen`): they read every page again and again.
- Requests and transfers (`TransfersEnd`): the socket's timeout and the backoff
  timer fire, a body once begun ends or breaks, and the TFTP timers fire. No datagram
  need ever arrive. A transfer to which no datagram comes out of place ends, however
  many are lost or repeated; any other ends or stands without a timer (section 5).
  The property says both. A body that never ends is excused, as `Stalls` is FALSE;
  the other way round it is in section 5.
- Protocol clients (`IsACall`): their deadlines fire, and the microtasks that follow
  an event run (`Settle`, `Takes`, `Return`). No answer is owed, with two exceptions:
  an MQTT handshake is answered or breaks, and a Kafka broker that accepted the
  connection answers or breaks it. What happens without these two is in sections 4 and 5.
  Frames are well formed, see section 8.

No environment action, no failure and no tool call is fair otherwise.

## 7. Proofs

TLAPS proves the following for all values of the constants that meet the named
assumptions in the modules: caps are positive, sets of callers finite, special values
apart from ordinary ones. A module of proofs extends the MC module of a run, so its
theorems speak of the very properties the run checks; `tlapm M.tla` checks it. Where
the parts of an MC module move one at a time, the proof first shows that a step of the
whole is a step or a stutter of the part. Each invariant below was model-checked on
small instances before it was proved. Where sections 4 and 5 have a statement that the
code does not keep, some theorems say under which condition it does: they fix what the
failing behaviour must contain.

`CommunityProofs`, the store and the tool calls over it:

- `TypeCorrect`, the inductive invariant everything else rests on. It is more than
  typing: keys are distinct, stored ids were issued, reply targets are older than
  the reply or nothing, rooms' members are in range. Without the distinct keys an
  eviction of "the first key" would not shrink a Map, and without the bound on ids
  a new id could be an old one. Its lemmas take one Map at a time: a step leaves
  the Map alone, adds a key, deletes a key, or, for messages, is a fan-out
  (`StoreStep`, `SessionsStep`, `RoomsStep`).
- `LimitsHold`, `ThreadsOrdered`, `GhostsEvicted`: the invariants of the runs.
- `LivingSpared`, `MessagesAge`: the action properties. A message changes only from
  unread to read and never returns. `MessagesAge` has no run.
- `ImplementsMailbox`: the refinement, with `TypeCorrect` as the invariant under
  which each step maps to `Accept`, `Collect`, `Discard` or a stutter.
- `FanoutIsOneStep`: after any number of recipients the delivery loop has evicted just
  what `Community` says in one step. `Community` takes a fan-out as one step, as the
  handler does not await; this theorem and the run `community` are why its formula may
  stand for the loop.
- `NoticesAreCurrent`: the inbox envelope is true when it is returned.
- `ReportsAreTrue`, for pipelines of any length. `PipelineInv`: until a step stops the
  pipeline or throws its report away, no entry so far is fatal and the tools that ran
  are the steps so far that have an op, in order.

`KeySequenceTheorems` has the lemmas on insertion-ordered Maps (adding a key, removing
one, removing the oldest keep keys distinct and change the key set as expected) and on
sequences that increase, as queues and logs of numbered entries do, and on `Chain`s,
which grow at one end, shrink at the other and stay the same when a chunk of them moves
from the wire to a buffer. `NatSet` is induction over the numbers: the library's theorem
takes an operator, which the provers cannot instantiate, so it is stated of a set and
proved from the well-foundedness of < (`WFMin`). `Greatest`: a nonempty set of positions
of a sequence has a last one.

`BrowserSessionsProofs`:

- `ReservationsAreExact` (the counter equals the number of launches in flight and of those
  that threw on a malformed proxy: both change together, by one, at the reservation and at
  both outcomes of `browser.launch()`), `NoBrowserStrays`.
- `CapHoldsUnlessContextAwaited`: the condition under which the cap of section 4 holds,
  that no launch be admitted while another awaits its context. `CapInv` counts those
  that do with the sessions and the launches in flight.
- `TabsStayListed`. `TabsInv` adds that the ids are distinct and that a listed tab is
  at the stage "listed": so a close that ends late removes its own tab only.
- `LastPageStaysUnlessClosesOverlap`: the condition for a statement of section 5, that no
  close begin while another is under way. `OneCloseInv`: the one under way was let through
  while there were two tabs, and since then tabs have only been added.
- `AnswersStayInOrder`. `AnswersInv`: answers armed increase, all in the queue are
  younger than any already given. `WaitersInv`: the waiters are distinct, so that a
  timeout takes exactly its own call off the list.

`BrowserPagesProofs`:

- `OneTabStaysExact` and `RoutesStayInstalled`. The second is not inductive: a handler
  installed before its entry is in the table must be followed too, and the entries of
  the table must be of calls that are over (`RouteInv`).
- `ReplaysMissNothing`. `ReplayInv`: either the array still begins with what was there
  at the call, and the report is its beginning, or its first action is already younger.
  That needs the actions of an array to increase, and its numbers to be at most the
  last one recorded (`LogInv`).
- `ReplaysAreExactUnlessRecorded`: the statement of section 5 holds if nothing is recorded
  into the array a replay is over; clearing and starting anew make another array.

`ProcessesProofs`:

- `PollsKeepTheOutput`. `Logged`: what was polled, the buffer and the pipe, one after
  the other, increase, and with the chunks cut they are all that was written.
- `AnswersAreWhole`, `AnswersComeLast`. `CountInv` relates the buffer and its flag to
  what was delivered, below and above the cap; `AnswerInv` says the answer was taken when
  nobody held the pipes and all was delivered, hence nothing can follow (`NothingFollows`).

`NetworkProofs`, the servers and the protocol clients:

- `WaitsSeeWhatCame`. `WaitSound`: behind the index a wait remembers lie only requests
  that came after it, and, if it was not disturbed, as many as have arrived since.
- `OnlyTheLeftLose`. `SseInv`: a session's stream is open, and a post that found its
  session loses it only when its stream ends.
- `LinesAreFramed`: the loop of `splitLines`, run over a growing buffer, hands on just the
  messages of the whole input, whatever its length and however it is cut into chunks.
  `StdioInv`: the input is a consumed part, empty or ending with a newline, and behind it
  what `buffer` holds, without one; the lines handed on are those of the consumed part,
  line k the one that ends at the k-th of the newlines with text before them. The loop is
  a recursive function over positions, so the proof first shows that the function exists
  (`ScansExist`), then what it has found after each character (`CharacterScanned`,
  `TextScanned`), by induction with `NatSet`; then that lines found in a part are lines
  of the whole (`LineOfPrefix`, `LineOfRest`).
- `ClientsReturnWhatWasSent`. What is under way to a client, in its buffer or parser and
  behind that on the wire, is a `Chain`: the messages in it go on, one by one, where
  those the call has collected end, and end where the other side is. That is `NatsInv`,
  `MqttInv`, `StompInv` and, with the fragments of an unfinished message counted in,
  `WebSocketInv`. None is inductive with the chain alone. NATS turns its buffer round
  while it awaits its PONG, and keeps the order only because the operation, and so every
  message, comes later. STOMP must have one waiter at most, and a stale one only once
  the run is over.
- `ClientsAreCalls`: the five clients implement the safety part of `ClientCall`; of MQTT
  as long as the overall timeout spares the handshake (section 5, `MqttIsACall`). The
  same invariants say what it needs: before the first effect the socket is open, and a
  settled call is past the stages in which it acts.
- `CallsLeaveNothing`, drawn from that refinement: a call that has returned left no socket
  open, and sent the frames of its operation on an open one, before it settled.

`FilesProofs`:

- `NoTreeIsLost`, `ReportsAreTrue`, of the files to which no path of the destination leads
  (`Shared` are the others), and if the destination does not lie inside the source
  (`~Nested`): without either condition the statements are false, and section 5 has the
  behaviours. `DirectoryInv` says of each such file, and each stage of the call, on which
  side it is whole (`Tracked`); what the copy does write into the source is shared
  (`Landed`).
- `OnlyIgnoredAreLost`: at any moment, what neither side holds any more is an ignored file
  of a moved source (`IgnoredInv`), under the same conditions. Hence `TreesMoveEntirely`, if
  nothing is ignored and the trees are apart: the conditions under which the statement of
  section 4 holds.
- `LinksAbortUnlessRenamed`: a link aborts every copy and every move to a destination
  that exists, so the rename is the one way past (section 5). `LinkInv`: a link stays
  a link until the walk, and behind the walk there was none. This one does not need
  `~Nested`.
- `FilesAreWhole`: the source stays until the destination is whole.

`TransfersProofs`, parts that share no variable:

- `TokensFitScopes`, for a key that holds the scope, and `ServedAreHonoured`, for a
  token request that takes no longer than the margin. `TokenInv`: a request
  under way is no older than `Timeout`, and so is the token it brings; hence a token in
  the cache lies under the key of its scope and expires there at most `Timeout` -
  `Margin` after it does at the endpoint.
- `RequestsAreBounded` and `BodiesAreFramed`. The bound is not inductive:
  `AllAccounted` bounds the requests by the redirects and the attempts so far, and
  `NextHop` says what one redirect more allows. A caller may give a `content-length`
  for which it gives no body; it is sent on, and the theorem says that no other is.
- `DigestsFitUnlessRedirected`: the statement of section 5 holds as long as no redirect
  has changed the method.
- `TasksAreDoneOnce`, for every number of tasks and every concurrency; that none is left
  out needs a worker, which a concurrency below one does not give (section 5).
  `PoolInv`: tasks below `nextIdx` were started once, those at or above it not yet; each
  of the former has a result or is a worker's; no two workers hold the same one.
- `DownloadsAreTransfers`, the refinement of `FileTransfer`, for every file, every
  modulus above two and any number of losses, repeats and resends, if the server
  honours the block size. `GetInv`: the number expected is the next block's modulo
  `Modulus`, the server is at most one block ahead, nothing in flight is ahead of its
  sender. As a datagram that arrives is no more than half a cycle old (an assumption on
  the network, `Young`), only the next block can have the number expected (`SameBlock`,
  `HalfCycle`, `AcceptedIsNext`).
- `UploadsAreTransfers`, the same refinement for an upload of fewer blocks than there
  are block numbers, with stray datagrams at any moment; with more blocks, `tftpPut`
  never ends (section 5, `PutEnds`). `PutInv`: the client is at the block after the one
  stored last, or at that one, and nothing under way is ahead of its sender; so an ACK
  the client acts on is that of its current block (`AckIsOfCurrent`) and what the server
  stores is the next block (`StoredIsNext`). This proof does not need `Young`.
- `DownloadsAreExact`, `UploadsAreExact`, drawn from the two refinements: what is stored
  is at any moment the beginning of the file, and all of it when the call succeeds.

Only model-checked:

- the liveness properties (`EveryMessageIsSeen`, `CallsEnd`, `EndsAreSeen`, `WaitsEnd`,
  `TransfersEnd`), which need fairness and ENABLED, out of this prover's reach;
- of `IsACall`, that calls return.

Every invariant and every action property of the passing runs is stated by a theorem.

## 8. Not modelled

The map covers a small share of the source, and that is the nature of the source:
most of its lines are clients of service APIs, parsers and writers of formats and
scanners, functions of one input that keep no state and meet nobody. Of the
files that keep state, await while others run, or speak a protocol with timers, the
following are left out.

- Service API clients make one HTTPS request a call; the caches of azure and gcp are
  modelled, that of teams is alike.
- Other protocol clients (CoAP, RADIUS, SNMP, Redis, AMQP, IMAP, SMTP, FTP, LDAP,
  XMPP, ...): one connection within one call, as in the five that are modelled. Each
  has waiters and timers of its own and would need a module of its own against
  `ClientCall`.
- The cookie jar of `http_session`, `fetch` and downloads to a file.
- SQLite tools keep a capped Map of open databases, but each handler is synchronous
  from its check to its assignment; transactions are SQLite's.
- File edits and writes: one synchronous read, change and write. git tools: one
  process, awaited synchronously; the state is git's.
- The scanners, converters, file formats and most utilities.
- The other browser actions forward one call to the active page.
- Configuration is read once. CORS, tokens and headers of the HTTP transport are
  left out of `SseTransport`; `add_route` is left out of `HttpServe`, since it
  changes only which body is answered.
- `server-stdio.js` does not parse at this commit (a stray backquote in line 72), so
  only the framing of stdin is modelled, not the order of replies.
- MQTT with QoS 0, retained messages and the will; the record formats of Kafka; the
  encodings of all protocols, malformed ones included: a Kafka frame with the length -4
  keeps the loop of `lib/kafkaClientOps.js:245` going for ever, and no timer fires in it.
- `run_command` on Windows (`taskkill /T`).

## 9. Plan

Written: the modules of section 2 and the proofs of section 7. What would come
next, in this order:

1. CoAP and RADIUS (retransmission against late answers), Redis and AMQP
   (pipelined replies), as further implementations of `ClientCall`.
2. The cookie jar of `http_session` under concurrent calls, and downloads to a file.
3. Algorithms against a reference definition over bounded inputs: JSON patch,
   semver ranges, cron, CIDR.
4. An abstract bounded buffer for `ProcessTable` and a safe move for `DirectoryMove`
   and `FileMove`, with refinements.
