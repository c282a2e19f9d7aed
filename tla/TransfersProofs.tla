-------------------------- MODULE TransfersProofs --------------------------
(***************************************************************************)
(* The clients of HTTP servers and TFTP, for all limits and every number of*)
(* calls, scopes, tasks, workers and blocks: tokens from the cache fit the *)
(* scope asked for and are still honoured; a request of http_client asks   *)
(* its server a bounded number of times and frames every body; the worker  *)
(* pool sends each request once; a TFTP download implements the transfer of*)
(* a file, whatever is lost or repeated.                                   *)
(***************************************************************************)
EXTENDS MCTransfers, TLAPS

----------------------------------------------------------------------------
(* The token cache *)

\* A request that is under way is younger than its timer, and so is the token on its way.
InTime(c) ==
  stage[c] = "fetching" =>
    /\ since[c] <= now /\ now <= since[c] + Timeout
    /\ token[c] # NoToken => since[c] <= token[c].issued /\ token[c].scope = scope[c]

\* A token in the cache is withdrawn while it is honoured, and lies under its own key.
EntrySound(k) ==
  cache[k] # NoEntry =>
    /\ cache[k].token \in Tokens
    /\ cache[k].expiresAt <= cache[k].token.issued + Lifetime + Timeout - Margin
    /\ CacheKey(cache[k].token.scope) = k

\* A call that has been served holds a token filed under the key of its own scope.
ServedSound(c) ==
  /\ stage[c] = "idle" => token[c] = NoToken
  /\ stage[c] \in {"cached", "fetched"} => CacheKey(token[c].scope) = CacheKey(scope[c])

TokenInv ==
  /\ TokenTypeOK
  /\ \A c \in Calls : InTime(c) /\ ServedSound(c)
  /\ \A k \in Keys : EntrySound(k)

LEMMA TokensAreTokens == NoToken \notin Tokens
  BY DEF NoToken, Tokens

LEMMA KeyIsAKey == \A s \in Scopes : CacheKey(s) \in Keys
  BY DEF Keys

LEMMA TokenInvInit == TokenInit => TokenInv
<1>. SUFFICES ASSUME TokenInit PROVE TokenInv
  OBVIOUS
<1>1. TokenTypeOK  BY DEF TokenInit, TokenTypeOK
<1>2. \A c \in Calls : InTime(c) /\ ServedSound(c)  BY DEF TokenInit, InTime, ServedSound
<1>3. \A k \in Keys : EntrySound(k)  BY DEF TokenInit, EntrySound
<1>. QED  BY <1>1, <1>2, <1>3 DEF TokenInv

LEMMA TokenInvStep == TokenInv /\ [TokenNext]_tokenVars => TokenInv'
<1>. SUFFICES ASSUME TokenInv, [TokenNext]_tokenVars PROVE TokenInv'
  OBVIOUS
<1>. USE TokenAssumption
<1>1. ASSUME NEW c \in Calls, ServeCached(c) PROVE TokenInv'
  <2>1. CacheKey(scope[c]) \in Keys /\ EntrySound(CacheKey(scope[c]))
    BY KeyIsAKey DEF TokenInv, TokenTypeOK
  <2>2. /\ Entry(c).token \in Tokens
        /\ CacheKey(Entry(c).token.scope) = CacheKey(scope[c])
    BY <1>1, <2>1 DEF ServeCached, Fresh, Entry, EntrySound
  <2>3. TokenTypeOK'
    BY <1>1, <2>2 DEF ServeCached, TokenInv, TokenTypeOK
  <2>4. ASSUME NEW d \in Calls PROVE InTime(d)' /\ ServedSound(d)'
    BY <1>1, <2>2, <2>4 DEF ServeCached, TokenInv, TokenTypeOK, InTime, ServedSound, CacheKey
  <2>5. \A k \in Keys : EntrySound(k)'
    BY <1>1 DEF ServeCached, TokenInv, EntrySound, CacheKey
  <2>. QED  BY <2>3, <2>4, <2>5 DEF TokenInv
<1>2. ASSUME NEW c \in Calls, Fetch(c) PROVE TokenInv'
  <2>1. TokenTypeOK'  BY <1>2 DEF Fetch, TokenInv, TokenTypeOK
  <2>2. ASSUME NEW d \in Calls PROVE InTime(d)' /\ ServedSound(d)'
    BY <1>2, <2>2 DEF Fetch, TokenInv, TokenTypeOK, InTime, ServedSound, CacheKey
  <2>3. \A k \in Keys : EntrySound(k)'
    BY <1>2 DEF Fetch, TokenInv, EntrySound, CacheKey
  <2>. QED  BY <2>1, <2>2, <2>3 DEF TokenInv
<1>3. ASSUME NEW c \in Calls, Issue(c) PROVE TokenInv'
  <2>1. [scope |-> scope[c], issued |-> now] \in Tokens
    BY DEF TokenInv, TokenTypeOK, Tokens
  <2>2. TokenTypeOK'  BY <1>3, <2>1 DEF Issue, TokenInv, TokenTypeOK
  <2>3. ASSUME NEW d \in Calls PROVE InTime(d)' /\ ServedSound(d)'
    BY <1>3, <2>1, <2>3 DEF Issue, TokenInv, TokenTypeOK, InTime, ServedSound, CacheKey
  <2>4. \A k \in Keys : EntrySound(k)'
    BY <1>3 DEF Issue, TokenInv, EntrySound, CacheKey
  <2>. QED  BY <2>2, <2>3, <2>4 DEF TokenInv
<1>4. ASSUME NEW c \in Calls, Fetched(c) PROVE TokenInv'
  <2>. DEFINE E == [token |-> token[c], expiresAt |-> Expiry]
              K == CacheKey(scope[c])
  <2>1. token[c] \in Tokens /\ now \in Nat /\ since[c] \in Nat
    BY <1>4 DEF Fetched, TokenInv, TokenTypeOK
  <2>2. since[c] <= token[c].issued /\ token[c].scope = scope[c] /\ now <= since[c] + Timeout
    BY <1>4 DEF Fetched, TokenInv, InTime
  <2>3. E \in Entries /\ E.expiresAt <= token[c].issued + Lifetime + Timeout - Margin
    BY <2>1, <2>2 DEF Entries, Tokens, Expiry
  <2>4. K \in Keys  BY KeyIsAKey DEF TokenInv, TokenTypeOK
  <2>5. cache' = [cache EXCEPT ![K] = E] /\ cache \in [Keys -> Entries \cup {NoEntry}]
    BY <1>4 DEF Fetched, TokenInv, TokenTypeOK
  <2>6. TokenTypeOK'
    BY <1>4, <2>3, <2>4, <2>5 DEF Fetched, TokenInv, TokenTypeOK
  <2>7. ASSUME NEW d \in Calls PROVE InTime(d)' /\ ServedSound(d)'
    BY <1>4, <2>2, <2>7 DEF Fetched, TokenInv, TokenTypeOK, InTime, ServedSound, CacheKey
  <2>8. ASSUME NEW k \in Keys PROVE EntrySound(k)'
    <3>1. CASE k = K
      <4>1. cache'[k] = E  BY <2>4, <2>5, <3>1
      <4>. QED  BY <4>1, <3>1, <2>1, <2>2, <2>3 DEF EntrySound, CacheKey
    <3>2. CASE k # K
      <4>1. cache'[k] = cache[k]  BY <2>5, <3>2
      <4>. QED  BY <4>1, <2>8 DEF TokenInv, EntrySound, CacheKey
    <3>. QED  BY <3>1, <3>2
  <2>. QED  BY <2>6, <2>7, <2>8 DEF TokenInv
<1>5. ASSUME NEW c \in Calls, FetchFails(c) PROVE TokenInv'
  <2>1. TokenTypeOK'  BY <1>5 DEF FetchFails, TokenInv, TokenTypeOK
  <2>2. ASSUME NEW d \in Calls PROVE InTime(d)' /\ ServedSound(d)'
    BY <1>5, <2>2 DEF FetchFails, TokenInv, TokenTypeOK, InTime, ServedSound, CacheKey
  <2>3. \A k \in Keys : EntrySound(k)'
    BY <1>5 DEF FetchFails, TokenInv, EntrySound, CacheKey
  <2>. QED  BY <2>1, <2>2, <2>3 DEF TokenInv
<1>6. CASE Tick
  <2>1. TokenTypeOK'  BY <1>6 DEF Tick, TokenInv, TokenTypeOK
  <2>2. ASSUME NEW d \in Calls PROVE InTime(d)' /\ ServedSound(d)'
    BY <1>6, <2>2 DEF Tick, TokenInv, TokenTypeOK, InTime, ServedSound, CacheKey
  <2>3. \A k \in Keys : EntrySound(k)'
    BY <1>6 DEF Tick, TokenInv, EntrySound, CacheKey
  <2>. QED  BY <2>1, <2>2, <2>3 DEF TokenInv
<1>7. CASE UNCHANGED tokenVars
  BY <1>7 DEF tokenVars, TokenInv, TokenTypeOK, InTime, ServedSound, EntrySound, CacheKey
<1>. QED  BY <1>1, <1>2, <1>3, <1>4, <1>5, <1>6, <1>7 DEF TokenNext

THEOREM TokenInvHolds == TokenSpec => []TokenInv
  BY TokenInvInit, TokenInvStep, PTL DEF TokenSpec

\* resolveToken, whose key holds the scope, never answers a call with the token of another scope.
THEOREM TokensFitScopes ==
  ASSUME KeyedByScope
  PROVE  TokenSpec => []TokenFitsScope
<1>1. TokenInv => TokenFitsScope
  BY DEF TokenInv, ServedSound, TokenFitsScope, CacheKey
<1>. QED  BY <1>1, TokenInvHolds, PTL

\* If the request's timer is no longer than the margin, a token served from the cache is still
\* honoured: the time its response was under way has been taken off its life.
THEOREM ServedAreHonoured ==
  ASSUME Timeout <= Margin
  PROVE  TokenSpec => ServedIsHonoured
<1>1. ASSUME TokenInv, TokenNext, NEW c \in Calls, stage[c] = "idle", stage'[c] = "cached"
      PROVE  now < token'[c].issued + Lifetime
  <2>1. ServeCached(c)
    BY <1>1 DEF TokenNext, ServeCached, Fetch, Issue, Fetched, FetchFails, Tick, TokenInv, TokenTypeOK
  <2>2. EntrySound(CacheKey(scope[c]))
    BY <1>1, KeyIsAKey DEF TokenInv, TokenTypeOK
  <2>3. /\ token'[c] = Entry(c).token /\ Entry(c).token \in Tokens
        /\ Entry(c).expiresAt <= Entry(c).token.issued + Lifetime + Timeout - Margin
        /\ Entry(c).expiresAt > now
    BY <1>1, <2>1, <2>2 DEF ServeCached, Fresh, Entry, EntrySound, TokenInv, TokenTypeOK
  <2>4. Entry(c).expiresAt \in Int /\ Entry(c).token.issued \in Nat /\ now \in Nat
    BY <1>1, <2>1, <2>3, KeyIsAKey DEF ServeCached, Fresh, Entry, TokenInv, TokenTypeOK, Entries, Tokens
  <2>. QED  BY <2>3, <2>4, TokenAssumption
<1>2. TokenInv /\ [TokenNext]_tokenVars =>
        [\A c \in Calls : stage[c] = "idle" /\ stage'[c] = "cached" =>
           now < token'[c].issued + Lifetime]_tokenVars
  BY <1>1
<1>. QED  BY <1>2, TokenInvHolds, PTL DEF TokenSpec, ServedIsHonoured

----------------------------------------------------------------------------
(* A request *)

\* The requests that the hops up to this one, and its attempts so far, account for.
Accounted ==
  redirects * (RetryCount + 1) + attempt + (IF step = "backoff" THEN 0 ELSE 1)
    + (IF challenged THEN 1 ELSE 0)

AllAccounted == requests <= Accounted

\* The stages, limits and flags keep their shape.
THEOREM RequestTypeCorrect == HttpSpec => []HttpTypeOK
<1>1. HttpInit => FlagsOK /\ CountsOK
  <2>1. HttpInit => FlagsOK  BY Zenon DEF HttpInit, FlagsOK
  <2>2. HttpInit => CountsOK  BY HttpRequestAssumption DEF HttpInit, CountsOK
  <2>. QED  BY <2>1, <2>2
<1>2. FlagsOK /\ [HttpNext]_httpVars => FlagsOK'
  <2>. SUFFICES ASSUME FlagsOK, [HttpNext]_httpVars PROVE FlagsOK'
    OBVIOUS
  <2>. USE DEF FlagsOK, callVars, loopVars
  <2>1. ASSUME RequestFails \/ BodyBreaks PROVE FlagsOK'
    BY <2>1, Zenon DEF RequestFails, BodyBreaks, Rejected
  <2>2. ASSUME Headers \/ Backoff \/ Return PROVE FlagsOK'
    BY <2>2, Zenon DEF Headers, Backoff, Return
  <2>3. ASSUME Unauthorized PROVE FlagsOK'
    BY <2>3, Zenon DEF Unauthorized
  <2>4. ASSUME NEW toGet \in BOOLEAN, Redirect(toGet) PROVE FlagsOK'
    BY <2>4, Zenon DEF Redirect
  <2>5. CASE UNCHANGED httpVars
    BY <2>5, Zenon DEF httpVars
  <2>. QED  BY <2>1, <2>2, <2>3, <2>4, <2>5 DEF HttpNext, BodyEnds
<1>3. CountsOK /\ [HttpNext]_httpVars => CountsOK'
  <2>. SUFFICES ASSUME CountsOK, [HttpNext]_httpVars PROVE CountsOK'
    OBVIOUS
  <2>. USE HttpRequestAssumption DEF CountsOK, callVars, loopVars, Methods
  <2>1. ASSUME RequestFails \/ BodyBreaks PROVE CountsOK'
    BY <2>1 DEF RequestFails, BodyBreaks, Rejected, Over
  <2>2. ASSUME Headers \/ Backoff \/ Unauthorized \/ Return PROVE CountsOK'
    BY <2>2 DEF Headers, Backoff, Unauthorized, Return, Send, Over
  <2>3. ASSUME NEW toGet \in BOOLEAN, Redirect(toGet) PROVE CountsOK'
    BY <2>3 DEF Redirect, Send
  <2>4. CASE UNCHANGED httpVars
    BY <2>4 DEF httpVars
  <2>. QED  BY <2>1, <2>2, <2>3, <2>4 DEF HttpNext, BodyEnds
<1>. QED  BY <1>1, <1>2, <1>3, PTL DEF HttpSpec, HttpTypeOK

LEMMA NextHop ==
  ASSUME NEW r \in Nat
  PROVE  /\ r * (RetryCount + 1) \in Nat
         /\ (r + 1) * (RetryCount + 1) = r * (RetryCount + 1) + RetryCount + 1
  BY HttpRequestAssumption

LEMMA AccountKept == HttpTypeOK /\ AllAccounted /\ [HttpNext]_httpVars => AllAccounted'
<1>. SUFFICES ASSUME HttpTypeOK, requests <= Accounted, [HttpNext]_httpVars
     PROVE  requests' <= Accounted'
  BY DEF AllAccounted
<1>. DEFINE hops == redirects * (RetryCount + 1)
<1>1. /\ redirects \in Nat /\ attempt \in Nat /\ attempt <= RetryCount
      /\ requests \in Nat /\ hops \in Nat /\ RetryCount \in Nat
  BY NextHop, HttpRequestAssumption DEF HttpTypeOK, CountsOK
<1>2. ASSUME RequestFails \/ BodyBreaks PROVE requests' <= Accounted'
  <2>1. step # "backoff" /\ requests' = requests /\ redirects' = redirects /\ challenged' = challenged
    BY <1>2 DEF RequestFails, BodyBreaks, Rejected, Over, loopVars
  <2>2. \/ step' # "backoff" /\ attempt' = attempt
        \/ step' = "backoff" /\ attempt' = attempt + 1
    BY <1>2 DEF RequestFails, BodyBreaks, Rejected, Over
  <2>. QED  BY <1>1, <2>1, <2>2 DEF Accounted
<1>3. ASSUME Headers \/ Return PROVE requests' <= Accounted'
  <2>1. /\ step # "backoff" /\ step' # "backoff"
        /\ UNCHANGED <<requests, redirects, challenged, attempt>>
    BY <1>3 DEF Headers, Return, Over, loopVars
  <2>. QED  BY <1>1, <2>1 DEF Accounted
<1>4. ASSUME Backoff PROVE requests' <= Accounted'
  <2>1. /\ step = "backoff" /\ step' = "sent" /\ requests' = requests + 1
        /\ UNCHANGED <<redirects, challenged, attempt>>
    BY <1>4 DEF Backoff, Send, loopVars
  <2>. QED  BY <1>1, <2>1 DEF Accounted
<1>5. ASSUME Unauthorized PROVE requests' <= Accounted'
  <2>1. /\ step = "headers" /\ step' = "sent" /\ requests' = requests + 1
        /\ ~challenged /\ challenged' /\ UNCHANGED <<redirects, attempt>>
    BY <1>5 DEF Unauthorized, Send, loopVars
  <2>. QED  BY <1>1, <2>1 DEF Accounted
<1>6. ASSUME NEW toGet \in BOOLEAN, Redirect(toGet) PROVE requests' <= Accounted'
  <2>1. /\ step = "headers" /\ step' = "sent" /\ requests' = requests + 1
        /\ redirects' = redirects + 1 /\ attempt' = 0 /\ challenged' = challenged
    BY <1>6 DEF Redirect, Send
  <2>2. redirects' * (RetryCount + 1) = hops + RetryCount + 1
    BY <1>1, <2>1, NextHop
  <2>. HIDE DEF hops
  <2>3. requests <= hops + attempt + 1 + (IF challenged THEN 1 ELSE 0)
    BY <2>1 DEF Accounted, hops
  <2>4. Accounted' = hops + RetryCount + 1 + 0 + 1 + (IF challenged THEN 1 ELSE 0)
    BY <2>1, <2>2 DEF Accounted
  <2>. QED  BY <1>1, <2>1, <2>3, <2>4
<1>7. CASE UNCHANGED httpVars
  BY <1>7 DEF httpVars, loopVars, Accounted
<1>. QED  BY <1>2, <1>3, <1>4, <1>5, <1>6, <1>7 DEF HttpNext, BodyEnds

\* However redirects, failures and the challenge follow each other, a call sends no more than
\* RetryCount + 1 requests per hop, and one more for the challenge.
THEOREM RequestsAreBounded == HttpSpec => []RequestsBounded
<1>1. HttpInit => AllAccounted
  <2>. SUFFICES ASSUME HttpInit PROVE requests <= Accounted
    BY DEF AllAccounted
  <2>1. redirects * (RetryCount + 1) \in Nat  BY NextHop DEF HttpInit
  <2>. QED  BY <2>1 DEF HttpInit, Accounted
<1>2. HttpTypeOK /\ AllAccounted => RequestsBounded
  <2>. SUFFICES ASSUME HttpTypeOK, requests <= Accounted PROVE RequestsBounded
    BY DEF AllAccounted
  <2>. DEFINE hops == redirects * (RetryCount + 1)
  <2>1. /\ redirects \in Nat /\ attempt \in Nat /\ attempt <= RetryCount
        /\ requests \in Nat /\ hops \in Nat /\ RetryCount \in Nat
    BY NextHop, HttpRequestAssumption DEF HttpTypeOK, CountsOK
  <2>2. (redirects + 1) * (RetryCount + 1) = hops + RetryCount + 1
    BY <2>1, NextHop
  <2>3. requests <= hops + attempt + 1 + (IF challenged THEN 1 ELSE 0)
    BY <2>1 DEF Accounted
  <2>. HIDE DEF hops
  <2>. QED  BY <2>1, <2>2, <2>3 DEF RequestsBounded
<1>. QED  BY <1>1, <1>2, AccountKept, RequestTypeCorrect, PTL DEF HttpSpec

\* A redirect that turns a request into a GET takes its body and its Content-Length together,
\* so that no Content-Length goes without a body but one the caller gave.
THEOREM BodiesAreFramed == HttpSpec => []BodyIsFramed
<1>1. HttpInit => BodyIsFramed
  BY DEF HttpInit, BodyIsFramed
<1>2. BodyIsFramed /\ [HttpNext]_httpVars => BodyIsFramed'
  <2>. SUFFICES ASSUME BodyIsFramed, [HttpNext]_httpVars PROVE BodyIsFramed'
    OBVIOUS
  <2>1. ASSUME NEW toGet \in BOOLEAN, Redirect(toGet) PROVE BodyIsFramed'
    BY <2>1 DEF Redirect, callVars, BodyIsFramed
  <2>2. ASSUME UNCHANGED <<callVars, loopVars>> PROVE BodyIsFramed'
    BY <2>2 DEF callVars, loopVars, BodyIsFramed
  <2>3. ASSUME RequestFails \/ BodyBreaks \/ Headers \/ Backoff \/ Unauthorized \/ Return
        PROVE  UNCHANGED <<callVars, loopVars>>
    BY <2>3 DEF RequestFails, BodyBreaks, Rejected, Headers, Backoff, Unauthorized, Return
  <2>. QED  BY <2>1, <2>2, <2>3 DEF HttpNext, BodyEnds, httpVars
<1>. QED  BY <1>1, <1>2, PTL DEF HttpSpec

\* The digest is always that of the method the call asked for, so it fits the request as
\* long as no redirect has turned that into another.
THEOREM DigestsFitUnlessRedirected ==
  HttpSpec => [](currentMethod = method => DigestFitsMethod)
<1>. DEFINE Inv == signedFor \in {Unsigned, method}
<1>1. HttpInit => Inv
  BY DEF HttpInit
<1>2. Inv /\ [HttpNext]_httpVars => Inv'
  BY DEF HttpNext, RequestFails, Rejected, Headers, BodyBreaks, Backoff, BodyEnds,
         Unauthorized, Redirect, Return, callVars, httpVars
<1>3. Inv => (currentMethod = method => DigestFitsMethod)
  BY DEF DigestFitsMethod
<1>. QED  BY <1>1, <1>2, <1>3, PTL DEF HttpSpec

----------------------------------------------------------------------------
(* The pool *)

\* The workers are at different tasks; exactly the tasks below the index have been started,
\* and each of them has its result or a worker at it.
PoolInv ==
  /\ PoolTypeOK
  /\ \A w \in Pool : task[w] # Ended => task[w] < nextIdx
  /\ \A v, w \in Pool : v # w /\ task[v] # Ended => task[v] # task[w]
  /\ \A i \in Idx : started[i] = (IF i < nextIdx THEN 1 ELSE 0)
  /\ \A i \in Idx : i < nextIdx => results[i] # NoResult \/ \E w \in Pool : task[w] = i
  /\ (\E w \in Pool : task[w] = Ended) => nextIdx = Tasks
  /\ answer # "pending" => \A w \in Pool : task[w] = Ended

LEMMA PoolFacts ==
  ASSUME concurrency \in 0 .. MAX_CONCURRENCY
  PROVE  /\ concurrency > 0 => 1 \in Pool
         /\ Pool \subseteq Nat \ {0}
         /\ \A w \in Pool : w - 1 \in Idx
  BY PoolAssumption DEF Pool, Idx

LEMMA PoolStays ==
  ASSUME UNCHANGED concurrency
  PROVE  Pool' = Pool
  BY DEF Pool

LEMMA PoolInvInit == PoolInit => PoolInv
<1>. SUFFICES ASSUME PoolInit PROVE PoolInv
  OBVIOUS
<1>. USE PoolAssumption
<1>1. nextIdx \in 0 .. Tasks /\ Pool = 1 .. nextIdx  BY DEF PoolInit, Pool
<1>2. PoolTypeOK  BY <1>1, PoolFacts DEF PoolInit, PoolTypeOK
<1>3. \A i \in Idx : i < nextIdx => \E w \in Pool : task[w] = i
  <2>. SUFFICES ASSUME NEW i \in Idx, i < nextIdx PROVE i + 1 \in Pool /\ task[i + 1] = i
    OBVIOUS
  <2>. QED  BY <1>1 DEF PoolInit, Idx
<1>4. \A w \in Pool : task[w] = w - 1 /\ task[w] # Ended /\ task[w] < nextIdx
  BY <1>1 DEF PoolInit, Ended
<1>5. \A v, w \in Pool : v # w => task[v] # task[w]  BY <1>1, <1>4
<1>. QED  BY <1>2, <1>3, <1>4, <1>5 DEF PoolInit, PoolInv

LEMMA PoolInvStep == PoolInv /\ [PoolNext]_poolVars => PoolInv'
<1>. SUFFICES ASSUME PoolInv, [PoolNext]_poolVars PROVE PoolInv'
  OBVIOUS
<1>. USE PoolAssumption
<1>1. ASSUME NEW w \in Pool, NEW how \in {"ok", "error"}, Settles(w, how), nextIdx < Tasks
      PROVE  PoolInv'
  <2>1. /\ task' = [task EXCEPT ![w] = nextIdx] /\ nextIdx' = nextIdx + 1
        /\ started' = [started EXCEPT ![nextIdx] = @ + 1]
        /\ results' = [results EXCEPT ![task[w]] = how]
        /\ task[w] \in Idx /\ UNCHANGED <<concurrency, failFast, answer>>
    BY <1>1 DEF Settles, Take, asked
  <2>. Pool' = Pool  BY <2>1, PoolStays
  <2>2. nextIdx \in Idx /\ nextIdx \in Nat /\ nextIdx # Ended
    BY <1>1 DEF PoolInv, PoolTypeOK, Idx, Ended
  <2>3. PoolTypeOK'  BY <1>1, <2>1, <2>2 DEF PoolInv, PoolTypeOK, Idx, NoResult
  <2>4. \A v \in Pool : task'[v] = IF v = w THEN nextIdx ELSE task[v]
    BY <2>1 DEF PoolInv, PoolTypeOK
  <2>5. \A v \in Pool : task'[v] # Ended => task'[v] < nextIdx'
    BY <2>1, <2>2, <2>4 DEF PoolInv, PoolTypeOK, Idx
  <2>6. \A u, v \in Pool : u # v /\ task'[u] # Ended => task'[u] # task'[v]
    BY <2>2, <2>4 DEF PoolInv, PoolTypeOK, Idx, Ended
  <2>7. \A i \in Idx : started'[i] = (IF i < nextIdx' THEN 1 ELSE 0)
    BY <2>1, <2>2 DEF PoolInv, PoolTypeOK, Idx
  <2>8. ASSUME NEW i \in Idx, i < nextIdx'
        PROVE  results'[i] # NoResult \/ \E v \in Pool : task'[v] = i
    <3>1. CASE i = nextIdx  BY <3>1, <2>4
    <3>2. CASE i = task[w]  BY <3>2, <1>1, <2>1 DEF PoolInv, PoolTypeOK, NoResult
    <3>3. CASE i # nextIdx /\ i # task[w]
      <4>1. i < nextIdx  BY <3>3, <2>1, <2>2, <2>8 DEF Idx
      <4>2. results'[i] = results[i]  BY <3>3, <2>1 DEF PoolInv, PoolTypeOK
      <4>. QED  BY <4>1, <4>2, <3>3, <2>4 DEF PoolInv
    <3>. QED  BY <3>1, <3>2, <3>3
  <2>9. ~(\E v \in Pool : task'[v] = Ended)
    BY <1>1, <2>2, <2>4 DEF PoolInv, PoolTypeOK
  <2>10. answer' = "pending"
    BY <2>1 DEF PoolInv, PoolTypeOK, Idx, Ended
  <2>. QED  BY <2>3, <2>5, <2>6, <2>7, <2>8, <2>9, <2>10 DEF PoolInv
<1>2. ASSUME NEW w \in Pool, NEW how \in {"ok", "error"}, Settles(w, how), ~(nextIdx < Tasks)
      PROVE  PoolInv'
  <2>1. /\ task' = [task EXCEPT ![w] = Ended] /\ UNCHANGED <<nextIdx, started>>
        /\ results' = [results EXCEPT ![task[w]] = how]
        /\ task[w] \in Idx /\ UNCHANGED <<concurrency, failFast, answer>>
    BY <1>2 DEF Settles, Take, asked
  <2>. Pool' = Pool  BY <2>1, PoolStays
  <2>2. nextIdx = Tasks  BY <1>2 DEF PoolInv, PoolTypeOK
  <2>3. PoolTypeOK'  BY <1>2, <2>1 DEF PoolInv, PoolTypeOK, NoResult
  <2>4. \A v \in Pool : task'[v] = IF v = w THEN Ended ELSE task[v]
    BY <2>1 DEF PoolInv, PoolTypeOK
  <2>5. \A v \in Pool : task'[v] # Ended => task'[v] < nextIdx'
    BY <2>1, <2>4 DEF PoolInv
  <2>6. \A u, v \in Pool : u # v /\ task'[u] # Ended => task'[u] # task'[v]
    BY <2>4 DEF PoolInv
  <2>7. ASSUME NEW i \in Idx, i < nextIdx'
        PROVE  results'[i] # NoResult \/ \E v \in Pool : task'[v] = i
    <3>1. CASE i = task[w]  BY <3>1, <1>2, <2>1 DEF PoolInv, PoolTypeOK, NoResult
    <3>2. CASE i # task[w]
      <4>1. results'[i] = results[i]  BY <3>2, <2>1 DEF PoolInv, PoolTypeOK
      <4>. QED  BY <4>1, <3>2, <2>1, <2>4, <2>7 DEF PoolInv
    <3>. QED  BY <3>1, <3>2
  <2>8. answer' = "pending"
    BY <2>1 DEF PoolInv, PoolTypeOK, Idx, Ended
  <2>9. \A i \in Idx : started'[i] = (IF i < nextIdx' THEN 1 ELSE 0)
    BY <2>1 DEF PoolInv
  <2>. QED  BY <2>1, <2>2, <2>3, <2>5, <2>6, <2>7, <2>8, <2>9 DEF PoolInv
<1>3. CASE Answers
  BY <1>3, PoolStays DEF Answers, asked, PoolInv, PoolTypeOK
<1>4. CASE UNCHANGED poolVars
  BY <1>4, PoolStays DEF poolVars, asked, PoolInv, PoolTypeOK
<1>. QED  BY <1>1, <1>2, <1>3, <1>4 DEF PoolNext

THEOREM PoolInvHolds == PoolSpec => []PoolInv
  BY PoolInvInit, PoolInvStep, PTL DEF PoolSpec

\* pMap starts no task twice, whatever order they settle in, and as long as there is a worker
\* Promise.all leaves none out.
THEOREM TasksAreDoneOnce == PoolSpec => []EachTaskOnce
<1>1. PoolInv => EachTaskOnce
  <2>. SUFFICES ASSUME PoolInv PROVE EachTaskOnce
    OBVIOUS
  <2>1. \A i \in Idx : started[i] <= 1  BY DEF PoolInv
  <2>2. ASSUME answer # "pending", concurrency > 0, NEW i \in Idx PROVE results[i] # NoResult
    <3>1. \A w \in Pool : task[w] = Ended  BY <2>2 DEF PoolInv
    <3>2. nextIdx = Tasks  BY <2>2, <3>1, PoolFacts DEF PoolInv, PoolTypeOK
    <3>. QED  BY <3>1, <3>2, PoolAssumption DEF PoolInv, Idx, Ended
  <2>. QED  BY <2>1, <2>2 DEF EachTaskOnce
<1>. QED  BY <1>1, PoolInvHolds, PTL

----------------------------------------------------------------------------
(* What a transfer comes to *)

\* The first blocks of the file, in order, each once.
Prefix(blocks) == blocks \in Seq(Nat) /\ \A i \in DOMAIN blocks : blocks[i] = i

LEMMA PrefixGrows ==
  ASSUME NEW blocks, Prefix(blocks)
  PROVE  Prefix(Append(blocks, Len(blocks) + 1))
<1>. DEFINE n == Len(blocks)
<1>1. n \in Nat /\ blocks \in Seq(Nat) /\ \A i \in 1 .. n : blocks[i] = i
  BY DEF Prefix
<1>2. /\ Append(blocks, n + 1) \in Seq(Nat) /\ DOMAIN Append(blocks, n + 1) = 1 .. n + 1
      /\ \A i \in 1 .. n : Append(blocks, n + 1)[i] = blocks[i]
      /\ Append(blocks, n + 1)[n + 1] = n + 1
  BY <1>1
<1>3. \A i \in 1 .. n + 1 : i \in 1 .. n \/ i = n + 1
  BY <1>1
<1>. QED  BY <1>1, <1>2, <1>3 DEF Prefix

----------------------------------------------------------------------------
(* A TFTP download, for every modulus above two of the block numbers *)

(* Block numbers that agree modulo M and are less than M apart. *)

LEMMA Division ==
  ASSUME NEW a \in Int, NEW M \in Nat, M > 0
  PROVE  /\ a \div M \in Int /\ a % M \in 0 .. (M - 1)
         /\ a = M * (a \div M) + (a % M)
  BY Z3

LEMMA NoMultipleBetween ==
  ASSUME NEW q \in Int, NEW d \in Int, NEW M \in Nat, d = M * q, 0 <= d, d < M
  PROVE  d = 0
<1>1. CASE q <= -1
  <2>1. M * q <= -M  BY <1>1, Z3
  <2>. QED  BY <2>1
<1>2. CASE q = 0  BY <1>2
<1>3. CASE q >= 1
  <2>1. M * q >= M  BY <1>3, Z3
  <2>. QED  BY <2>1
<1>. QED  BY <1>1, <1>2, <1>3

LEMMA SameBlock ==
  ASSUME NEW a \in Int, NEW b \in Int, NEW M \in Nat, M > 0,
         a % M = b % M, a <= b, b - a < M
  PROVE  a = b
<1>. DEFINE p == a \div M
            q == b \div M
<1>1. p \in Int /\ q \in Int /\ a % M \in Int /\ a = M * p + (a % M) /\ b = M * q + (b % M)
  BY Division
<1>. HIDE DEF p, q
<1>2. b - a = M * q - M * p  BY <1>1
<1>3. M * q - M * p = M * (q - p)  BY <1>1, Z3
<1>4. b - a = 0
  <2>. DEFINE d == b - a
              k == q - p
  <2>1. d \in Int /\ k \in Int /\ d = M * k /\ 0 <= d /\ d < M  BY <1>1, <1>2, <1>3
  <2>. HIDE DEF d, k
  <2>2. d = 0  BY <2>1, NoMultipleBetween
  <2>. QED  BY <2>2 DEF d
<1>. QED  BY <1>4

LEMMA NextBlock ==
  ASSUME NEW a \in Int, NEW M \in Nat, M > 0
  PROVE  ((a % M) + 1) % M = (a + 1) % M
<1>. DEFINE r == a % M
            p == a \div M
            s == (r + 1) % M
            t == (a + 1) % M
            f == (r + 1) \div M
            g == (a + 1) \div M
<1>1. p \in Int /\ r \in Int /\ a = M * p + r  BY Division
<1>2. f \in Int /\ s \in 0 .. (M - 1) /\ r + 1 = M * f + s  BY <1>1, Division
<1>3. g \in Int /\ t \in 0 .. (M - 1) /\ a + 1 = M * g + t  BY Division
<1>. HIDE DEF r, p, s, t, f, g
<1>4. t - s = M * p + M * f - M * g  BY <1>1, <1>2, <1>3
<1>5. M * p + M * f - M * g = M * (p + f - g) /\ M * g - M * p - M * f = M * (g - p - f)
  BY <1>1, <1>2, <1>3, Z3
<1>6. s - t = M * (g - p - f)  BY <1>1, <1>2, <1>3, <1>4, <1>5
<1>7. ASSUME NEW k \in Int, NEW d \in Int, d = M * k, 0 <= d, d < M PROVE d = 0
  BY <1>7, NoMultipleBetween
<1>8. ASSUME s <= t PROVE s = t
  <2>1. p + f - g \in Int /\ t - s \in Int /\ 0 <= t - s /\ t - s < M
    BY <1>1, <1>2, <1>3, <1>8
  <2>2. t - s = 0  BY <2>1, <1>4, <1>5, <1>7
  <2>. QED  BY <2>2, <1>2, <1>3
<1>9. ASSUME t <= s PROVE s = t
  <2>1. g - p - f \in Int /\ s - t \in Int /\ 0 <= s - t /\ s - t < M
    BY <1>1, <1>2, <1>3, <1>9
  <2>2. s - t = 0  BY <2>1, <1>6, <1>7
  <2>. QED  BY <2>2, <1>2, <1>3
<1>10. s = t  BY <1>2, <1>3, <1>8, <1>9
<1>. QED  BY <1>10 DEF s, t, r

----------------------------------------------------------------------------

\* The server is at most one block ahead of the client, nothing under way is ahead of the
\* server, and no ACK ahead of the client.
GetInv ==
  /\ phase \in {"running", "lingering", "ok", "failed"}
  /\ chunks \in Seq(Int) /\ expected = (Len(chunks) + 1) % Modulus
  /\ phase = "running" => Len(chunks) < Blocks
  /\ phase = "lingering" => Len(chunks) = Blocks
  /\ sent \in Int /\ -1 <= sent /\ sent <= Blocks /\ sent <= Len(chunks) + 1
  /\ Len(chunks) = 0 \/ Len(chunks) <= sent
  /\ lastAck \in Int /\ lastAck <= Len(chunks) /\ lastAck <= sent
  /\ \A n \in toClient : n \in Int /\ n <= sent
  /\ \A n \in toServer : n \in Int /\ n <= Len(chunks) /\ n <= sent
  /\ honours = TRUE

LEMMA HalfCycle ==
  ASSUME Modulus > 2
  PROVE  Modulus \div 2 \in Int /\ Modulus \div 2 + 1 < Modulus
  BY GetAssumption, Z3

\* The number on the wire is that of the expected block for the next block only.
LEMMA AcceptedIsNext ==
  ASSUME Modulus > 2, GetInv, NEW n \in 1 .. Blocks, RcvBlock(n)
  PROVE  n = Len(chunks) + 1 /\ phase = "running"
<1>1. /\ n > 0 /\ n <= sent /\ n + Modulus \div 2 >= sent
      /\ n % Modulus = (Len(chunks) + 1) % Modulus
      /\ Waiting /\ Len(chunks) \in Nat
  BY DEF RcvBlock, Delivers, Young, GetInv
<1>2. n = Len(chunks) + 1
  <2>1. CASE Len(chunks) = 0  BY <1>1, <2>1 DEF GetInv
  <2>2. CASE Len(chunks) # 0
    <3>1. n <= Len(chunks) + 1 /\ Len(chunks) + 1 - n < Modulus
      BY <1>1, <2>2, HalfCycle, GetAssumption, SMTT(20) DEF GetInv
    <3>. QED  BY <1>1, <3>1, SameBlock, GetAssumption
  <2>. QED  BY <2>1, <2>2
<1>3. phase # "lingering"  BY <1>1, <1>2, GetAssumption DEF GetInv
<1>. QED  BY <1>1, <1>2, <1>3 DEF Waiting

LEMMA GetInvInit ==
  ASSUME Honours \subseteq {TRUE}, GetInit
  PROVE  GetInv
<1>1. 1 % Modulus = (0 + 1) % Modulus  OBVIOUS
<1>2. expected = (Len(chunks) + 1) % Modulus
  <2>1. 1 % Modulus = 1  BY GetAssumption, SameBlock, Division, Z3
  <2>. QED  BY <2>1 DEF GetInit
<1>3. honours = TRUE  BY DEF GetInit
<1>4. chunks \in Seq(Int) /\ Len(chunks) = 0  BY DEF GetInit
<1>. QED  BY <1>2, <1>3, <1>4, GetAssumption DEF GetInit, GetInv, NoAck, Request

LEMMA GetInvStep ==
  ASSUME Modulus > 2, GetInv, [GetNext]_getVars
  PROVE  GetInv'
<1>. USE GetAssumption DEF client, server
<1>0. Len(chunks) \in Nat  BY DEF GetInv
<1>1. ASSUME RcvError PROVE GetInv'
  BY <1>1 DEF RcvError, Delivers, GetInv
<1>2. ASSUME RcvOack PROVE GetInv'
  BY <1>0, <1>2 DEF RcvOack, Delivers, GetInv
<1>3. ASSUME NEW n \in 1 .. Blocks, RcvBlock(n) PROVE GetInv'
  <2>1. n = Len(chunks) + 1 /\ phase = "running" /\ n <= sent
    BY <1>3, AcceptedIsNext DEF RcvBlock, Delivers, GetInv
  <2>2. CASE phase' = "failed" /\ UNCHANGED <<expected, chunks, lastAck, toServer>>
    BY <1>3, <2>2 DEF RcvBlock, Delivers, GetInv
  <2>3. CASE /\ chunks' = Append(chunks, n)
             /\ lastAck' = n /\ toServer' = toServer \cup {n}
             /\ expected' = (expected + 1) % Modulus
             /\ phase' = IF IsShort(n) THEN "lingering" ELSE phase
    <3>1. chunks' \in Seq(Int) /\ Len(chunks') = Len(chunks) + 1
      BY <2>3 DEF GetInv
    <3>2. expected' = (Len(chunks') + 1) % Modulus
      <4>1. expected' = (((Len(chunks) + 1) % Modulus) + 1) % Modulus  BY <2>3 DEF GetInv
      <4>2. (((Len(chunks) + 1) % Modulus) + 1) % Modulus = (Len(chunks) + 1 + 1) % Modulus
        BY <1>0, NextBlock
      <4>. QED  BY <4>1, <4>2, <3>1
    <3>3. phase' = IF n = Blocks THEN "lingering" ELSE "running"
      BY <2>1, <2>3 DEF IsShort, GetInv
    <3>4. Len(chunks) < Blocks  BY <2>1 DEF GetInv
    <3>5. \A m \in toClient' : m \in Int /\ m <= sent
      BY <1>3 DEF RcvBlock, Delivers, GetInv
    <3>6. \A m \in toServer' : m \in Int /\ m <= Len(chunks') /\ m <= sent
      BY <1>0, <2>1, <2>3, <3>1 DEF GetInv
    <3>7. sent' = sent /\ honours' = honours
      BY <1>3 DEF RcvBlock, Delivers
    <3>. QED  BY <1>0, <2>1, <2>3, <3>1, <3>2, <3>3, <3>4, <3>5, <3>6, <3>7, SMTT(20)
           DEF GetInv
  <2>. QED  BY <1>3, <2>2, <2>3 DEF RcvBlock
<1>4. ASSUME NEW n \in 1 .. Blocks, RcvDuplicate(n) PROVE GetInv'
  <2>1. \A m \in toServer' : m \in Int /\ m <= Len(chunks) /\ m <= sent
    BY <1>4 DEF RcvDuplicate, GetInv
  <2>. QED  BY <1>4, <2>1 DEF RcvDuplicate, Delivers, GetInv
<1>5. ASSUME NEW n \in 1 .. Blocks, RcvOther(n) PROVE GetInv'
  BY <1>5 DEF RcvOther, Delivers, GetInv
<1>6. ASSUME Timer \/ LingerEnds \/ Breaks PROVE GetInv'
  <2>1. \A m \in toServer' : m \in Int /\ m <= Len(chunks) /\ m <= sent
    <3>1. toServer' \subseteq toServer \cup {lastAck}
      BY <1>6 DEF Timer, LingerEnds, Breaks
    <3>. QED  BY <3>1 DEF GetInv
  <2>2. /\ phase' \in {phase, "ok", "failed"}
        /\ UNCHANGED <<expected, chunks, lastAck, sent, honours, toClient>>
    BY <1>6 DEF Timer, LingerEnds, Breaks
  <2>. QED  BY <2>1, <2>2 DEF GetInv
<1>7. ASSUME Accepts PROVE GetInv'
  BY <1>0, <1>7 DEF Accepts, GetInv, Error
<1>8. ASSUME Resends PROVE GetInv'
  BY <1>8 DEF Resends, GetInv
<1>9. ASSUME Lose PROVE GetInv'
  BY <1>9 DEF Lose, GetInv
<1>10. ASSUME NEW n \in 0 .. Blocks, Acked(n) PROVE GetInv'
  <2>1. n <= sent /\ n <= Len(chunks) /\ n + Modulus \div 2 >= sent
    BY <1>10 DEF Acked, Young, GetInv
  <2>2. n % Modulus = sent % Modulus => n = sent
    <3>1. sent - n < Modulus  BY <2>1, HalfCycle DEF GetInv
    <3>. QED  BY <2>1, <3>1, SameBlock, SMTT(20) DEF GetInv
  <2>3. sent' = sent \/ (sent' = sent + 1 /\ sent < Blocks /\ sent <= Len(chunks))
    BY <1>10, <2>1, <2>2 DEF Acked
  <2>4. \A m \in toClient' : m \in Int /\ m <= sent'
    <3>1. \/ toClient' = toClient /\ sent' = sent
          \/ toClient' = toClient \cup {sent + 1} /\ sent' = sent + 1
      BY <1>10 DEF Acked
    <3>2. sent \in Int /\ \A m \in toClient : m \in Int /\ m <= sent
      BY DEF GetInv
    <3>. QED  BY <3>1, <3>2
  <2>5. toServer' \subseteq toServer /\ UNCHANGED <<client, honours>>
    BY <1>10 DEF Acked
  <2>6. \A m \in toServer' : m \in Int /\ m <= Len(chunks) /\ m <= sent'
    BY <2>3, <2>5 DEF GetInv
  <2>. QED  BY <1>0, <2>3, <2>4, <2>5, <2>6, SMTT(20) DEF GetInv
<1>11. CASE UNCHANGED getVars
  BY <1>11 DEF getVars, GetInv
<1>. QED
  BY <1>1, <1>2, <1>3, <1>4, <1>5, <1>6, <1>7, <1>8, <1>9, <1>10, <1>11 DEF GetNext

\* Of a server that takes the blksize option, tftpGet accepts each block once and in order,
\* through losses, repetitions and wraps, and succeeds only with the whole file.
THEOREM DownloadsAreTransfers ==
  ASSUME Modulus > 2, Honours \subseteq {TRUE}
  PROVE  GetSpec => GetIsATransfer
<1>1. GetInit => GetInv /\ Transfer!Init
  BY GetInvInit DEF GetInit, Transfer!Init, Outcome, Waiting
<1>2. GetInv /\ [GetNext]_getVars => GetInv'
  BY GetInvStep
<1>3. GetInv /\ [GetNext]_getVars => [Transfer!Next]_<<chunks, Outcome>>
  <2>. SUFFICES ASSUME GetInv, [GetNext]_getVars PROVE [Transfer!Next]_<<chunks, Outcome>>
    OBVIOUS
  <2>. USE DEF client, server, Outcome, Waiting
  <2>1. ASSUME NEW n \in 1 .. Blocks, RcvBlock(n) PROVE Transfer!Next
    <3>1. n = Len(chunks) + 1 /\ phase = "running" /\ Len(chunks) < Blocks
      BY <2>1, AcceptedIsNext DEF GetInv
    <3>. QED
      BY <2>1, <3>1 DEF RcvBlock, Transfer!Next, Transfer!Store, Transfer!Fail, GetInv
  <2>2. ASSUME RcvError \/ Breaks PROVE Transfer!Fail
    BY <2>2 DEF RcvError, Delivers, Breaks, Transfer!Fail
  <2>3. ASSUME Timer PROVE Transfer!Fail \/ UNCHANGED <<chunks, Outcome>>
    BY <2>3 DEF Timer, Transfer!Fail
  <2>4. ASSUME LingerEnds PROVE Transfer!Succeed
    BY <2>4 DEF LingerEnds, Transfer!Succeed, GetInv
  <2>5. ASSUME \/ RcvOack \/ Accepts \/ Resends \/ Lose
               \/ \E n \in 1 .. Blocks : RcvDuplicate(n) \/ RcvOther(n)
               \/ \E n \in 0 .. Blocks : Acked(n)
        PROVE  UNCHANGED <<chunks, Outcome>>
    BY <2>5 DEF RcvOack, RcvDuplicate, RcvOther, Accepts, Resends, Lose, Acked
  <2>6. CASE UNCHANGED getVars
    BY <2>6 DEF getVars
  <2>. QED  BY <2>1, <2>2, <2>3, <2>4, <2>5, <2>6 DEF GetNext, Transfer!Next
<1>. QED  BY <1>1, <1>2, <1>3, PTL DEF GetSpec, GetIsATransfer, Transfer!Spec

\* So what a download has accepted is at any moment the beginning of the file, and all of
\* it when the call succeeds: nothing is missing, repeated or out of place.
Downloaded == Prefix(chunks) /\ (phase = "ok" => Len(chunks) = Blocks)

COROLLARY DownloadsAreExact ==
  ASSUME Modulus > 2, Honours \subseteq {TRUE}
  PROVE  GetSpec => []Downloaded
<1>. DEFINE Exact == Prefix(chunks) /\ (Outcome = "ok" => Len(chunks) = Blocks)
<1>1. Transfer!Init => Exact
  BY DEF Transfer!Init, Prefix
<1>2. Exact /\ [Transfer!Next]_<<chunks, Outcome>> => Exact'
  <2>. SUFFICES ASSUME Exact, [Transfer!Next]_<<chunks, Outcome>> PROVE Exact'
    OBVIOUS
  <2>1. CASE Transfer!Store
    <3>1. Prefix(chunks)'
      BY <2>1, PrefixGrows DEF Transfer!Store
    <3>. QED  BY <2>1, <3>1 DEF Transfer!Store
  <2>2. CASE Transfer!Succeed \/ Transfer!Fail \/ UNCHANGED <<chunks, Outcome>>
    BY <2>2 DEF Transfer!Succeed, Transfer!Fail
  <2>. QED  BY <2>1, <2>2 DEF Transfer!Next
<1>3. Exact => Downloaded
  BY DEF Downloaded, Outcome, Waiting
<1>4. GetIsATransfer => []Exact
  BY <1>1, <1>2, PTL DEF GetIsATransfer, Transfer!Spec
<1>. QED  BY <1>3, <1>4, DownloadsAreTransfers, PTL

----------------------------------------------------------------------------
(* A TFTP upload of fewer blocks than there are block numbers *)

\* The client is at the block that comes after what the server has stored, or at the one
\* stored last; nothing under way is ahead of its sender.
PutInv ==
  /\ upload \in {"running", "ok", "failed"}
  /\ current \in 1 .. PutBlocks
  /\ lastSent \in 0 .. current
  /\ stored \in Seq(Nat)
  /\ Len(stored) <= current /\ current <= Len(stored) + 1
  /\ \A n \in data : n \in 0 .. current
  /\ \A n \in acks : n \in Int /\ n <= Len(stored)

\* The client never acts on the ACK of another block than the current one.
LEMMA AckIsOfCurrent ==
  ASSUME PutInv, PutBlocks < PutModulus,
         NEW n \in Put!Oack .. PutBlocks, Put!Delivers(n), Put!Acks(n)
  PROVE  n = current /\ Len(stored) = current
<1>1. n \in acks /\ n >= 0 /\ n % PutModulus = current
  BY DEF Put!Delivers, Put!Acks
<1>2. n \in Int /\ n <= Len(stored) /\ Len(stored) <= current /\ Len(stored) \in Nat
      /\ current \in 1 .. PutBlocks
  BY <1>1 DEF PutInv
<1>3. PutModulus \in Nat /\ PutBlocks \in Nat
  BY PutBounds DEF Put!PutAssumption
<1>4. n = current
  <2>1. current % PutModulus = current
    BY <1>2, <1>3, Z3
  <2>. QED  BY <1>1, <1>2, <1>3, <2>1, SameBlock
<1>. QED  BY <1>2, <1>4

\* The server never stores another block than the next one.
LEMMA StoredIsNext ==
  ASSUME PutInv, PutBlocks < PutModulus, NEW n \in 1 .. PutBlocks, n \in data,
         n % PutModulus = (Len(stored) + 1) % PutModulus
  PROVE  n = Len(stored) + 1 /\ Len(stored) < current
<1>1. n \in 1 .. current /\ current \in 1 .. PutBlocks /\ Len(stored) \in Nat
      /\ Len(stored) <= current /\ current <= Len(stored) + 1
  BY DEF PutInv
<1>2. PutModulus \in Nat /\ PutBlocks \in Nat /\ PutModulus > 0
  BY PutBounds DEF Put!PutAssumption
<1>3. n <= Len(stored) + 1 /\ Len(stored) + 1 - n < PutModulus
  BY <1>1, <1>2
<1>4. n = Len(stored) + 1
  BY <1>1, <1>2, <1>3, SameBlock
<1>. QED  BY <1>1, <1>4

LEMMA PutInvStep ==
  ASSUME PutInv, PutBlocks < PutModulus, [Put!Next]_putVars
  PROVE  PutInv'
<1>. USE DEF Put!client
<1>0. /\ PutBlocks \in Nat /\ Len(stored) \in Nat /\ current \in 1 .. PutBlocks
      /\ lastSent \in 0 .. current
  BY PutBounds DEF Put!PutAssumption, PutInv
<1>1. ASSUME NEW n \in acks, Put!Delivers(n) PROVE acks' \subseteq acks /\ stored' = stored
  BY <1>1 DEF Put!Delivers
<1>2. CASE Put!RcvError
  BY <1>2 DEF Put!RcvError, Put!Delivers, Put!Ends, PutInv
<1>3. ASSUME NEW n \in Put!Oack .. PutBlocks, Put!RcvStart(n) PROVE PutInv'
  <2>1. /\ UNCHANGED <<upload, current, stored>> /\ acks' \subseteq acks
        /\ lastSent' = current /\ data' = data \cup {current}
    BY <1>3 DEF Put!RcvStart, Put!Delivers, Put!Sends
  <2>. QED  BY <1>0, <2>1 DEF PutInv
<1>4. ASSUME NEW n \in Put!Oack .. PutBlocks, Put!RcvLastAck(n) PROVE PutInv'
  BY <1>4 DEF Put!RcvLastAck, Put!Delivers, Put!Ends, PutInv
<1>5. ASSUME NEW n \in Put!Oack .. PutBlocks, Put!RcvAck(n) PROVE PutInv'
  <2>1. Len(stored) = current /\ current < PutBlocks
    BY <1>5, AckIsOfCurrent DEF Put!RcvAck
  <2>2. /\ UNCHANGED <<upload, stored>> /\ acks' \subseteq acks
        /\ current' = current + 1
        /\ lastSent' = current + 1 /\ data' = data \cup {current + 1}
    BY <1>5 DEF Put!RcvAck, Put!Delivers, Put!Sends
  <2>3. \A m \in data' : m \in 0 .. current'
    BY <1>0, <2>2 DEF PutInv
  <2>. QED  BY <1>0, <2>1, <2>2, <2>3 DEF PutInv
<1>6. ASSUME NEW n \in Put!Oack .. PutBlocks, Put!RcvOther(n) PROVE PutInv'
  BY <1>6 DEF Put!RcvOther, Put!Delivers, PutInv
<1>7. CASE Put!RcvStray
  BY <1>7 DEF Put!RcvStray, Put!Delivers, PutInv
<1>8. CASE Put!Strays
  <2>1. acks' \subseteq acks \cup {-3} /\ UNCHANGED <<upload, current, lastSent, stored, data>>
    BY <1>8 DEF Put!Strays, Put!Stray
  <2>. QED  BY <1>0, <2>1 DEF PutInv
<1>9. CASE Put!Timer
  <2>1. /\ data' \subseteq data \cup {lastSent} /\ upload' \in {upload, "failed"}
        /\ UNCHANGED <<current, lastSent, stored, acks>>
    BY <1>9 DEF Put!Timer, Put!Ends
  <2>. QED  BY <1>0, <2>1 DEF PutInv
<1>10. CASE Put!Breaks
  BY <1>10 DEF Put!Breaks, Put!Ends, PutInv
<1>11. CASE Put!Accepts
  <2>1. /\ UNCHANGED <<upload, current, lastSent, stored>> /\ data' \subseteq data
        /\ acks' \subseteq acks \cup {0, -1, -2}
    BY <1>11 DEF Put!Accepts, Put!Oack, Put!Error
  <2>. QED  BY <1>0, <2>1 DEF PutInv
<1>12. CASE Put!Lose
  BY <1>12 DEF Put!Lose, PutInv
<1>13. ASSUME NEW n \in 1 .. PutBlocks, Put!Stores(n) PROVE PutInv'
  <2>1. /\ UNCHANGED <<upload, current, lastSent>> /\ n \in data /\ data' \subseteq data
    BY <1>13 DEF Put!Stores
  <2>2. CASE /\ n % PutModulus = (Len(stored) + 1) % PutModulus
             /\ stored' = Append(stored, n) /\ acks' = acks \cup {n}
    <3>1. n = Len(stored) + 1 /\ Len(stored) < current
      BY <2>1, <2>2, StoredIsNext
    <3>2. stored' \in Seq(Nat) /\ Len(stored') = Len(stored) + 1
      BY <2>2 DEF PutInv
    <3>. QED  BY <1>0, <2>1, <2>2, <3>1, <3>2 DEF PutInv
  <2>3. CASE /\ n % PutModulus = Len(stored) % PutModulus
             /\ acks' = acks \cup {n} /\ UNCHANGED stored
    <3>1. n <= Len(stored)
      <4>1. SUFFICES ASSUME n = Len(stored) + 1 PROVE FALSE
        BY <1>0, <2>1 DEF PutInv
      <4>2. PutModulus \in Nat /\ PutModulus > 1
        BY PutBounds DEF Put!PutAssumption
      <4>3. Len(stored) % PutModulus = (Len(stored) + 1) % PutModulus
        BY <2>3, <4>1
      <4>. QED  BY <1>0, <4>2, <4>3, SameBlock
    <3>. QED  BY <1>0, <2>1, <2>3, <3>1 DEF PutInv
  <2>4. CASE UNCHANGED <<stored, acks>>
    BY <2>1, <2>4 DEF PutInv
  <2>. QED  BY <1>13, <2>2, <2>3, <2>4 DEF Put!Stores
<1>14. CASE UNCHANGED putVars
  BY <1>14 DEF putVars, PutInv
<1>. QED
  BY <1>2, <1>3, <1>4, <1>5, <1>6, <1>7, <1>8, <1>9, <1>10, <1>11, <1>12, <1>13, <1>14
  DEF Put!Next

\* As long as the block numbers do not wrap, an upload of tftpPut has the server store each
\* block once and in order, whatever is lost, repeated and sent again, and succeeds only
\* when all are stored.
THEOREM UploadsAreTransfers ==
  ASSUME PutBlocks < PutModulus
  PROVE  TransfersSpec => PutIsATransfer
<1>. DEFINE T == <<stored, Put!Outcome>>
<1>1. TransfersInit => PutInv /\ Put!Transfer!Init
  <2>. SUFFICES ASSUME Put!Init PROVE PutInv /\ Put!Transfer!Init
    BY DEF TransfersInit
  <2>1. PutBlocks \in Nat \ {0}
    BY PutBounds DEF Put!PutAssumption
  <2>2. stored = <<>> /\ stored \in Seq(Nat) /\ Len(stored) = 0
    BY DEF Put!Init
  <2>. QED
    BY <2>1, <2>2 DEF Put!Init, PutInv, Put!WRQ, Put!Transfer!Init, Put!Outcome, Put!Running
<1>2. [TransfersNext]_<<tool, tokenVars, httpVars, poolVars, getVars, putVars>>
        => [Put!Next]_putVars
  BY DEF TransfersNext
<1>3. PutInv /\ [Put!Next]_putVars => PutInv'
  BY PutInvStep
<1>4. PutInv /\ [Put!Next]_putVars => [Put!Transfer!Next]_T
  <2>. SUFFICES ASSUME PutInv, [Put!Next]_putVars PROVE [Put!Transfer!Next]_T
    OBVIOUS
  <2>. USE DEF Put!client, Put!Outcome, Put!Running
  <2>1. ASSUME NEW n \in Put!Oack .. PutBlocks, Put!RcvLastAck(n) PROVE Put!Transfer!Succeed
    <3>1. current = PutBlocks /\ Len(stored) = PutBlocks
      BY <2>1, AckIsOfCurrent DEF Put!RcvLastAck
    <3>. QED  BY <2>1, <3>1 DEF Put!RcvLastAck, Put!Delivers, Put!Ends, Put!Transfer!Succeed
  <2>2. ASSUME Put!RcvError \/ Put!Breaks PROVE Put!Transfer!Fail
    BY <2>2 DEF Put!RcvError, Put!Breaks, Put!Delivers, Put!Ends, Put!Transfer!Fail
  <2>3. ASSUME Put!Timer PROVE Put!Transfer!Fail \/ UNCHANGED T
    BY <2>3 DEF Put!Timer, Put!Ends, Put!Transfer!Fail
  <2>4. ASSUME NEW n \in 1 .. PutBlocks, Put!Stores(n)
        PROVE  Put!Transfer!Store \/ UNCHANGED T
    <3>1. n \in data /\ upload' = upload
      BY <2>4 DEF Put!Stores
    <3>2. CASE n % PutModulus = (Len(stored) + 1) % PutModulus /\ stored' = Append(stored, n)
      <4>1. n = Len(stored) + 1 /\ Len(stored) < PutBlocks
        <5>1. n = Len(stored) + 1 /\ Len(stored) < current
          BY <3>1, <3>2, StoredIsNext
        <5>2. current \in 1 .. PutBlocks /\ PutBlocks \in Nat /\ Len(stored) \in Nat
          BY PutBounds DEF PutInv, Put!PutAssumption
        <5>. QED  BY <5>1, <5>2
      <4>. QED  BY <3>1, <3>2, <4>1 DEF Put!Transfer!Store
    <3>3. CASE UNCHANGED stored
      BY <3>1, <3>3
    <3>. QED  BY <2>4, <3>2, <3>3 DEF Put!Stores
  <2>5. ASSUME \/ Put!Accepts \/ Put!Lose \/ Put!RcvStray \/ Put!Strays
               \/ \E n \in Put!Oack .. PutBlocks :
                    Put!RcvStart(n) \/ Put!RcvAck(n) \/ Put!RcvOther(n)
        PROVE  UNCHANGED T
    BY <2>5 DEF Put!Accepts, Put!Lose, Put!RcvStart, Put!RcvAck, Put!RcvOther, Put!RcvStray,
                Put!Strays, Put!Delivers, Put!Sends
  <2>6. CASE UNCHANGED putVars
    BY <2>6 DEF putVars
  <2>. QED  BY <2>1, <2>2, <2>3, <2>4, <2>5, <2>6 DEF Put!Next, Put!Transfer!Next
<1>. QED
  BY <1>1, <1>2, <1>3, <1>4, PTL
  DEF TransfersSpec, PutIsATransfer, Put!PutIsATransfer, Put!Transfer!Spec

\* So at any moment the server holds the beginning of the file, and when the call succeeds
\* all of it.
Uploaded == Prefix(stored) /\ (upload = "ok" => Len(stored) = PutBlocks)

COROLLARY UploadsAreExact ==
  ASSUME PutBlocks < PutModulus
  PROVE  TransfersSpec => []Uploaded
<1>. DEFINE Exact == Prefix(stored) /\ (Put!Outcome = "ok" => Len(stored) = PutBlocks)
            T == <<stored, Put!Outcome>>
<1>1. Put!Transfer!Init => Exact
  BY DEF Put!Transfer!Init, Prefix
<1>2. Exact /\ [Put!Transfer!Next]_T => Exact'
  <2>. SUFFICES ASSUME Exact, [Put!Transfer!Next]_T PROVE Exact'
    OBVIOUS
  <2>1. CASE Put!Transfer!Store
    <3>1. Prefix(stored)'
      BY <2>1, PrefixGrows DEF Put!Transfer!Store
    <3>. QED  BY <2>1, <3>1 DEF Put!Transfer!Store
  <2>2. CASE Put!Transfer!Succeed \/ Put!Transfer!Fail \/ UNCHANGED T
    BY <2>2 DEF Put!Transfer!Succeed, Put!Transfer!Fail
  <2>. QED  BY <2>1, <2>2 DEF Put!Transfer!Next
<1>3. Exact => Uploaded
  BY DEF Uploaded, Put!Outcome, Put!Running
<1>4. PutIsATransfer => []Exact
  BY <1>1, <1>2, PTL DEF PutIsATransfer, Put!PutIsATransfer, Put!Transfer!Spec
<1>. QED  BY <1>3, <1>4, UploadsAreTransfers, PTL
=============================================================================
