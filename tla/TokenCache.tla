----------------------------- MODULE TokenCache -----------------------------
(***************************************************************************)
(* The cache of access tokens of a cloud client (resolveToken of           *)
(* lib/azureClientOps.js and, with another key, resolveAccessToken of      *)
(* lib/gcpClientOps.js).  The token endpoint is external.  Time counts in  *)
(* units of the caller's choice.                                           *)
(***************************************************************************)
EXTENDS Integers

CONSTANTS
  Calls, Scopes,
  Lifetime,        \* expires_in
  Margin,          \* 60 s
  Timeout,         \* of the token request
  KeyedByScope,    \* is the scope part of the cache key?
  MaxTime          \* bound

ASSUME TokenAssumption ==
  /\ {Lifetime, Margin, Timeout, MaxTime} \subseteq Nat
  /\ KeyedByScope \in BOOLEAN

VARIABLES
  now,
  cache,     \* TOKEN_CACHE: key -> [token, expiresAt], or NoEntry
  stage,     \* of a call: idle, fetching, cached (served from the cache), fetched, failed
  scope,     \* the scope it asks for
  since,     \* when its request was sent
  token      \* the token it got, or that is on its way to it; NoToken

tokenVars == <<now, cache, stage, scope, since, token>>

\* Mutant: the tenant and the client make the key.
ScopelessKey(s) == "*"

\* The rest of the key, the tenant and the client, is the same for all calls.
CacheKey(s) == IF KeyedByScope THEN s ELSE "*"
Keys == {CacheKey(s) : s \in Scopes}

Tokens == [scope : Scopes, issued : Nat]
NoToken == [scope |-> "", issued |-> -1]
Entries == [token : Tokens, expiresAt : Int]
NoEntry == [token |-> NoToken, expiresAt |-> -1]

TokenTypeOK ==
  /\ now \in Nat
  /\ cache \in [Keys -> Entries \cup {NoEntry}]
  /\ stage \in [Calls -> {"idle", "fetching", "cached", "fetched", "failed"}]
  /\ scope \in [Calls -> Scopes]
  /\ since \in [Calls -> Nat]
  /\ token \in [Calls -> Tokens \cup {NoToken}]

TokenInit ==
  /\ now = 0
  /\ cache = [k \in Keys |-> NoEntry]
  /\ stage = [c \in Calls |-> "idle"]
  /\ scope \in [Calls -> Scopes]
  /\ since = [c \in Calls |-> 0]
  /\ token = [c \in Calls |-> NoToken]

----------------------------------------------------------------------------

Entry(c) == cache[CacheKey(scope[c])]

\* cached && cached.expiresAt > Date.now()
Fresh(c) == Entry(c) # NoEntry /\ Entry(c).expiresAt > now

ServeCached(c) ==
  /\ stage[c] = "idle" /\ Fresh(c)
  /\ stage' = [stage EXCEPT ![c] = "cached"]
  /\ token' = [token EXCEPT ![c] = Entry(c).token]
  /\ UNCHANGED <<now, cache, scope, since>>

Fetch(c) ==
  /\ stage[c] = "idle" /\ ~Fresh(c)
  /\ stage' = [stage EXCEPT ![c] = "fetching"]
  /\ since' = [since EXCEPT ![c] = now]
  /\ UNCHANGED <<now, cache, scope, token>>

\* The endpoint issues the token; its life begins.
Issue(c) ==
  /\ stage[c] = "fetching" /\ token[c] = NoToken
  /\ token' = [token EXCEPT ![c] = [scope |-> scope[c], issued |-> now]]
  /\ UNCHANGED <<now, cache, stage, scope, since>>

\* Mutant: no margin.
ExpiryUnbuffered == now + Lifetime

\* Date.now() + (expires_in - 60) * 1000
Expiry == now + Lifetime - Margin

\* The response: it is cached whatever is in the cache by now.
Fetched(c) ==
  /\ stage[c] = "fetching" /\ token[c] # NoToken
  /\ stage' = [stage EXCEPT ![c] = "fetched"]
  /\ cache' = [cache EXCEPT ![CacheKey(scope[c])] = [token |-> token[c], expiresAt |-> Expiry]]
  /\ UNCHANGED <<now, scope, since, token>>

\* An error, or the timer.
FetchFails(c) ==
  /\ stage[c] = "fetching"
  /\ stage' = [stage EXCEPT ![c] = "failed"]
  /\ UNCHANGED <<now, cache, scope, since, token>>

\* No request outlives its timer.
Tick ==
  /\ now < MaxTime
  /\ \A c \in Calls : stage[c] = "fetching" => now < since[c] + Timeout
  /\ now' = now + 1
  /\ UNCHANGED <<cache, stage, scope, since, token>>

TokenNext ==
  \/ \E c \in Calls : ServeCached(c) \/ Fetch(c) \/ Issue(c) \/ Fetched(c) \/ FetchFails(c)
  \/ Tick

TokenSpec == TokenInit /\ [][TokenNext]_tokenVars

----------------------------------------------------------------------------
(* Properties *)

\* A token served from the cache is still honoured by the endpoint that issued it, however
\* long its response was under way, and whichever of two responses came last.
ServedIsHonoured ==
  [][\A c \in Calls : stage[c] = "idle" /\ stage'[c] = "cached" =>
       now < token'[c].issued + Lifetime]_tokenVars

\* A call gets a token for the scope it asked for.
TokenFitsScope ==
  \A c \in Calls : stage[c] \in {"cached", "fetched"} => token[c].scope = scope[c]
=============================================================================
