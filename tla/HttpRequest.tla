---------------------------- MODULE HttpRequest ----------------------------
(***************************************************************************)
(* A request of http_client (doRequest of lib/httpClientOps.js): retries,  *)
(* redirects and the second request of a digest challenge.  What the server*)
(* answers is left open.                                                   *)
(***************************************************************************)
EXTENDS Naturals

CONSTANTS
  MaxRedirects, RetryCount,
  Stalls            \* may a server send its headers, and never end the body?

ASSUME HttpRequestAssumption ==
  MaxRedirects \in Nat /\ RetryCount \in Nat /\ Stalls \in BOOLEAN

Methods == {"GET", "HEAD", "POST"}

VARIABLES
  method, digest,   \* of the call: the method asked for, is auth.type "digest"?
  ownLength,        \* is there no body, but a content-length among the caller's headers?
  step,            \* sent, headers, backoff, done
  attempt,          \* t, of the retry loop
  resending,        \* is this the request that answers a challenge?
  challenged,       \* digestChallenge is set
  redirects,        \* redirectCount
  currentMethod,
  hasBody, hasLength,  \* currentBody, and reqHeaders["content-length"]
  signedFor,        \* the method reqHeaders.authorization was computed for
  requests          \* how many have been sent

callVars == <<method, digest, ownLength>>
loopVars == <<redirects, currentMethod, hasBody, hasLength>>
httpVars == <<callVars, loopVars, step, attempt, resending, challenged, signedFor, requests>>

Unsigned == "none"

FlagsOK ==
  /\ digest \in BOOLEAN /\ ownLength \in BOOLEAN /\ resending \in BOOLEAN /\ challenged \in BOOLEAN
  /\ hasBody \in BOOLEAN /\ hasLength \in BOOLEAN

CountsOK ==
  /\ method \in Methods /\ currentMethod \in Methods /\ signedFor \in Methods \cup {Unsigned}
  /\ step \in {"sent", "headers", "backoff", "done"}
  /\ attempt \in 0 .. RetryCount /\ redirects \in 0 .. MaxRedirects
  /\ requests \in Nat

HttpTypeOK == FlagsOK /\ CountsOK

HttpInit ==
  /\ method \in Methods /\ digest \in BOOLEAN /\ hasBody \in BOOLEAN
  /\ ownLength \in (IF hasBody THEN {FALSE} ELSE BOOLEAN)
  /\ currentMethod = method /\ hasLength = (hasBody \/ ownLength)
  /\ step = "sent" /\ attempt = 0 /\ requests = 1
  /\ resending = FALSE /\ challenged = FALSE
  /\ redirects = 0 /\ signedFor = Unsigned

----------------------------------------------------------------------------

\* makeRawRequest
Send == step' = "sent" /\ requests' = requests + 1

\* The call returns or throws.
Over == step' = "done" /\ UNCHANGED requests

\* The request is rejected: the retry loop catches it, but not around the resend.
Rejected ==
  /\ IF resending \/ attempt = RetryCount
     THEN Over /\ UNCHANGED attempt
     ELSE step' = "backoff" /\ attempt' = attempt + 1 /\ UNCHANGED requests
  /\ UNCHANGED <<callVars, loopVars, resending, challenged, signedFor>>

\* No connection, or no headers before the timer.
RequestFails == step = "sent" /\ Rejected

\* The headers: the timer is cleared.
Headers ==
  /\ step = "sent"
  /\ step' = "headers"
  /\ UNCHANGED <<callVars, loopVars, attempt, resending, challenged, signedFor, requests>>

BodyBreaks == step = "headers" /\ Rejected

Backoff ==
  /\ step = "backoff"
  /\ Send
  /\ UNCHANGED <<callVars, loopVars, attempt, resending, challenged, signedFor>>

\* Mutant: every 401 is answered, that of an answer included.
UnauthorizedAgain ==
  /\ step = "headers" /\ digest
  /\ challenged' = TRUE /\ signedFor' = method
  /\ resending' = TRUE
  /\ Send
  /\ UNCHANGED <<callVars, loopVars, attempt>>

\* The first 401 with a digest challenge is answered at once.
Unauthorized ==
  /\ step = "headers" /\ digest /\ ~challenged
  /\ challenged' = TRUE /\ signedFor' = method
  /\ resending' = TRUE
  /\ Send
  /\ UNCHANGED <<callVars, loopVars, attempt>>

\* Mutant: a request turned into a GET keeps its headers.
RedirectKeeping(toGet) ==
  /\ step = "headers" /\ redirects < MaxRedirects
  /\ redirects' = redirects + 1
  /\ IF toGet /\ currentMethod # "HEAD"
     THEN currentMethod' = "GET" /\ hasBody' = FALSE /\ UNCHANGED hasLength
     ELSE UNCHANGED <<currentMethod, hasBody, hasLength>>
  /\ attempt' = 0 /\ resending' = FALSE
  /\ signedFor' = IF challenged THEN method ELSE signedFor
  /\ Send
  /\ UNCHANGED <<callVars, challenged>>

\* 301, 302 and 303 turn all but HEAD to GET; 307 and 308 do not.  Then the loop begins
\* again, with applyAuth and the first attempt.
Redirect(toGet) ==
  /\ step = "headers" /\ redirects < MaxRedirects
  /\ redirects' = redirects + 1
  /\ IF toGet /\ currentMethod # "HEAD"
     THEN currentMethod' = "GET" /\ hasBody' = FALSE /\ hasLength' = FALSE
     ELSE UNCHANGED <<currentMethod, hasBody, hasLength>>
  /\ attempt' = 0 /\ resending' = FALSE
  /\ signedFor' = IF challenged THEN method ELSE signedFor
  /\ Send
  /\ UNCHANGED <<callVars, challenged>>

\* Any other answer, a redirect too many or one to a host that is not allowed.
Return ==
  /\ step = "headers"
  /\ Over
  /\ UNCHANGED <<callVars, loopVars, attempt, resending, challenged, signedFor>>

BodyEnds == Unauthorized \/ (\E toGet \in BOOLEAN : Redirect(toGet)) \/ Return

HttpNext == RequestFails \/ Headers \/ BodyBreaks \/ Backoff \/ BodyEnds

HttpSpec == HttpInit /\ [][HttpNext]_httpVars

\* The timers of an attempt and of a backoff; a server that does not stall ends its bodies.
HttpFairSpec ==
  /\ HttpSpec
  /\ WF_httpVars(RequestFails) /\ WF_httpVars(Backoff)
  /\ WF_httpVars(~Stalls /\ (BodyEnds \/ BodyBreaks))

----------------------------------------------------------------------------
(* Properties *)

\* A server that redirects, fails and challenges in any order gets no more requests than
\* the limits of each allow together.
RequestsBounded ==
  requests <= (redirects + 1) * (RetryCount + 1) + (IF challenged THEN 1 ELSE 0)

\* A request that has a body has a Content-Length, and one without has none, unless the
\* caller gave it, however often it has been redirected: otherwise the server waits for a
\* body, or takes it for a request.
BodyIsFramed ==
  /\ hasBody => hasLength
  /\ hasLength => hasBody \/ ownLength

\* "Timeout (connect + total)": a call ends.
RequestEnds == <>(step = "done")

\* A digest is computed for the method it is sent with.
DigestFitsMethod == step = "sent" /\ signedFor # Unsigned => signedFor = currentMethod
=============================================================================
