---- MODULE AccessTokens ----
(***************************************************************************)
(* Access tokens and the clocks they are subject to: the expiry and the    *)
(* revocation the OP knows of, the keyval zone of the session, the cached  *)
(* token answer (30 s), and the cached answers of the introspection        *)
(* endpoint (10 min, longer while the endpoint is down).                   *)
(*                                                                         *)
(* auth_proxy passes the session's token on to a resource provider, which  *)
(* introspects it itself (integration-tests/support/resource-provider.ts). *)
(* verifyToken (oauth.ts) introspects through nginx; no handler of the     *)
(* repository calls it yet, here any request may.  The OP is the one of    *)
(* integration-tests/support/oauth-server.ts, with revocation and faults.  *)
(*                                                                         *)
(* One session, whose refresh token stays good: see SessionTokens for the  *)
(* others.  Time is in ticks; whatever waits is answered within MaxDelay.  *)
(***************************************************************************)
EXTENDS Integers, FiniteSets

CONSTANTS
    Tokens, Kind,       \* access tokens, and of each one of Kinds
    Proxied, Verified,  \* requests to auth_proxy, and those that verify a token
    Lifetime,           \* of an access token, at the OP
    ZoneTTL,            \* of the zone oidc_access_tokens
    TokenCacheTTL,      \* proxy_cache_valid of request-token
    IntrospectionTTL,   \* proxy_cache_valid of introspect-token
    CacheSize,          \* bound on the cached introspection answers
    MaxDelay,           \* the longest an answer is on its way (proxy_read_timeout)
    MaxTime,            \* bound of the clock
    None

\* A token of the session, or one that verifyToken refuses: of another client, or
\* without a user.
Kinds == {"session", "foreign"}

ASSUME KindAssumption == Kind \in [Tokens -> Kinds]
ASSUME RequestsAssumption == Proxied \cap Verified = {}
ASSUME NoneAssumption == None \notin Tokens \cup Nat
ASSUME TimesAssumption ==
    /\ {Lifetime, IntrospectionTTL, CacheSize, MaxDelay, MaxTime} \subseteq Nat
    /\ {ZoneTTL, TokenCacheTTL} \subseteq Nat \ {0}

\* What the zone's timeout has to be chosen for: a token is stored again out of the
\* token cache, MaxDelay after it was issued and MaxDelay before it is looked at.
ASSUME LifetimeAssumption == ZoneTTL + TokenCacheTTL + 2 * MaxDelay - 2 < Lifetime

VARIABLES
    now,
    expires,         \* OP: when each token expires, None before it is issued
    revoked,         \* OP: when each token was revoked, or None
    zone,            \* the session's access token and when the zone drops it
    tokenCache,      \* the cached answer to a refresh and when it is dropped
    introspections,  \* cached introspection answers, and until when they are valid
    requests,
    answer           \* what the last step answered, if it did

vars == <<now, expires, revoked, zone, tokenCache, introspections, requests, answer>>
opState == <<expires, revoked>>
caches == <<zone, tokenCache, introspections>>

Requests == Proxied \cup Verified

\* What an introspection answer can be to those who ask: that the token is active or
\* not; JSON without `active`, or with one that is neither true nor false but falsy
\* ("void"); active, but no client_id or no exp ("incomplete", as is no JSON at all), or
\* an exp that is no number ("bad_exp").  Only the first two are the OP's word.
Bodies == {"active", "inactive", "malformed", "void", "incomplete", "bad_exp"}
OPsWord == {"active", "inactive"}
Times == 0 .. MaxTime + Lifetime + ZoneTTL + TokenCacheTTL + IntrospectionTTL
Entry == [token : Tokens \cup {None}, until : Times]
Introspection == [body : Bodies, until : Times]

Request == [pc : {"idle", "refreshing", "arriving", "passed", "introspecting", "answering"},
            token : Tokens \cup {None}, since : 0 .. MaxTime, body : Bodies]
IdleRequest == [pc |-> "idle", token |-> None, since |-> 0, body |-> "inactive"]

\* stale: out of the cache although the entry was no longer valid; body: what it goes
\* back to, None if nothing was there.
Answer == [request : Requests, token : Tokens \cup {None},
           status : {200, 401, 403, 500, 502, 503}, stale : BOOLEAN,
           body : Bodies \cup {None}]

TypeOK ==
    /\ now \in 0 .. MaxTime
    /\ expires \in [Tokens -> Times \cup {None}]
    /\ revoked \in [Tokens -> 0 .. MaxTime \cup {None}]
    /\ zone \in Entry /\ tokenCache \in Entry
    /\ introspections \in [Tokens -> Introspection \cup {None}]
    /\ requests \in [Requests -> Request]
    /\ answer \in Answer \cup {None}
    /\ \A q \in Requests : requests[q].token = None <=> requests[q].pc \in {"idle", "refreshing"}

NoEntry == [token |-> None, until |-> 0]

Init ==
    /\ now = 0
    /\ expires = [t \in Tokens |-> IF Kind[t] = "foreign" THEN Lifetime ELSE None]
    /\ revoked = [t \in Tokens |-> None]
    /\ zone = NoEntry /\ tokenCache = NoEntry
    /\ introspections = [t \in Tokens |-> None]
    /\ requests = [q \in Requests |-> IdleRequest]
    /\ answer = None

\* Mutant: an empty variable is taken for a token.
Live_Always(entry) == TRUE

Live(entry) == entry # NoEntry

\* A request begins, or goes on with its next call.
Moved(q, pc, token) ==
    /\ requests' = [requests EXCEPT ![q] =
         [IdleRequest EXCEPT !.pc = pc, !.token = token, !.since = now]]
    /\ answer' = None
Answered(q, status, body, stale) ==
    /\ requests' = [requests EXCEPT ![q] = IdleRequest]
    /\ answer' = [request |-> q, token |-> requests[q].token,
                  status |-> status, body |-> body, stale |-> stale]

-----------------------------------------------------------------------------
(* The OP *)

\* IntrospectListener: it knows the tokens it issued, as active before their exp.
Active(token) ==
    /\ expires[token] # None
    /\ now < expires[token]
    /\ revoked[token] = None

\* The answer to a client that authenticates: the truth, or no word at all.  Of the
\* tokens of another client an OP may say that they are not active ("or we are not
\* allowed to introspect it", oauth.ts).
IntrospectBodies(token) ==
    {IF Active(token) THEN "active" ELSE "inactive"}
      \cup (IF Kind[token] = "foreign" THEN {"inactive"} ELSE {})
      \cup (Bodies \ OPsWord)

\* Bounded: one token of the session.
Revoke(token) ==
    /\ Kind[token] = "session" /\ expires[token] # None
    /\ \A any \in Tokens : revoked[any] = None
    /\ revoked' = [revoked EXCEPT ![token] = now]
    /\ answer' = None
    /\ UNCHANGED <<now, expires, caches, requests>>

-----------------------------------------------------------------------------
(* auth_proxy *)

ProxyByToken(q) ==
    /\ requests[q].pc = "idle"
    /\ Live(zone)
    /\ Moved(q, "passed", zone.token)
    /\ UNCHANGED <<now, opState, caches>>

ProxyRefresh(q) ==
    /\ requests[q].pc = "idle"
    /\ ~Live(zone)
    /\ Moved(q, "refreshing", None)
    /\ UNCHANGED <<now, opState, caches>>

\* The same answer again: the zone's timeout starts anew.
TokenCacheHit(q) ==
    /\ requests[q].pc = "refreshing"
    /\ Live(tokenCache)
    /\ zone' = [token |-> tokenCache.token, until |-> now + ZoneTTL]
    /\ Moved(q, "passed", tokenCache.token)
    /\ UNCHANGED <<now, opState, tokenCache, introspections>>

\* The lock lets a second request pass when the OP is slow.
OPIssue(q, token) ==
    /\ requests[q].pc = "refreshing"
    /\ ~Live(tokenCache)
    /\ Kind[token] = "session" /\ expires[token] = None
    /\ expires' = [expires EXCEPT ![token] = now + Lifetime]
    /\ requests' = [requests EXCEPT ![q].pc = "arriving", ![q].token = token]
    /\ answer' = None
    /\ UNCHANGED <<now, revoked, caches>>

\* The OP is out of order, or all its Tokens are issued.
RefreshFails(q) ==
    /\ requests[q].pc = "refreshing"
    /\ ~Live(tokenCache)
    /\ Answered(q, 502, None, FALSE)
    /\ UNCHANGED <<now, opState, caches>>

\* Mutant: the validity of the other location.
TokenAnswerUntil_Introspection(time) == time + IntrospectionTTL

\* proxy_cache_valid 200 30s.
TokenAnswerUntil(time) == time + TokenCacheTTL

TokensArrive(q) ==
    LET token == requests[q].token
    IN  /\ requests[q].pc = "arriving"
        /\ tokenCache' = [token |-> token, until |-> TokenAnswerUntil(now)]
        /\ zone' = [token |-> token, until |-> now + ZoneTTL]
        /\ Moved(q, "passed", token)
        /\ UNCHANGED <<now, opState, introspections>>

\* oauthAuthenticator of the resource provider: whether the body says active comes
\* before the status of the answer and client_id (503); nothing else is looked at.  An OP
\* that answers by an error, without `active`, thus makes it refuse the token.
ResourceProviderStatuses(body) ==
    CASE body \in {"inactive", "void", "malformed"} -> {401}
      [] body = "incomplete" -> {200, 503}
      [] body \in {"active", "bad_exp"} -> {200}

\* It asks the OP each time; 500 is an exception: no answer, or no JSON; 503 also an
\* active token in an answer by an error.
ResourceProvider(q) ==
    /\ requests[q].pc = "passed"
    /\ \/ \E body \in IntrospectBodies(requests[q].token) :
         \E status \in ResourceProviderStatuses(body) :
            Answered(q, status, body, FALSE)
       \/ \E status \in {500, 503} : Answered(q, status, None, FALSE)
    /\ UNCHANGED <<now, opState, caches>>

-----------------------------------------------------------------------------
(* verifyToken *)

\* Mutant: whatever does not say that the token is active is taken for a refusal.
IntrospectStatus_NotActive(body) == IF body \in {"active", "bad_exp"} THEN 200 ELSE 401

\* introspectToken, and what verifyToken finds missing, on an answer 200.  A falsy
\* `active` is as good as false.
IntrospectStatus(body) ==
    CASE body \in {"inactive", "void"} -> 401
      [] body = "malformed" -> 502
      [] body = "incomplete" -> 500
      [] body \in {"active", "bad_exp"} -> 200

\* Mutant: exp is left to the introspection endpoint.
VerifyStatus_NoExp(token, body) ==
    IF IntrospectStatus(body) # 200 THEN IntrospectStatus(body)
    ELSE IF Kind[token] = "foreign" THEN 403 ELSE 200

\* verifyToken: exp is looked at here too, the answer may be an old one; no number is
\* taken for a past one.
VerifyStatus(token, body) ==
    IF IntrospectStatus(body) # 200 THEN IntrospectStatus(body)
    ELSE IF Kind[token] = "foreign" THEN 403
    ELSE IF body = "bad_exp" \/ expires[token] < now THEN 401 ELSE 200

VerifyAnswered(q, body, stale) ==
    Answered(q, VerifyStatus(requests[q].token, body), body, stale)

\* A client brings a token that the OP has issued.
Verify(q, token) ==
    /\ requests[q].pc = "idle"
    /\ expires[token] # None
    /\ Moved(q, "introspecting", token)
    /\ UNCHANGED <<now, opState, caches>>

\* Mutant: entries do not grow old.
Valid_Always(entry) == entry # None

Cached == {token \in Tokens : introspections[token] # None}

Valid(entry) == entry # None /\ now < entry.until

IntrospectionCached(q) ==
    LET token == requests[q].token
    IN  /\ requests[q].pc = "introspecting"
        /\ Valid(introspections[token])
        /\ VerifyAnswered(q, introspections[token].body, FALSE)
        /\ UNCHANGED <<now, opState, caches>>

Introspect(q) ==
    LET token == requests[q].token
    IN  /\ requests[q].pc = "introspecting"
        /\ ~Valid(introspections[token])
        /\ \E body \in IntrospectBodies(token) :
             requests' = [requests EXCEPT ![q].pc = "answering", ![q].body = body]
        /\ answer' = None
        /\ UNCHANGED <<now, opState, caches>>

\* nginx caches the answer, whatever it says, unless the OP forbids it (its
\* Cache-Control is not ignored here) or the cache is full.
IntrospectionArrives(q) ==
    LET token == requests[q].token
        body == requests[q].body
    IN  /\ requests[q].pc = "answering"
        /\ introspections' \in
             {introspections, [introspections EXCEPT ![token] =
                [body |-> body, until |-> now + IntrospectionTTL]]}
        /\ Cardinality(Cached') <= CacheSize
        /\ VerifyAnswered(q, body, FALSE)
        /\ UNCHANGED <<now, opState, zone, tokenCache>>

\* proxy_cache_use_stale: the endpoint cannot be reached, or answers 5xx.
IntrospectionStale(q) ==
    LET token == requests[q].token
    IN  /\ requests[q].pc = "introspecting"
        /\ introspections[token] # None /\ ~Valid(introspections[token])
        /\ VerifyAnswered(q, introspections[token].body, TRUE)
        /\ UNCHANGED <<now, opState, caches>>

\* 500 is the OP's 401, 502 any other status; nothing cached, or no status that
\* proxy_cache_use_stale lists.
IntrospectionFails(q) ==
    /\ requests[q].pc = "introspecting"
    /\ ~Valid(introspections[requests[q].token])
    /\ \E status \in {500, 502} : Answered(q, status, None, FALSE)
    /\ UNCHANGED <<now, opState, caches>>

-----------------------------------------------------------------------------
(* Time *)

\* The cache drops what it lacks room for, or nobody has asked for.
Evict(token) ==
    /\ introspections[token] # None
    /\ introspections' = [introspections EXCEPT ![token] = None]
    /\ answer' = None
    /\ UNCHANGED <<now, opState, zone, tokenCache, requests>>

\* Of entries past their time no more is kept than matters: zone and token cache drop
\* them, the introspection cache may still use them when the OP is down.
Tick ==
    /\ now < MaxTime
    /\ \A q \in Requests : requests[q].pc # "idle" => now - requests[q].since < MaxDelay
    /\ now' = now + 1
    /\ answer' = None
    /\ zone' = IF now' < zone.until THEN zone ELSE NoEntry
    /\ tokenCache' = IF now' < tokenCache.until THEN tokenCache ELSE NoEntry
    /\ introspections' = [token \in Tokens |->
         IF introspections[token] = None \/ now' < introspections[token].until
         THEN introspections[token] ELSE [introspections[token] EXCEPT !.until = 0]]
    /\ UNCHANGED <<opState, requests>>

-----------------------------------------------------------------------------
ProxyGoesOn(q) ==
    \/ TokenCacheHit(q) \/ RefreshFails(q) \/ TokensArrive(q) \/ ResourceProvider(q)
    \/ \E token \in Tokens : OPIssue(q, token)
VerifyGoesOn(q) ==
    \/ IntrospectionCached(q) \/ Introspect(q) \/ IntrospectionArrives(q)
    \/ IntrospectionStale(q) \/ IntrospectionFails(q)

Next ==
    \/ \E q \in Proxied : ProxyByToken(q) \/ ProxyRefresh(q) \/ ProxyGoesOn(q)
    \/ \E q \in Verified : VerifyGoesOn(q) \/ \E token \in Tokens : Verify(q, token)
    \/ \E token \in Tokens : Revoke(token) \/ Evict(token)
    \/ Tick

Spec == Init /\ [][Next]_vars

-----------------------------------------------------------------------------
(* Properties *)

\* The token of a signed-in user that auth_proxy passes on is good: although nothing
\* there looks at its expiry, it has not expired when the resource provider looks at it,
\* who refuses it only if it was revoked, or for an answer of the OP that does not
\* say whether it is active.
ProxiedIsAccepted ==
    answer # None /\ answer.request \in Proxied /\ answer.token # None
      => /\ now < expires[answer.token]
         /\ answer.status = 401 /\ answer.body \in OPsWord => revoked[answer.token] # None

\* Who is accepted by verifyToken holds a token of this client and a user, not past
\* its exp however old the answer is; and a revoked one only as long as an answer may
\* be cached, or while the OP does not answer.
AcceptedIsCurrent ==
    answer # None /\ answer.request \in Verified /\ answer.status = 200
      => /\ Kind[answer.token] = "session"
         /\ now <= expires[answer.token]
         /\ \/ revoked[answer.token] = None
            \/ answer.stale
            \/ now <= revoked[answer.token] + IntrospectionTTL + MaxDelay

\* However old the introspection is, a 401 is said only of tokens that are over, or that
\* are another client's; never because the OP is out of order, does not know the proxy
\* or leaves something out.  But an `active` that is neither true nor false and an exp
\* that is no number are taken for a refusal.
RefusedIsOver ==
    answer # None /\ answer.request \in Verified /\ answer.status = 401
      => \/ revoked[answer.token] # None \/ expires[answer.token] <= now
         \/ Kind[answer.token] = "foreign" /\ answer.body = "inactive"
         \/ answer.body \in {"void", "bad_exp"}

====
