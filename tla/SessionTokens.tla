---- MODULE SessionTokens ----
(***************************************************************************)
(* The life of a session's tokens: the handlers behind auth_request        *)
(* (auth_access, auth_pages and auth_proxy), refreshTokens, logout, the    *)
(* keyval zones of the tokens, the nginx cache and lock in front of the    *)
(* token endpoint, and an OpenID Provider (OP) that may rotate refresh     *)
(* tokens.                                                                 *)
(*                                                                         *)
(* A handler reads the zones and decides without interruption; only a      *)
(* refresh makes it wait, first for /-/internal/request-token and then for *)
(* /-/internal/validate-jwt, with the refresh token it read at the start.  *)
(* It is named by the request it serves; a request id that is idle again   *)
(* stands for a later request.                                             *)
(***************************************************************************)
EXTENDS Integers, FiniteSets, Subrequests, AccessRules

CONSTANTS
    Sessions,     \* session ids, the values of the session cookie
    Requests,     \* requests being served at the same time
    User,         \* the principal of each session
    Names,        \* user names and roles
    Rule,         \* the access rule of the location or page
    OPs,          \* the OPs to consider, see OPKinds
    Faults,       \* what may go wrong, see FaultKinds
    MaxGen,       \* bound: token sets an OP issues to a session
    NoToken,      \* an absent token
    NoSession

\* An OP may issue a new refresh token at each use and then retire the used one;
\* its answer may take longer than the lock's age, or get lost after it has acted; it
\* may revoke a session's refresh tokens.  The bound is on the token sets it issues to
\* a session.
OPKinds == {o \in [rotates : BOOLEAN, retires : BOOLEAN, slow : BOOLEAN, loses : BOOLEAN,
                   revokes : BOOLEAN, bound : 0 .. MaxGen] : o.retires => o.rotates}

\* The OP is out of order; its tokens do not validate; the zones drop tokens; ID tokens
\* may expire although the proxy still caches them.
FaultKinds == {"outage", "bad_token", "evict", "short_lived"}

ASSUME RuleAssumption == Rule \in AccessRule(Names)
ASSUME UserAssumption == User \in [Sessions -> Principal(Names)]
ASSUME OPsAssumption == OPs \subseteq OPKinds
ASSUME FaultsAssumption == Faults \subseteq FaultKinds
ASSUME MaxGenAssumption == MaxGen \in Nat

-----------------------------------------------------------------------------
(* Data *)

\* A token is known by the session it was issued for and by the token set it
\* came with; generation 0 is the one the callback stored.  The same record
\* stands for the ID, the access and the refresh token of a set.
Tokens == [owner : Sessions, gen : 0 .. MaxGen]
ASSUME NoTokenAssumption == NoToken \notin Tokens
ASSUME NoSessionAssumption == NoSession \notin Sessions

\* An answer of the token endpoint: what Subrequests tells apart of it, and
\* its tokens.
Answers == [status : {200, 400, 502, 504}, body : TokenBodies \cup ErrorBodies,
            tokens : Tokens \cup {NoToken}]
NoAnswer == [status |-> 504, body |-> "malformed", tokens |-> NoToken]
Refusal == [status |-> 400, body |-> "invalid_grant", tokens |-> NoToken]
Outage == [status |-> 502, body |-> "malformed", tokens |-> NoToken]
Success(token) == [status |-> 200, body |-> "tokens", tokens |-> token]

\* How a request ends: let through with the user's or the proxied token, let
\* through as anonymous, 403 by the rule, 401 (to the login), or an error.
Results == {"none", "granted", "proxied", "anonymous", "denied", "login",
            "error"}

VARIABLES
    idTokens, accessTokens, refreshTokens,  \* the keyval zones, by session id
    handlers,   \* the requests being served
    cache,      \* cached answers of the token endpoint, by cache key
    provider,   \* OP: what it is like
    issued,     \* OP: the last generation issued to each session
    valid,      \* OP: the generations whose refresh token it accepts
    expired,    \* of each session, ID tokens below this generation are expired
    loggedOut   \* history: "no", or whether the logout found a refresh running

vars == <<idTokens, accessTokens, refreshTokens, handlers, cache, provider,
          issued, valid, expired, loggedOut>>
zones == <<idTokens, accessTokens, refreshTokens>>
op == <<provider, issued, valid, expired>>

\* pc: "waiting" for the cache lock, "upstream" while the OP works, "arriving"
\* when it has answered, "validateJwt" with the tokens in hand.  An idle
\* request keeps how it ended, and of which session's user the page was told.
Handler == [pc : {"idle", "waiting", "upstream", "arriving", "validateJwt"},
            kind : {"none", "access", "proxy"},
            session : Sessions \cup {NoSession},
            refreshToken : Tokens \cup {NoToken},
            answer : Answers,
            result : Results,
            claims : Sessions \cup {NoSession}]
IdleHandler == [pc |-> "idle", kind |-> "none", session |-> NoSession,
                refreshToken |-> NoToken, answer |-> NoAnswer,
                result |-> "none", claims |-> NoSession]

TypeOK ==
    /\ idTokens \in [Sessions -> Tokens \cup {NoToken}]
    /\ accessTokens \in [Sessions -> Tokens \cup {NoToken}]
    /\ refreshTokens \in [Sessions -> Tokens \cup {NoToken}]
    /\ handlers \in [Requests -> Handler]
    /\ \A q \in Requests :
         handlers[q].result = "none" <=> handlers[q].pc # "idle" \/ handlers[q].kind = "none"
    /\ cache \in [Tokens -> Tokens \cup {NoToken}]
    /\ provider \in OPs
    /\ issued \in [Sessions -> 0 .. MaxGen]
    /\ valid \in [Sessions -> SUBSET (0 .. MaxGen)]
    /\ expired \in [Sessions -> 0 .. MaxGen + 1]
    /\ loggedOut \in [Sessions -> {"no", "quiet", "refreshing"}]

\* The callback has signed every session in, some without a refresh token
\* (the OP need not give one).
FirstTokens == [s \in Sessions |-> [owner |-> s, gen |-> 0]]

Init ==
    /\ idTokens = FirstTokens
    /\ accessTokens = FirstTokens
    /\ refreshTokens \in {rt \in [Sessions -> Tokens \cup {NoToken}] :
                            \A s \in Sessions : rt[s] \in {FirstTokens[s], NoToken}}
    /\ handlers = [q \in Requests |-> IdleHandler]
    /\ cache = [key \in Tokens |-> NoToken]
    /\ provider \in OPs
    /\ issued = [s \in Sessions |-> 0]
    /\ valid = [s \in Sessions |->
                  IF refreshTokens[s] = NoToken THEN {} ELSE {0}]
    /\ expired = [s \in Sessions |-> 0]
    /\ loggedOut = [s \in Sessions |-> "no"]

-----------------------------------------------------------------------------
(* A request reaches a handler. *)

\* decodeAndValidateIdToken on a stored token: it was validated when it was
\* stored, so only its expiration can fail.
Fresh(token) == token.gen >= expired[token.owner]
SignedIn(s) == idTokens[s] # NoToken /\ Fresh(idTokens[s])

Ended(q, kind, s, result) ==
    handlers' = [handlers EXCEPT ![q] =
      [IdleHandler EXCEPT !.kind = kind, !.session = s, !.result = result]]

\* exposeClaims and authorizeAccess, for the user of an accepted ID token.  The
\* claims are exposed to the page behind it, also to its error page.
Authorized(q, s, token) ==
    handlers' = [handlers EXCEPT ![q] =
      [IdleHandler EXCEPT !.kind = "access", !.session = s, !.claims = token.owner,
         !.result = IF IsAllowed(User[token.owner], Rule) THEN "granted" ELSE "denied"]]

\* refreshTokens, up to the subrequest for the token endpoint.
RefreshStarted(q, kind, s) ==
    handlers' = [handlers EXCEPT ![q] =
      [IdleHandler EXCEPT !.pc = "waiting", !.kind = kind, !.session = s,
                          !.refreshToken = refreshTokens[s]]]

\* The end of a handler that found no usable token.
Unauthenticated == IF IsAnonymousAllowed(Rule) THEN "anonymous" ELSE "login"

AccessByToken(q, s) ==
    /\ handlers[q].pc = "idle"
    /\ SignedIn(s)
    /\ Authorized(q, s, idTokens[s])
    /\ UNCHANGED <<zones, cache, op, loggedOut>>

\* An ID token that does not validate is cleared, here and below.
AccessRefresh(q, s) ==
    /\ handlers[q].pc = "idle"
    /\ ~SignedIn(s)
    /\ refreshTokens[s] # NoToken
    /\ idTokens' = [idTokens EXCEPT ![s] = NoToken]
    /\ RefreshStarted(q, "access", s)
    /\ UNCHANGED <<accessTokens, refreshTokens, cache, op, loggedOut>>

AccessUnauthenticated(q, s) ==
    /\ handlers[q].pc = "idle"
    /\ ~SignedIn(s)
    /\ refreshTokens[s] = NoToken
    /\ idTokens' = [idTokens EXCEPT ![s] = NoToken]
    /\ Ended(q, "access", s, Unauthenticated)
    /\ UNCHANGED <<accessTokens, refreshTokens, cache, op, loggedOut>>

\* auth_proxy passes the session's access token on as long as the zone holds
\* it.  A token the client brings itself takes its place and touches nothing.
ProxyByToken(q, s) ==
    /\ handlers[q].pc = "idle"
    /\ accessTokens[s] # NoToken
    /\ Ended(q, "proxy", s, "proxied")
    /\ UNCHANGED <<zones, cache, op, loggedOut>>

ProxyRefresh(q, s) ==
    /\ handlers[q].pc = "idle"
    /\ accessTokens[s] = NoToken
    /\ refreshTokens[s] # NoToken
    /\ RefreshStarted(q, "proxy", s)
    /\ UNCHANGED <<zones, cache, op, loggedOut>>

ProxyUnauthenticated(q, s) ==
    /\ handlers[q].pc = "idle"
    /\ accessTokens[s] = NoToken
    /\ refreshTokens[s] = NoToken
    /\ Ended(q, "proxy", s, "login")
    /\ UNCHANGED <<zones, cache, op, loggedOut>>

\* The handlers that have begun a refresh of the session and not ended it.
Refreshing(s) == {q \in Requests :
    handlers[q].pc # "idle" /\ handlers[q].session = s}

\* Mutant: the refresh token is forgotten.
Logout_KeepsRefreshToken(s) ==
    /\ idTokens' = [idTokens EXCEPT ![s] = NoToken]
    /\ accessTokens' = [accessTokens EXCEPT ![s] = NoToken]
    /\ loggedOut' = [loggedOut EXCEPT ![s] =
                       IF Refreshing(s) = {} THEN "quiet" ELSE "refreshing"]
    /\ UNCHANGED <<refreshTokens, handlers, cache, op>>

\* logout runs in one go; a refresh in flight does not notice.
Logout(s) ==
    /\ idTokens' = [idTokens EXCEPT ![s] = NoToken]
    /\ accessTokens' = [accessTokens EXCEPT ![s] = NoToken]
    /\ refreshTokens' = [refreshTokens EXCEPT ![s] = NoToken]
    /\ loggedOut' = [loggedOut EXCEPT ![s] =
                       IF Refreshing(s) = {} THEN "quiet" ELSE "refreshing"]
    /\ UNCHANGED <<handlers, cache, op>>

-----------------------------------------------------------------------------
(* The cache and its lock in front of the token endpoint *)

\* Mutant: one key for all refreshes.
CacheKey_PerLocation(token) == [owner |-> CHOOSE s \in Sessions : TRUE, gen |-> 0]

\* proxy_cache_key $args: grant type, redirect URI and the refresh token.
CacheKey(token) == token

Key(q) == CacheKey(handlers[q].refreshToken)
Locked(key) == \E p \in Requests :
    handlers[p].pc \in {"upstream", "arriving"} /\ Key(p) = key

Go(q, pc) == handlers' = [handlers EXCEPT ![q].pc = pc]

CacheHit(q) ==
    /\ handlers[q].pc = "waiting"
    /\ cache[Key(q)] # NoToken
    /\ handlers' = [handlers EXCEPT ![q].pc = "validateJwt",
                                    ![q].answer = Success(cache[Key(q)])]
    /\ UNCHANGED <<zones, cache, op, loggedOut>>

\* The first request for a token takes the lock and goes to the OP; the others
\* wait until its answer is cached or the lock is free again.
Forward(q) ==
    /\ handlers[q].pc = "waiting"
    /\ cache[Key(q)] = NoToken
    /\ ~Locked(Key(q))
    /\ Go(q, "upstream")
    /\ UNCHANGED <<zones, cache, op, loggedOut>>

\* proxy_cache_lock_age: "one more request may be passed" when the OP is slow.
\* nginx's default proxy_cache_lock_timeout has the same effect.
ForwardAged(q) ==
    /\ provider.slow
    /\ handlers[q].pc = "waiting"
    /\ cache[Key(q)] = NoToken
    /\ Locked(Key(q))
    /\ Go(q, "upstream")
    /\ UNCHANGED <<zones, cache, op, loggedOut>>

\* proxy_cache_valid 200 30s.  Every waiter polls the cache, and a handler has
\* its token validated locally, in less than that.
CacheExpires(key) ==
    /\ cache[key] # NoToken
    /\ \A q \in Requests : handlers[q].pc \in {"waiting", "validateJwt"}
                             => Key(q) # key
    /\ cache' = [cache EXCEPT ![key] = NoToken]
    /\ UNCHANGED <<zones, handlers, op, loggedOut>>

-----------------------------------------------------------------------------
(* The OP *)

Answered(q, answer) ==
    handlers' = [handlers EXCEPT ![q].pc = "arriving", ![q].answer = answer]

OPAccepts(token) == token.gen \in valid[token.owner]

\* It issues the session's next token set, and the answer may get lost.
OPIssue(q) ==
    LET token == handlers[q].refreshToken
        s == token.owner
        next == issued[s] + 1
    IN  /\ handlers[q].pc = "upstream"
        /\ OPAccepts(token)
        /\ issued[s] < provider.bound
        /\ issued' = [issued EXCEPT ![s] = next]
        /\ valid' = [valid EXCEPT ![s] =
                       IF ~provider.rotates THEN @
                       ELSE (IF provider.retires THEN @ \ {token.gen} ELSE @) \cup {next}]
        /\ \/ Answered(q, Success([owner |-> s, gen |-> next]))
           \/ provider.loses /\ Answered(q, NoAnswer)
        /\ UNCHANGED <<zones, cache, provider, expired, loggedOut>>

OPRefuse(q) ==
    /\ handlers[q].pc = "upstream"
    /\ ~OPAccepts(handlers[q].refreshToken)
    /\ Answered(q, Refusal)
    /\ UNCHANGED <<zones, cache, op, loggedOut>>

\* Out of order; also at the bound, so that no request hangs there.
OPOutage(q) ==
    /\ handlers[q].pc = "upstream"
    /\ \/ "outage" \in Faults
       \/ issued[handlers[q].refreshToken.owner] = provider.bound
    /\ Answered(q, Outage)
    /\ UNCHANGED <<zones, cache, op, loggedOut>>

OPRevoke(s) ==
    /\ provider.revokes
    /\ valid[s] # {}
    /\ valid' = [valid EXCEPT ![s] = {}]
    /\ UNCHANGED <<zones, handlers, cache, provider, issued, expired, loggedOut>>

-----------------------------------------------------------------------------
(* refreshTokens, resumed *)

\* nginx caches an answer 200 before the handler sees it.
TokensArrive(q) ==
    /\ handlers[q].pc = "arriving"
    /\ RequestTokenStatus(handlers[q].answer) = Proceed
    /\ cache' = [cache EXCEPT ![Key(q)] = handlers[q].answer.tokens]
    /\ Go(q, "validateJwt")
    /\ UNCHANGED <<zones, op, loggedOut>>

\* Mutant: any error clears the refresh token.
ClearsRefreshToken_Always(status) == TRUE

\* The catch of refreshTokens and what the handlers make of the error: 401
\* means the refresh token is of no use any more.  auth_access then treats the
\* user as unauthenticated; auth_proxy has no catch of its own.
ClearsRefreshToken(status) == status = 401

\* Mutant: an error of the refresh is an error of the request, whatever it is.
FailedResult_Rethrown(kind, status) == "error"

\* Mutant: an error that is not 401 is swallowed, the request ends without an answer.
FailedResult_Swallowed(kind, status) ==
    IF kind = "access" /\ status = 401 THEN Unauthenticated ELSE "none"

FailedResult(kind, status) ==
    IF kind = "access" /\ status = 401 THEN Unauthenticated ELSE "error"

RefreshFailed(q, status) ==
    LET s == handlers[q].session
    IN  /\ refreshTokens' = [refreshTokens EXCEPT ![s] =
                               IF ClearsRefreshToken(status) THEN NoToken ELSE @]
        /\ Ended(q, handlers[q].kind, s, FailedResult(handlers[q].kind, status))
        /\ UNCHANGED <<idTokens, accessTokens, cache, op, loggedOut>>

\* Mutant: an error other than 401 is swallowed and never answered.
TokensRefused_Only401(q) ==
    /\ handlers[q].pc = "arriving"
    /\ RequestTokenStatus(handlers[q].answer) = 401
    /\ RefreshFailed(q, 401)

TokensRefused(q) ==
    /\ handlers[q].pc = "arriving"
    /\ RequestTokenStatus(handlers[q].answer) # Proceed
    /\ RefreshFailed(q, RequestTokenStatus(handlers[q].answer))

\* Mutant: the expiration is not validated ("auth_jwt_validate_exp off").
IdTokenStatuses_NoExpiration(token) == {Proceed}

\* validateJwtSign and decodeAndValidateIdToken on the new ID token.
IdTokenStatuses(token) ==
    {IF Fresh(token) THEN Proceed ELSE 401}
      \cup IF "bad_token" \in Faults THEN {401, 500} ELSE {}

IdTokenRejected(q) ==
    /\ handlers[q].pc = "validateJwt"
    /\ \E status \in IdTokenStatuses(handlers[q].answer.tokens) \ {Proceed} :
         RefreshFailed(q, status)

\* Mutant: the rotated token is not stored.
NewRefreshToken_KeepsOld(old, token) == old

\* The rotated refresh token replaces the old one; without one in the answer,
\* the old one stays.
NewRefreshToken(old, token) == IF provider.rotates THEN token ELSE old

StoreTokens(q) ==
    LET s == handlers[q].session
        token == handlers[q].answer.tokens
    IN  /\ handlers[q].pc = "validateJwt"
        /\ Proceed \in IdTokenStatuses(token)
        /\ accessTokens' = [accessTokens EXCEPT ![s] = token]
        /\ idTokens' = [idTokens EXCEPT ![s] = token]
        /\ refreshTokens' = [refreshTokens EXCEPT ![s] =
                               NewRefreshToken(@, token)]
        /\ \/ handlers[q].kind = "access" /\ Authorized(q, s, token)
           \/ handlers[q].kind = "proxy" /\ Ended(q, "proxy", s, "proxied")
        /\ UNCHANGED <<cache, op, loggedOut>>

-----------------------------------------------------------------------------
(* Time *)

\* Tokens outlive the 30 s of the cache, and what a handler does with them:
\* only a fault makes ID tokens expire earlier.
InHand(token) == \E q \in Requests :
    handlers[q].pc \in {"arriving", "validateJwt"}
      /\ handlers[q].answer.tokens = token
Cached(token) == \E key \in Tokens : cache[key] = token
Outlasted(token) == token # NoToken /\ ~InHand(token) /\ ~Cached(token)

IdTokenExpires(s) ==
    /\ expired[s] <= issued[s]
    /\ Outlasted([owner |-> s, gen |-> expired[s]]) \/ "short_lived" \in Faults
    /\ expired' = [expired EXCEPT ![s] = @ + 1]
    /\ UNCHANGED <<zones, handlers, cache, provider, issued, valid, loggedOut>>

\* The zones drop an ID or access token (300 s after it was stored in the
\* README's example), or, as a fault, a refresh token (a week).
ZoneTimeout(s) ==
    /\ \/ /\ Outlasted(idTokens[s])
          /\ idTokens' = [idTokens EXCEPT ![s] = NoToken]
          /\ UNCHANGED <<accessTokens, refreshTokens>>
       \/ /\ Outlasted(accessTokens[s])
          /\ accessTokens' = [accessTokens EXCEPT ![s] = NoToken]
          /\ UNCHANGED <<idTokens, refreshTokens>>
       \/ /\ "evict" \in Faults
          /\ refreshTokens' = [refreshTokens EXCEPT ![s] = NoToken]
          /\ UNCHANGED <<idTokens, accessTokens>>
    /\ UNCHANGED <<handlers, cache, op, loggedOut>>

-----------------------------------------------------------------------------
Request(q) == \E s \in Sessions :
    \/ AccessByToken(q, s) \/ AccessRefresh(q, s) \/ AccessUnauthenticated(q, s)
    \/ ProxyByToken(q, s) \/ ProxyRefresh(q, s) \/ ProxyUnauthenticated(q, s)

Pass(q) == CacheHit(q) \/ Forward(q) \/ ForwardAged(q)
OPAnswer(q) == OPIssue(q) \/ OPRefuse(q) \/ OPOutage(q)
Continue(q) == TokensArrive(q) \/ TokensRefused(q)
                 \/ IdTokenRejected(q) \/ StoreTokens(q)

Next ==
    \/ \E q \in Requests : Request(q) \/ Pass(q) \/ OPAnswer(q) \/ Continue(q)
    \/ \E s \in Sessions :
         Logout(s) \/ OPRevoke(s) \/ IdTokenExpires(s) \/ ZoneTimeout(s)
    \/ \E key \in Tokens : CacheExpires(key)

\* nginx lets a waiting request pass in the end, if only after its default
\* proxy_cache_lock_timeout, whoever takes the lock in between (SF); it has an answer
\* for every subrequest, if only the 504 of proxy_read_timeout; njs then resumes the
\* handler.  Nothing makes requests, logouts or timeouts happen.
Fairness == \A q \in Requests :
    SF_vars(Pass(q)) /\ WF_vars(OPAnswer(q)) /\ WF_vars(Continue(q))

Spec == Init /\ [][Next]_vars /\ Fairness

-----------------------------------------------------------------------------
(* Properties *)

\* Tokens never cross sessions: what the zones hold for a session, what a handler
\* has in hand for it and whose claims a page is told belong to its user (the one
\* cache of token answers serves all sessions, so its key must tell them apart).
NoCrossSession ==
    /\ \A s \in Sessions, zone \in {idTokens, accessTokens, refreshTokens} :
         zone[s] # NoToken => zone[s].owner = s
    /\ \A q \in Requests :
         /\ handlers[q].answer.tokens # NoToken
              => handlers[q].answer.tokens.owner = handlers[q].session
         /\ handlers[q].claims \in {handlers[q].session, NoSession}

\* The refresh token still leads to new tokens: the OP takes it, or the answer
\* to its use is in the cache or about to be stored.
Usable(s, token) ==
    \/ OPAccepts(token)
    \/ cache[CacheKey(token)] # NoToken
    \/ \E q \in Refreshing(s) : handlers[q].refreshToken = token
         /\ handlers[q].answer.tokens # NoToken

\* As long as the OP has not revoked the session, its user stays signed in:
\* however requests for it race to refresh, the zone holds a refresh token that
\* still works ("Don't allow simultaneous requests for same token").
SessionSurvives == \A s \in Sessions :
    loggedOut[s] = "no" /\ valid[s] # {}
      => refreshTokens[s] # NoToken /\ Usable(s, refreshTokens[s])

\* The tokens of a session come from one token set, whichever refresh wins.
TokensOfOneSet == \A s \in Sessions :
    /\ idTokens[s] # NoToken /\ accessTokens[s] # NoToken
         => idTokens[s] = accessTokens[s]
    /\ provider.rotates /\ accessTokens[s] # NoToken /\ refreshTokens[s] # NoToken
         => accessTokens[s] = refreshTokens[s]

\* After a logout with no refresh of the session in flight, no later request
\* brings its tokens back.
QuietLogoutSticks == \A s \in Sessions : loggedOut[s] = "quiet" =>
    idTokens[s] = NoToken /\ accessTokens[s] = NoToken
      /\ refreshTokens[s] = NoToken

\* A page that ANONYMOUS may see is never refused with an error: "no
\* authentication is required, access is allowed to anyone" (README.adoc).
AnonymousPagesOpen == IsAnonymousAllowed(Rule) => \A q \in Requests :
    handlers[q].kind = "access" => handlers[q].result \notin {"login", "error"}

\* After a logout "no session variables should be set" (logout.test.ts).
LogoutSticks == \A s \in Sessions : loggedOut[s] # "no" =>
    idTokens[s] = NoToken /\ accessTokens[s] = NoToken
      /\ refreshTokens[s] = NoToken

\* Whoever is let in as a user is let in on an ID token of the session that has
\* not expired, also when the tokens come out of the cache.
GrantedOnFreshToken == [][\A q \in Requests :
    handlers'[q] # handlers[q] /\ handlers'[q].result = "granted"
      => LET token == idTokens'[handlers'[q].session]
         IN  token # NoToken /\ token.gen >= expired[token.owner]]_vars

\* A refresh token that is of no use any more, because its successor got lost with
\* an answer, a race has retired it or the OP has revoked it, costs the user of a
\* page a login (or nothing, where ANONYMOUS may in), never an error, and is gone.
DeadTokenMeansLogin == [][\A q \in Requests :
    LET s == handlers[q].session
    IN  /\ handlers[q].pc = "arriving" /\ handlers'[q].pc = "idle"
        /\ handlers[q].answer.body = "invalid_grant"
        => /\ refreshTokens'[s] = NoToken
           /\ handlers[q].kind = "access" => handlers'[q].result = Unauthenticated]_vars

\* Every request is answered, however many wait for the same token and however
\* often the OP fails.
RequestsAnswered == \A q \in Requests :
    handlers[q].pc # "idle" ~> handlers[q].pc = "idle"

====
