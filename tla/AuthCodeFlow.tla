---- MODULE AuthCodeFlow ----
(***************************************************************************)
(* The authorization code flow: the login and callback handlers, the       *)
(* keyval zones they share, the browsers with their cookies and the OpenID *)
(* Provider (OP).                                                          *)
(*                                                                         *)
(* A handler runs without interruption until it awaits a subrequest.       *)
(* login never waits; callback waits twice, for the token endpoint and for *)
(* the signature check, and between those points the handlers of other     *)
(* requests run.  Its answer travels to the browser, which may get it      *)
(* late, after the answers of later requests, or never.                    *)
(*                                                                         *)
(* nginx gives each request a fresh request_id.  The login handler makes   *)
(* it the key of the stored auth state and the value of the state cookie,  *)
(* the callback handler the key of the session and the value of the        *)
(* session cookie: RequestIds is the domain of both.                       *)
(***************************************************************************)
EXTENDS Integers, FiniteSets, Subrequests

CONSTANTS
    Browsers,     \* cookie jars
    RequestIds,   \* the values of $request_id, one per request
    Codes,        \* authorization codes the OP can issue
    Urls,         \* the pages users ask for
    Root,         \* '/', where a login without an original URI leads
    OPErrors,     \* the error codes the OP may answer with
    Evictable,    \* the auth states the keyval zone may drop
    StateTTL,     \* seconds an auth state is valid (120 in login.ts)
    MaxTime,      \* bound of the clock
    None,         \* undefined
    Keep          \* no Set-Cookie header for a cookie

ASSUME RootAssumption == Root \in Urls
ASSUME EvictableAssumption == Evictable \subseteq RequestIds
ASSUME TimeAssumption == StateTTL \in Nat /\ MaxTime \in Nat
ASSUME ErrorsAssumption == OPErrors \subseteq
    {"access_denied", "server_error", "temporarily_unavailable", "invalid_scope"}
ASSUME NoneAssumption ==
    /\ None \notin Browsers \cup RequestIds \cup Codes \cup Urls \cup OPErrors
    /\ Keep \notin RequestIds \cup {None}
    /\ None \notin [nonceOf : RequestIds]

-----------------------------------------------------------------------------
(* Data *)

\* sha256 hides the state id in the URL: an injective term, never the id
\* itself.  A nonce is 128 random bits drawn once per login.
Sha256(id) == [sha256 |-> id]
Nonce(id) == [nonceOf |-> id]
Digests == [sha256 : RequestIds]
Nonces == [nonceOf : RequestIds]

AuthState == [exp : 0 .. MaxTime + StateTTL, nonce : Nonces, url : Urls]
NoAuthState == [exp |-> -1, nonce |-> None, url |-> None]

\* The parameters of the authorization endpoint's URL.
Authorization == [state : Digests, nonce : Nonces]
NoAuthorization == [state |-> None, nonce |-> None]

\* The query of a callback URL.  BareCallback is the location opened by hand.
CallbackArgs == [state : Digests \cup {None}, code : Codes \cup {None},
                 error : OPErrors \cup {None}]
BareCallback == [state |-> None, code |-> None, error |-> None]

\* An ID token as the callback sees it: the nonce it carries, what
\* auth_jwt says of its signature, and the status decodeAndValidateIdToken
\* gives to its claims (Proceed, 401 for wrong issuer, audience or expired,
\* 500 for a malformed one).
IdTokens == [nonce : Nonces \cup {None}, signed : BOOLEAN,
             claims : {Proceed, 401, 500}]
NoIdToken == [nonce |-> None, signed |-> FALSE, claims |-> 500]

\* What a browser asks of the login location: by a form's POST, a plain GET,
\* or redirected internally (error_page 401) from the page it wanted.
LoginRequests == [method : {"GET", "POST"}, rewritten : BOOLEAN,
                  requestUri : Urls, originalUri : Urls \cup {None}]

\* The part of an answer the browser acts on.  A cookie is left alone
\* (Keep), cleared (None) or set.
Replies == [status : {303, 400, 401, 403, 405, 500, 502},
            authorize : Authorization \cup {NoAuthorization},
            location : Urls \cup {None},
            stateId : RequestIds \cup {None, Keep},
            sessionId : RequestIds \cup {Keep}]

\* fail(): an answer without a location; stateId says whether it carries the
\* header that clears the state cookie.
Failure(status, stateId) ==
    [status |-> status, authorize |-> NoAuthorization, location |-> None,
     stateId |-> stateId, sessionId |-> Keep]
NoReply == Failure(405, Keep)

\* Mutant: no fallback for a login without an original URI.
OriginalUri_NoFallback(request) == request.originalUri

\* originalUri of login.ts.
OriginalUri(request) ==
    IF request.originalUri # None THEN request.originalUri
    ELSE IF request.rewritten THEN request.requestUri ELSE Root

\* The callback's answer to an error of the OP: the case "access_denied" is the
\* only one that clears the state cookie.
ErrorReply(error) ==
    IF error = "access_denied" THEN Failure(403, None)
    ELSE IF error \in {"server_error", "temporarily_unavailable"}
         THEN Failure(502, Keep)
         ELSE Failure(500, Keep)

-----------------------------------------------------------------------------
VARIABLES
    now,          \* timestamp()
    authStates,   \* keyval zone oidc_auth_states, by state id
    sessions,     \* keyval zones of the tokens, by session id
    cookies,      \* what each browser holds
    handlers,     \* every request: where its handler is, and its locals
    authorizing,  \* authorization URLs some browser has been sent to
    callbackUrls, \* callback URLs browsers have been sent to, or hold
    codes         \* the nonce each issued code was issued for

vars == <<now, authStates, sessions, cookies, handlers, authorizing,
          callbackUrls, codes>>

\* pc: "free" until the request is made, the subrequest the handler waits for,
\* "reply" while the answer is on its way, "done".  The other fields are the
\* handler's: the browser it talks to, the state cookie it read, the code, the
\* auth state it stored (login) or read (callback) and the ID token.  The code
\* and the token are gone when the handler has answered, the answer when it
\* has arrived; the rest stays as the record of what has happened.
Handler == [pc : {"free", "requestToken", "validateJwt", "reply", "done"},
            op : {"none", "login", "callback"},
            browser : Browsers \cup {None},
            stateId : RequestIds \cup {None},
            code : Codes \cup {None},
            state : AuthState \cup {NoAuthState},
            idToken : IdTokens \cup {NoIdToken},
            reply : Replies]
FreeHandler == [pc |-> "free", op |-> "none", browser |-> None,
                stateId |-> None, code |-> None, state |-> NoAuthState,
                idToken |-> NoIdToken, reply |-> NoReply]

TypeOK ==
    /\ now \in 0 .. MaxTime
    /\ authStates \in [RequestIds -> AuthState \cup {NoAuthState}]
    /\ sessions \in [RequestIds -> IdTokens \cup {NoIdToken}]
    /\ cookies \in [Browsers -> [stateId : RequestIds \cup {None},
                                 sessionId : RequestIds \cup {None}]]
    /\ handlers \in [RequestIds -> Handler]
    /\ authorizing \subseteq Authorization
    /\ callbackUrls \subseteq CallbackArgs
    /\ codes \in [Codes -> Nonces \cup {None}]

Init ==
    /\ now = 0
    /\ authStates = [r \in RequestIds |-> NoAuthState]
    /\ sessions = [r \in RequestIds |-> NoIdToken]
    /\ cookies = [b \in Browsers |-> [stateId |-> None, sessionId |-> None]]
    /\ handlers = [r \in RequestIds |-> FreeHandler]
    /\ authorizing = {}
    /\ callbackUrls = {BareCallback}
    /\ codes = [c \in Codes |-> None]

-----------------------------------------------------------------------------
(* login *)

\* The authorization state login stores and the redirect it answers with.
NewAuthState(r, request) == [exp |-> now + StateTTL, nonce |-> Nonce(r),
                             url |-> OriginalUri(request)]
LoginReply(r) ==
    [status |-> 303, location |-> None, stateId |-> r, sessionId |-> Keep,
     authorize |-> [state |-> Sha256(r), nonce |-> Nonce(r)]]

LoginHandler(b, state, reply) ==
    [pc |-> "reply", op |-> "login", browser |-> b, stateId |-> None,
     code |-> None, state |-> state, idToken |-> NoIdToken, reply |-> reply]

\* Only a POST, or a request nginx has redirected internally, starts a login.
Login(r, b, request) ==
    /\ handlers[r].pc = "free"
    /\ request.rewritten \/ request.method = "POST"
    /\ authStates' = [authStates EXCEPT ![r] = NewAuthState(r, request)]
    /\ handlers' = [handlers EXCEPT ![r] =
         LoginHandler(b, NewAuthState(r, request), LoginReply(r))]
    /\ UNCHANGED <<now, sessions, cookies, authorizing, callbackUrls, codes>>

\* 405: nothing is stored.
LoginNotAllowed(r, b, request) ==
    /\ handlers[r].pc = "free"
    /\ ~request.rewritten /\ request.method # "POST"
    /\ handlers' = [handlers EXCEPT ![r] =
         LoginHandler(b, NoAuthState, Failure(405, Keep))]
    /\ UNCHANGED <<now, authStates, sessions, cookies, authorizing,
                   callbackUrls, codes>>

-----------------------------------------------------------------------------
(* callback, up to its first await *)

\* The callback's locals: refused, and once it has read the stored state.
RefusedCallback(b) ==
    [pc |-> "free", op |-> "callback", browser |-> b, stateId |-> None,
     code |-> None, state |-> NoAuthState, idToken |-> NoIdToken,
     reply |-> NoReply]
AcceptedCallback(b, url) ==
    [pc |-> "requestToken", op |-> "callback", browser |-> b,
     stateId |-> cookies[b].stateId, code |-> url.code,
     state |-> authStates[cookies[b].stateId], idToken |-> NoIdToken,
     reply |-> NoReply]

\* The request q of browser b on a callback URL.  Any browser may open it, and
\* more than once: from its history, by a reload, by a link passed on.
Opened(q, b, url) == handlers[q].pc = "free" /\ url \in callbackUrls

\* Mutants: a check forgotten.
StateMatches_Unchecked(b, url) == TRUE
Expired_Never(state) == FALSE

\* The checks, in the order of the code.
HasResult(url) == url.code # None \/ url.error # None
HasStateCookie(b) == cookies[b].stateId # None
StateMatches(b, url) == url.state = Sha256(cookies[b].stateId)
StoredState(b) == authStates[cookies[b].stateId]
Expired(state) == state.exp < now

\* A request the checks let reach the stored state.
Accepted(q, b, url) ==
    /\ Opened(q, b, url)
    /\ HasResult(url)
    /\ HasStateCookie(b)
    /\ StateMatches(b, url)
    /\ StoredState(b) # NoAuthState

\* Mutant: the stored state is left to the zone's timeout.
ConsumeState_Kept(b) == UNCHANGED authStates

\* The stored state is removed as soon as it is read, before anything is done
\* with it: a second callback finds none.
ConsumeState(b) ==
    authStates' = [authStates EXCEPT ![cookies[b].stateId] = NoAuthState]

\* The handler h of request q ends with an answer.
Answered(q, h, reply) ==
    handlers' = [handlers EXCEPT ![q] =
      [pc |-> "reply", op |-> h.op, browser |-> h.browser,
       stateId |-> h.stateId, code |-> None, state |-> h.state,
       idToken |-> NoIdToken, reply |-> reply]]

\* Refused before the store is touched.  The answer clears the state cookie
\* from the state comparison on, whichever login the cookie belongs to.
CallbackIncomplete(q, b, url) ==
    /\ Opened(q, b, url)
    /\ ~HasResult(url) \/ ~HasStateCookie(b)
    /\ Answered(q, RefusedCallback(b), Failure(400, Keep))
    /\ UNCHANGED <<now, authStates, sessions, cookies, authorizing,
                   callbackUrls, codes>>

\* Mutant: the state of the cookie is removed before it is compared.
CallbackInvalidState_ClearsFirst(q, b, url) ==
    /\ Opened(q, b, url)
    /\ HasResult(url) /\ HasStateCookie(b)
    /\ ~StateMatches(b, url) \/ StoredState(b) = NoAuthState
    /\ ConsumeState(b)
    /\ Answered(q, RefusedCallback(b), Failure(400, None))
    /\ UNCHANGED <<now, sessions, cookies, authorizing, callbackUrls, codes>>

CallbackInvalidState(q, b, url) ==
    /\ Opened(q, b, url)
    /\ HasResult(url) /\ HasStateCookie(b)
    /\ ~StateMatches(b, url) \/ StoredState(b) = NoAuthState
    /\ Answered(q, RefusedCallback(b), Failure(400, None))
    /\ UNCHANGED <<now, authStates, sessions, cookies, authorizing,
                   callbackUrls, codes>>

\* AuthState.decode throws after the state has been removed.
CallbackExpired(q, b, url) ==
    /\ Accepted(q, b, url)
    /\ Expired(StoredState(b))
    /\ ConsumeState(b)
    /\ Answered(q, AcceptedCallback(b, url), Failure(400, Keep))
    /\ UNCHANGED <<now, sessions, cookies, authorizing, callbackUrls, codes>>

CallbackDenied(q, b, url) ==
    /\ Accepted(q, b, url)
    /\ ~Expired(StoredState(b))
    /\ url.error # None
    /\ ConsumeState(b)
    /\ Answered(q, AcceptedCallback(b, url), ErrorReply(url.error))
    /\ UNCHANGED <<now, sessions, cookies, authorizing, callbackUrls, codes>>

CallbackRequestToken(q, b, url) ==
    /\ Accepted(q, b, url)
    /\ ~Expired(StoredState(b))
    /\ url.error = None
    /\ ConsumeState(b)
    /\ handlers' = [handlers EXCEPT ![q] = AcceptedCallback(b, url)]
    /\ UNCHANGED <<now, sessions, cookies, authorizing, callbackUrls, codes>>

-----------------------------------------------------------------------------
(* callback, resumed by the answers to its subrequests *)

\* The OP's ID tokens for a code: the right one, or one with some fault.
IssuedTokens(c) ==
    {[nonce |-> nonce, signed |-> TRUE, claims |-> Proceed] :
       nonce \in {codes[c], None}}
      \cup {[nonce |-> codes[c], signed |-> signed, claims |-> claims] :
              signed \in BOOLEAN, claims \in {Proceed, 401, 500}}

TokensReceived(q) ==
    /\ handlers[q].pc = "requestToken"
    /\ \E answer \in TokenAnswers :
         /\ RequestTokenStatus(answer) = Proceed
         /\ \E token \in IssuedTokens(handlers[q].code) :
              handlers' = [handlers EXCEPT ![q].pc = "validateJwt",
                                           ![q].idToken = token]
    /\ UNCHANGED <<now, authStates, sessions, cookies, authorizing,
                   callbackUrls, codes>>

TokensRefused(q) ==
    /\ handlers[q].pc = "requestToken"
    /\ \E answer \in TokenAnswers :
         /\ RequestTokenStatus(answer) # Proceed
         /\ Answered(q, handlers[q], Failure(RequestTokenStatus(answer), Keep))
    /\ UNCHANGED <<now, authStates, sessions, cookies, authorizing,
                   callbackUrls, codes>>

\* What validate-jwt may answer for a token: an unsigned one is never let pass.
SignatureAnswers(token) ==
    {status \in JwtAnswers : status = 204 => token.signed}

\* Mutant: the nonce is not compared.
NonceMatches_Unchecked(q) == TRUE

\* The nonce check: the token answers the login this callback has consumed.
NonceMatches(q) == handlers[q].idToken.nonce = handlers[q].state.nonce

\* Everything that makes the token good enough for a session.
IdTokenAccepted(q, status) ==
    /\ ValidateJwtStatus(status) = Proceed
    /\ handlers[q].idToken.claims = Proceed
    /\ NonceMatches(q)

\* The status of the first check that fails.
RejectionStatus(q, status) ==
    IF ValidateJwtStatus(status) # Proceed THEN ValidateJwtStatus(status)
    ELSE IF handlers[q].idToken.claims # Proceed THEN handlers[q].idToken.claims
    ELSE 400

\* Mutant: only the nonce mismatch is answered, a rejected promise is not.
IdTokenRejected_NonceOnly(q) ==
    /\ handlers[q].pc = "validateJwt"
    /\ handlers[q].idToken.signed /\ handlers[q].idToken.claims = Proceed
    /\ ~NonceMatches(q)
    /\ Answered(q, handlers[q], Failure(400, Keep))
    /\ UNCHANGED <<now, authStates, sessions, cookies, authorizing,
                   callbackUrls, codes>>

IdTokenRejected(q) ==
    /\ handlers[q].pc = "validateJwt"
    /\ \E status \in SignatureAnswers(handlers[q].idToken) :
         /\ ~IdTokenAccepted(q, status)
         /\ Answered(q, handlers[q], Failure(RejectionStatus(q, status), Keep))
    /\ UNCHANGED <<now, authStates, sessions, cookies, authorizing,
                   callbackUrls, codes>>

\* Mutant: the session cookie gets the id of the login's request.
SessionReply_StateId(q) ==
    [status |-> 303, authorize |-> NoAuthorization,
     location |-> handlers[q].state.url, stateId |-> None,
     sessionId |-> handlers[q].stateId]

\* The session's key is this request's id.  The username cookie is set and
\* cleared together with the session cookie and read only for the log.
SessionReply(q) ==
    [status |-> 303, authorize |-> NoAuthorization,
     location |-> handlers[q].state.url, stateId |-> None, sessionId |-> q]

CreateSession(q) ==
    /\ handlers[q].pc = "validateJwt"
    /\ \E status \in SignatureAnswers(handlers[q].idToken) :
         IdTokenAccepted(q, status)
    /\ sessions' = [sessions EXCEPT ![q] = handlers[q].idToken]
    /\ Answered(q, handlers[q], SessionReply(q))
    /\ UNCHANGED <<now, authStates, cookies, authorizing, callbackUrls, codes>>

-----------------------------------------------------------------------------
(* Browsers, the OP, the store and time *)

\* A cookie after an answer.
Updated(old, new) == IF new = Keep THEN old ELSE new

\* The browser applies the answer's cookies and follows its redirect.
Deliver(r) ==
    LET reply == handlers[r].reply
        b == handlers[r].browser
    IN  /\ handlers[r].pc = "reply"
        /\ cookies' = [cookies EXCEPT
             ![b].stateId = Updated(@, reply.stateId),
             ![b].sessionId = Updated(@, reply.sessionId)]
        /\ authorizing' = authorizing
             \cup ({reply.authorize} \ {NoAuthorization})
        /\ handlers' = [handlers EXCEPT ![r].pc = "done", ![r].reply = NoReply]
        /\ UNCHANGED <<now, authStates, sessions, callbackUrls, codes>>

\* The user closed the tab, or the connection broke.
LoseReply(r) ==
    /\ handlers[r].pc = "reply"
    /\ handlers' = [handlers EXCEPT ![r].pc = "done", ![r].reply = NoReply]
    /\ UNCHANGED <<now, authStates, sessions, cookies, authorizing,
                   callbackUrls, codes>>

\* The user logs in at the OP, once or again by going back to its page.
OPIssueCode(authorization, c) ==
    /\ authorization \in authorizing
    /\ codes[c] = None
    /\ codes' = [codes EXCEPT ![c] = authorization.nonce]
    /\ callbackUrls' = callbackUrls \cup
         {[state |-> authorization.state, code |-> c, error |-> None]}
    /\ UNCHANGED <<now, authStates, sessions, cookies, handlers, authorizing>>

OPRefuse(authorization, error) ==
    /\ authorization \in authorizing
    /\ callbackUrls' = callbackUrls \cup
         {[state |-> authorization.state, code |-> None, error |-> error]}
    /\ UNCHANGED <<now, authStates, sessions, cookies, handlers, authorizing,
                   codes>>

\* The keyval zone drops an entry: its own timeout (60 s in the README's
\* example, shorter than the 120 s of the state), or a restart of nginx.
EvictState(r) ==
    /\ r \in Evictable
    /\ authStates[r] # NoAuthState
    /\ authStates' = [authStates EXCEPT ![r] = NoAuthState]
    /\ UNCHANGED <<now, sessions, cookies, handlers, authorizing,
                   callbackUrls, codes>>

\* The state cookie's Max-Age is over, or the user deletes it.
DropStateCookie(b) ==
    /\ cookies[b].stateId # None
    /\ cookies' = [cookies EXCEPT ![b].stateId = None]
    /\ UNCHANGED <<now, authStates, sessions, handlers, authorizing,
                   callbackUrls, codes>>

Tick ==
    /\ now < MaxTime
    /\ now' = now + 1
    /\ UNCHANGED <<authStates, sessions, cookies, handlers, authorizing,
                   callbackUrls, codes>>

-----------------------------------------------------------------------------
StartLogin(r) == \E b \in Browsers, request \in LoginRequests :
    Login(r, b, request) \/ LoginNotAllowed(r, b, request)

StartCallback(q) == \E b \in Browsers, url \in callbackUrls :
    \/ CallbackIncomplete(q, b, url)
    \/ CallbackInvalidState(q, b, url)
    \/ CallbackExpired(q, b, url)
    \/ CallbackDenied(q, b, url)
    \/ CallbackRequestToken(q, b, url)

\* A subrequest's answer resumes the handler that waits for it.
Resume(q) == \/ TokensReceived(q)
             \/ TokensRefused(q)
             \/ IdTokenRejected(q)
             \/ CreateSession(q)

Environment ==
    \/ \E r \in RequestIds : EvictState(r)
    \/ \E b \in Browsers : DropStateCookie(b)
    \/ \E authorization \in authorizing :
         \/ \E c \in Codes : OPIssueCode(authorization, c)
         \/ \E error \in OPErrors : OPRefuse(authorization, error)
    \/ Tick

Next ==
    \/ \E r \in RequestIds :
         StartLogin(r) \/ StartCallback(r) \/ Resume(r)
           \/ Deliver(r) \/ LoseReply(r)
    \/ Environment

\* nginx answers every subrequest, if only by 504 after proxy_read_timeout, so
\* a waiting handler is resumed.  Nothing makes browsers, the OP or time move.
Spec == Init /\ [][Next]_vars /\ \A q \in RequestIds : WF_vars(Resume(q))

-----------------------------------------------------------------------------
(* Properties *)

\* The callbacks that got past the state checks, and for which login.
Consumed(q) == handlers[q].op = "callback" /\ handlers[q].state # NoAuthState
LoginOf(q) == handlers[handlers[q].stateId]

\* The auth state of a login is used by one callback at most, whatever is
\* reloaded, replayed or opened twice at once (callback.ts reads and clears it
\* before its first await; "already used (replay attack)").
SingleUse == \A p, q \in RequestIds :
    Consumed(p) /\ Consumed(q) /\ handlers[p].stateId = handlers[q].stateId
      => p = q

\* The code a callback takes to the token endpoint was issued for the login
\* whose state it consumed: the answer of one tab's login never uses up the
\* state of another's, even when both share the one state cookie.
RedeemsOwnCode == \A q \in RequestIds :
    Consumed(q) /\ handlers[q].code # None
      => codes[handlers[q].code] = LoginOf(q).state.nonce

\* A session exists only after a login the same browser began, with a signed
\* and valid ID token that carries that login's nonce, and its user is sent to
\* the page that login was for.
SessionFromOwnLogin == \A q \in RequestIds : sessions[q] # NoIdToken =>
    /\ LoginOf(q).op = "login"
    /\ LoginOf(q).browser = handlers[q].browser
    /\ sessions[q].signed /\ sessions[q].claims = Proceed
    /\ sessions[q].nonce = LoginOf(q).state.nonce
    /\ handlers[q].pc = "reply"
         => handlers[q].reply.location = LoginOf(q).state.url

\* All or nothing: tokens are stored for exactly the callbacks answered by the
\* redirect that sets the session cookie, and no browser holds a session
\* cookie without a session created for it.
SessionIffSignedIn ==
    /\ \A q \in RequestIds : sessions[q] # NoIdToken =>
         /\ handlers[q].op = "callback"
         /\ handlers[q].pc = "reply" => handlers[q].reply.sessionId = q
    /\ \A q \in RequestIds :
         handlers[q].op = "callback" /\ handlers[q].reply.status = 303
           => sessions[q] # NoIdToken
    /\ \A b \in Browsers : cookies[b].sessionId # None =>
         /\ sessions[cookies[b].sessionId] # NoIdToken
         /\ handlers[cookies[b].sessionId].browser = b

\* A login keeps its stored state until a callback with that login's own
\* cookie and state uses it: callbacks of other tabs and browsers, refused or
\* not, leave it alone.
StateKeptUntilUsed == \A r \in RequestIds \ Evictable :
    handlers[r].state # NoAuthState /\ handlers[r].op = "login"
      => \/ authStates[r] = handlers[r].state
         \/ \E q \in RequestIds : Consumed(q) /\ handlers[q].stateId = r

\* No code is taken to the token endpoint after the login's 120 seconds, even
\* if the zone still holds its state (AuthState.decode: "better to not rely on
\* it").
NoLateRedemption == [][\A q \in RequestIds :
    handlers[q].pc = "free" /\ handlers'[q].pc = "requestToken"
      => now <= handlers[handlers'[q].stateId].state.exp]_vars

\* A callback that has used up the login's state, so that a retry is bound to
\* be refused, answers its browser: by a session or by an error.
ConsumedIsAnswered == \A q \in RequestIds :
    Consumed(q) ~> handlers[q].pc \in {"reply", "done"}

-----------------------------------------------------------------------------
(* The flow implements LoginAttempts. *)

\* The callbacks that consumed the state of login r and wait for tokens, and
\* those that have turned it into a session.
Redeeming(r) == {q \in RequestIds :
    Consumed(q) /\ handlers[q].stateId = r
      /\ handlers[q].pc \in {"requestToken", "validateJwt"}}
SignedIn(r) == {q \in RequestIds :
    Consumed(q) /\ handlers[q].stateId = r /\ sessions[q] # NoIdToken}

\* A refused login request (405) stored no state and began nothing.
Began(r) == handlers[r].op = "login" /\ handlers[r].state # NoAuthState

Phase(r) == IF ~Began(r) THEN "unused"
            ELSE IF authStates[r] # NoAuthState THEN "open"
            ELSE IF Redeeming(r) # {} THEN "redeeming"
            ELSE IF SignedIn(r) # {} THEN "signedIn" ELSE "over"

\* The browser whose callback redeems, or has redeemed, the login's code.
Redeemer(r) ==
    LET redeemers == Redeeming(r) \cup SignedIn(r)
    IN  IF redeemers = {} THEN None
        ELSE handlers[CHOOSE q \in redeemers : TRUE].browser

AttemptOf(r) ==
    [phase |-> Phase(r),
     browser |-> IF Began(r) THEN handlers[r].browser ELSE None,
     url |-> IF Began(r) THEN handlers[r].state.url ELSE None,
     redeemer |-> Redeemer(r)]

Attempts == INSTANCE LoginAttempts
    WITH Attempts <- RequestIds,
         attempts <- [r \in RequestIds |-> AttemptOf(r)]

\* The flow, seen as login attempts, only takes the steps LoginAttempts allows:
\* no attempt is redeemed twice, revived, or signed in without being redeemed.
ImplementsLoginAttempts == Attempts!LoginAttemptsSpec

====
