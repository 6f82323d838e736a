---- MODULE AuthCodeFlow_proofs ----
(***************************************************************************)
(* Theorems about AuthCodeFlow, for any number of browsers, requests,      *)
(* codes and pages.                                                        *)
(***************************************************************************)
EXTENDS AuthCodeFlow, TLAPS

-----------------------------------------------------------------------------
(* The data *)

\* Whatever status a handler fails with, the answer is a reply.
LEMMA FailureType ==
    ASSUME NEW status \in {400, 401, 403, 405, 500, 502},
           NEW stateId \in {None, Keep}
    PROVE  Failure(status, stateId) \in Replies
  BY DEF Failure, Replies

LEMMA NoReplyType == NoReply \in Replies
  BY FailureType DEF NoReply

\* The statuses the two subrequests make the callback fail with.
LEMMA FailureStatuses ==
    ASSUME NEW answer \in TokenAnswers, NEW status \in JwtAnswers
    PROVE  /\ RequestTokenStatus(answer) \in {Proceed, 401, 500, 502}
           /\ ValidateJwtStatus(status) \in {Proceed, 401, 500}
  BY DEF RequestTokenStatus, ValidateJwtStatus, Proceed

LEMMA FreeHandlerType == FreeHandler \in Handler
  BY NoReplyType DEF FreeHandler, Handler

-----------------------------------------------------------------------------
(* Type correctness *)

LEMMA InitTypeOK == Init => TypeOK
  BY TimeAssumption, FreeHandlerType
  DEF Init, TypeOK, NoAuthState, NoIdToken, CallbackArgs, BareCallback

LEMMA LoginTypeOK ==
    ASSUME TypeOK, NEW r \in RequestIds, NEW b \in Browsers,
           NEW request \in LoginRequests,
           Login(r, b, request) \/ LoginNotAllowed(r, b, request)
    PROVE  TypeOK'
<1>1. OriginalUri(request) \in Urls
  BY RootAssumption DEF OriginalUri, LoginRequests
<1>2. NewAuthState(r, request) \in AuthState
  BY <1>1, TimeAssumption DEF NewAuthState, AuthState, TypeOK, Nonce, Nonces
<1>3. LoginReply(r) \in Replies
  BY DEF LoginReply, Replies, Authorization, Sha256, Nonce, Digests, Nonces
<1>. QED
  BY <1>2, <1>3, FailureType
  DEF Login, LoginNotAllowed, LoginHandler, TypeOK, Handler

LEMMA AnsweredTypeOK ==
    ASSUME NEW q \in RequestIds, NEW h, NEW reply \in Replies,
           TypeOK, Answered(q, h, reply),
           h.op \in {"login", "callback"}, h.browser \in Browsers,
           h.stateId \in RequestIds \cup {None},
           h.state \in AuthState \cup {NoAuthState}
    PROVE  handlers' \in [RequestIds -> Handler]
  BY DEF Answered, TypeOK, Handler

LEMMA StartCallbackTypeOK ==
    ASSUME TypeOK, NEW q \in RequestIds, StartCallback(q)
    PROVE  TypeOK'
<1>. USE DEF TypeOK
<1>1. PICK b \in Browsers, url \in callbackUrls :
           \/ CallbackIncomplete(q, b, url)
           \/ CallbackInvalidState(q, b, url)
           \/ CallbackExpired(q, b, url)
           \/ CallbackDenied(q, b, url)
           \/ CallbackRequestToken(q, b, url)
  BY DEF StartCallback
<1>2. url \in CallbackArgs
  OBVIOUS
<1>3. CASE CallbackIncomplete(q, b, url) \/ CallbackInvalidState(q, b, url)
  <2>1. \E reply \in Replies : Answered(q, RefusedCallback(b), reply)
    BY <1>3, FailureType DEF CallbackIncomplete, CallbackInvalidState
  <2>2. handlers' \in [RequestIds -> Handler]
    BY <2>1, AnsweredTypeOK DEF RefusedCallback
  <2>. QED
    BY <1>3, <2>2 DEF CallbackIncomplete, CallbackInvalidState
<1>4. ASSUME Accepted(q, b, url)
      PROVE  /\ cookies[b].stateId \in RequestIds
             /\ authStates[cookies[b].stateId] \in AuthState
  BY <1>4 DEF Accepted, HasStateCookie, StoredState
<1>5. CASE CallbackExpired(q, b, url) \/ CallbackDenied(q, b, url)
  <2>1. Accepted(q, b, url) /\ ConsumeState(b)
    BY <1>5 DEF CallbackExpired, CallbackDenied
  <2>2. ErrorReply(url.error) \in Replies
    BY FailureType DEF ErrorReply
  <2>3. \E reply \in Replies : Answered(q, AcceptedCallback(b, url), reply)
    BY <1>5, <2>2, FailureType DEF CallbackExpired, CallbackDenied
  <2>4. handlers' \in [RequestIds -> Handler]
    BY <1>4, <2>1, <2>3, AnsweredTypeOK DEF AcceptedCallback
  <2>. QED
    BY <1>5, <2>1, <2>4 DEF CallbackExpired, CallbackDenied, ConsumeState
<1>6. CASE CallbackRequestToken(q, b, url)
  <2>1. Accepted(q, b, url) /\ ConsumeState(b)
    BY <1>6 DEF CallbackRequestToken
  <2>2. AcceptedCallback(b, url) \in Handler
    BY <1>2, <1>4, <2>1, NoReplyType
    DEF AcceptedCallback, Handler, CallbackArgs
  <2>. QED
    BY <1>6, <2>1, <2>2 DEF CallbackRequestToken, ConsumeState
<1>. QED
  BY <1>1, <1>3, <1>5, <1>6

\* A handler that waits is a callback's and has what it needs; one that has
\* begun belongs to a browser.  TypeOK is not inductive without this.
HandlersShaped == \A q \in RequestIds :
    /\ handlers[q].pc = "free" => handlers[q].op = "none"
    /\ handlers[q].pc # "free" =>
         handlers[q].op \in {"login", "callback"} /\ handlers[q].browser \in Browsers
    /\ handlers[q].pc \in {"requestToken", "validateJwt"} =>
         Consumed(q) /\ handlers[q].code \in Codes
    /\ Consumed(q) =>
         handlers[q].stateId \in RequestIds /\ handlers[q].state \in AuthState

LEMMA NoIdTokenType == NoIdToken \in IdTokens
  BY DEF NoIdToken, IdTokens

LEMMA IssuedTokensType ==
    ASSUME TypeOK, NEW c \in Codes
    PROVE  IssuedTokens(c) \subseteq IdTokens
<1>1. codes[c] \in Nonces \cup {None}
  BY DEF TypeOK
<1>. SUFFICES ASSUME NEW token \in IssuedTokens(c) PROVE token \in IdTokens
  OBVIOUS
<1>2. CASE \E nonce \in {codes[c], None} :
             token = [nonce |-> nonce, signed |-> TRUE, claims |-> Proceed]
  BY <1>1, <1>2 DEF IdTokens
<1>3. CASE \E signed \in BOOLEAN, claims \in {Proceed, 401, 500} :
             token = [nonce |-> codes[c], signed |-> signed, claims |-> claims]
  BY <1>1, <1>3 DEF IdTokens
<1>. QED
  BY <1>2, <1>3 DEF IssuedTokens

LEMMA ResumeTypeOK ==
    ASSUME TypeOK, HandlersShaped, NEW q \in RequestIds, Resume(q)
    PROVE  TypeOK'
<1>. USE DEF TypeOK
<1>1. handlers[q].pc \in {"requestToken", "validateJwt"}
  BY DEF Resume, TokensReceived, TokensRefused, IdTokenRejected, CreateSession
<1>2. /\ handlers[q] \in Handler
      /\ handlers[q].op = "callback" /\ handlers[q].browser \in Browsers
      /\ handlers[q].stateId \in RequestIds
      /\ handlers[q].code \in Codes /\ handlers[q].state \in AuthState
      /\ handlers[q].idToken \in IdTokens
  <2>1. handlers[q] \in Handler
    OBVIOUS
  <2>2. Consumed(q) /\ handlers[q].code \in Codes /\ handlers[q].pc # "free"
    BY <1>1 DEF HandlersShaped
  <2>. QED
    BY <2>1, <2>2, NoIdTokenType DEF HandlersShaped, Consumed, Handler
<1>3. CASE TokensReceived(q)
  <2>1. IssuedTokens(handlers[q].code) \subseteq IdTokens
    BY <1>2, IssuedTokensType
  <2>2. PICK token \in IdTokens :
          handlers' = [handlers EXCEPT ![q].pc = "validateJwt",
                                       ![q].idToken = token]
    BY <1>3, <2>1 DEF TokensReceived
  <2>3. handlers' \in [RequestIds -> Handler]
    BY <2>2, <1>2 DEF Handler
  <2>. QED
    BY <1>3, <2>3 DEF TokensReceived
<1>4. CASE TokensRefused(q) \/ IdTokenRejected(q)
  <2>1. \E reply \in Replies : Answered(q, handlers[q], reply)
    <3>1. CASE TokensRefused(q)
      BY <3>1, FailureStatuses, FailureType DEF TokensRefused, JwtAnswers
    <3>2. CASE IdTokenRejected(q)
      <4>1. PICK status \in SignatureAnswers(handlers[q].idToken) :
              /\ ~IdTokenAccepted(q, status)
              /\ Answered(q, handlers[q], Failure(RejectionStatus(q, status), Keep))
        BY <3>2 DEF IdTokenRejected
      <4>2. ValidateJwtStatus(status) \in {Proceed, 401, 500}
        BY DEF ValidateJwtStatus
      <4>3. RejectionStatus(q, status) \in {400, 401, 500}
        BY <4>2, <1>2 DEF RejectionStatus, IdTokens
      <4>. QED
        BY <4>1, <4>3, FailureType
    <3>. QED
      BY <1>4, <3>1, <3>2
  <2>2. handlers' \in [RequestIds -> Handler]
    BY <1>2, <2>1, AnsweredTypeOK
  <2>. QED
    BY <1>4, <2>2 DEF TokensRefused, IdTokenRejected
<1>5. CASE CreateSession(q)
  <2>1. SessionReply(q) \in Replies
    BY <1>2 DEF SessionReply, Replies, AuthState
  <2>2. handlers' \in [RequestIds -> Handler]
    BY <1>2, <1>5, <2>1, AnsweredTypeOK DEF CreateSession
  <2>. QED
    BY <1>2, <1>5, <2>2 DEF CreateSession
<1>. QED
  BY <1>3, <1>4, <1>5 DEF Resume

LEMMA DeliverTypeOK ==
    ASSUME TypeOK, HandlersShaped, NEW r \in RequestIds,
           Deliver(r) \/ LoseReply(r)
    PROVE  TypeOK'
<1>. USE DEF TypeOK
<1>1. /\ handlers[r] \in Handler /\ handlers[r].reply \in Replies
      /\ handlers[r].browser \in Browsers
  BY DEF Deliver, LoseReply, HandlersShaped, Handler
<1>2. handlers' = [handlers EXCEPT ![r].pc = "done", ![r].reply = NoReply]
  BY DEF Deliver, LoseReply
<1>3. handlers' \in [RequestIds -> Handler]
  BY <1>1, <1>2, NoReplyType DEF Handler
<1>4. CASE Deliver(r)
  <2>1. authorizing' \subseteq Authorization
    BY <1>1, <1>4 DEF Deliver, Replies
  <2>2. cookies' \in [Browsers -> [stateId : RequestIds \cup {None},
                                   sessionId : RequestIds \cup {None}]]
    BY <1>1, <1>4 DEF Deliver, Updated, Replies
  <2>. QED
    BY <1>3, <1>4, <2>1, <2>2 DEF Deliver
<1>. QED
  BY <1>3, <1>4 DEF LoseReply

LEMMA EnvironmentTypeOK == TypeOK /\ Environment => TypeOK'
<1>. SUFFICES ASSUME TypeOK, Environment PROVE TypeOK'
  OBVIOUS
<1>. USE DEF TypeOK
<1>1. CASE \E r \in RequestIds : EvictState(r)
  BY <1>1 DEF EvictState
<1>2. CASE \E b \in Browsers : DropStateCookie(b)
  BY <1>2 DEF DropStateCookie
<1>3. ASSUME NEW authorization \in authorizing, NEW c \in Codes,
             OPIssueCode(authorization, c)
      PROVE  TypeOK'
  BY <1>3 DEF OPIssueCode, Authorization, CallbackArgs
<1>4. ASSUME NEW authorization \in authorizing, NEW error \in OPErrors,
             OPRefuse(authorization, error)
      PROVE  TypeOK'
  BY <1>4 DEF OPRefuse, Authorization, CallbackArgs
<1>5. CASE Tick
  BY <1>5, TimeAssumption DEF Tick
<1>. QED
  BY <1>1, <1>2, <1>3, <1>4, <1>5 DEF Environment

-----------------------------------------------------------------------------
(* The inductive invariant *)

\* What the store holds of a login is what its handler stored there, under a
\* nonce of its own.
LoginsRecorded ==
    /\ \A r \in RequestIds : authStates[r] # NoAuthState =>
         handlers[r].op = "login" /\ authStates[r] = handlers[r].state
    /\ \A r \in RequestIds :
         handlers[r].op = "login" /\ handlers[r].state # NoAuthState
           => handlers[r].state.nonce = Nonce(r)

\* A state cookie, in a browser or on its way there, is that of a login of the
\* same browser.
StateCookiesOwn ==
    /\ \A b \in Browsers : cookies[b].stateId # None =>
         /\ handlers[cookies[b].stateId].op = "login"
         /\ handlers[cookies[b].stateId].browser = b
    /\ \A r \in RequestIds : handlers[r].reply.stateId \in RequestIds
         => handlers[r].reply.stateId = r /\ handlers[r].op = "login"

\* A consumed state is gone for good, and was that of the browser's own login.
ConsumedGone == \A q \in RequestIds : Consumed(q) =>
    /\ authStates[handlers[q].stateId] = NoAuthState
    /\ LoginOf(q).op = "login"
    /\ LoginOf(q).browser = handlers[q].browser
    /\ LoginOf(q).state = handlers[q].state

\* Codes belong to the login whose state is in the URL they came with.
CodesBound ==
    /\ \A r \in RequestIds : handlers[r].reply.authorize # NoAuthorization
         => handlers[r].reply.authorize = [state |-> Sha256(r), nonce |-> Nonce(r)]
    /\ \A a \in authorizing : \E r \in RequestIds :
         a = [state |-> Sha256(r), nonce |-> Nonce(r)]
    /\ \A url \in callbackUrls : url.code # None => \E r \in RequestIds :
         url.state = Sha256(r) /\ codes[url.code] = Nonce(r)

\* A session belongs to a callback that has consumed a state and found
\* everything right with its ID token; only its answer carries its cookie.
SessionsSound ==
    /\ \A q \in RequestIds : sessions[q] # NoIdToken =>
         /\ Consumed(q) /\ handlers[q].pc \in {"reply", "done"}
         /\ sessions[q].signed /\ sessions[q].claims = Proceed
         /\ sessions[q].nonce = handlers[q].state.nonce
         /\ handlers[q].pc = "reply" =>
              /\ handlers[q].reply.location = handlers[q].state.url
              /\ handlers[q].reply.sessionId = q
    /\ \A q \in RequestIds :
         /\ handlers[q].reply.sessionId \in RequestIds =>
              handlers[q].reply.sessionId = q /\ sessions[q] # NoIdToken
         /\ handlers[q].op = "callback" /\ handlers[q].reply.status = 303
              => sessions[q] # NoIdToken
    /\ \A b \in Browsers : cookies[b].sessionId # None =>
         /\ sessions[cookies[b].sessionId] # NoIdToken
         /\ handlers[cookies[b].sessionId].browser = b

IInv ==
    /\ TypeOK
    /\ HandlersShaped
    /\ LoginsRecorded
    /\ StateCookiesOwn
    /\ ConsumedGone
    /\ SingleUse
    /\ CodesBound
    /\ RedeemsOwnCode
    /\ SessionsSound

\* The invariant says all that the runs check.
LEMMA IInvImplies ==
    IInv => SessionFromOwnLogin /\ SessionIffSignedIn
<1>. SUFFICES ASSUME IInv PROVE SessionFromOwnLogin /\ SessionIffSignedIn
  OBVIOUS
<1>1. SessionFromOwnLogin
  BY DEF IInv, SessionsSound, ConsumedGone, SessionFromOwnLogin
<1>2. SessionIffSignedIn
  BY DEF IInv, SessionsSound, Consumed, SessionIffSignedIn
<1>. QED
  BY <1>1, <1>2

LEMMA InitIInv == Init => IInv
<1>. SUFFICES ASSUME Init PROVE IInv
  OBVIOUS
<1>1. TypeOK
  BY InitTypeOK
<1>2. /\ \A r \in RequestIds : handlers[r] = FreeHandler
      /\ \A r \in RequestIds : authStates[r] = NoAuthState
      /\ \A r \in RequestIds : sessions[r] = NoIdToken
      /\ \A b \in Browsers : cookies[b] = [stateId |-> None, sessionId |-> None]
  BY DEF Init
<1>3. /\ FreeHandler.pc = "free" /\ FreeHandler.op = "none"
      /\ FreeHandler.state = NoAuthState
      /\ FreeHandler.reply.stateId = Keep /\ FreeHandler.reply.sessionId = Keep
      /\ FreeHandler.reply.authorize = NoAuthorization
  BY DEF FreeHandler, NoReply, Failure
<1>4. \A q \in RequestIds : ~Consumed(q)
  BY <1>2, <1>3 DEF Consumed
<1>5. HandlersShaped /\ LoginsRecorded /\ ConsumedGone /\ SingleUse
        /\ RedeemsOwnCode
  BY <1>2, <1>3, <1>4 DEF HandlersShaped, LoginsRecorded, ConsumedGone,
     SingleUse, RedeemsOwnCode
<1>6. StateCookiesOwn /\ SessionsSound
  BY <1>2, <1>3, <1>4, NoneAssumption DEF StateCookiesOwn, SessionsSound
<1>7. CodesBound
  BY <1>2, <1>3 DEF CodesBound, Init, BareCallback
<1>. QED
  BY <1>1, <1>5, <1>6, <1>7 DEF IInv

-----------------------------------------------------------------------------
(* Every step preserves the invariant *)

\* Nothing in the system mentions a request that has not been made.
LEMMA FreeRequest ==
    ASSUME IInv, NEW r \in RequestIds, handlers[r].pc = "free"
    PROVE  /\ handlers[r].op = "none"
           /\ authStates[r] = NoAuthState /\ sessions[r] = NoIdToken
           /\ \A q \in RequestIds : Consumed(q) => handlers[q].stateId # r
           /\ \A b \in Browsers :
                cookies[b].stateId # r /\ cookies[b].sessionId # r
<1>1. handlers[r].op = "none"
  BY DEF IInv, HandlersShaped
<1>2. authStates[r] = NoAuthState
  BY <1>1 DEF IInv, LoginsRecorded
<1>3. sessions[r] = NoIdToken
  BY <1>1 DEF IInv, SessionsSound, Consumed
<1>4. \A q \in RequestIds : Consumed(q) => handlers[q].stateId # r
  BY <1>1 DEF IInv, ConsumedGone, LoginOf
<1>5. \A b \in Browsers : cookies[b].stateId # r
  BY <1>1, NoneAssumption DEF IInv, StateCookiesOwn
<1>6. \A b \in Browsers : cookies[b].sessionId # r
  BY <1>3, NoneAssumption DEF IInv, SessionsSound
<1>. QED
  BY <1>1, <1>2, <1>3, <1>4, <1>5, <1>6

\* What a login's step does to the handlers.
LEMMA LoginStep ==
    ASSUME IInv, NEW r \in RequestIds, NEW b \in Browsers,
           NEW request \in LoginRequests,
           Login(r, b, request) \/ LoginNotAllowed(r, b, request)
    PROVE  /\ handlers[r].pc = "free"
           /\ \A p \in RequestIds \ {r} : handlers'[p] = handlers[p]
           /\ \A p \in RequestIds \ {r} : authStates'[p] = authStates[p]
           /\ handlers'[r].pc = "reply" /\ handlers'[r].op = "login"
           /\ handlers'[r].browser = b
           /\ authStates'[r] = handlers'[r].state
           /\ handlers'[r].state = NoAuthState
                \/ handlers'[r].state.nonce = Nonce(r)
           /\ handlers'[r].reply.stateId \in {r, Keep}
           /\ handlers'[r].reply.sessionId = Keep
           /\ handlers'[r].reply.authorize \in
                {NoAuthorization, [state |-> Sha256(r), nonce |-> Nonce(r)]}
           /\ UNCHANGED <<sessions, cookies, authorizing, callbackUrls, codes>>
<1>1. r \in DOMAIN handlers /\ r \in DOMAIN authStates
  BY DEF IInv, TypeOK
<1>2. CASE Login(r, b, request)
  <2>1. handlers'[r] = LoginHandler(b, NewAuthState(r, request), LoginReply(r))
    BY <1>1, <1>2 DEF Login
  <2>2. authStates'[r] = NewAuthState(r, request)
    BY <1>1, <1>2 DEF Login
  <2>3. \A p \in RequestIds \ {r} :
          handlers'[p] = handlers[p] /\ authStates'[p] = authStates[p]
    BY <1>2 DEF Login, IInv, TypeOK
  <2>. QED
    BY <1>2, <2>1, <2>2, <2>3 DEF Login, LoginHandler, LoginReply, NewAuthState
<1>3. CASE LoginNotAllowed(r, b, request)
  <2>1. handlers'[r] = LoginHandler(b, NoAuthState, Failure(405, Keep))
    BY <1>1, <1>3 DEF LoginNotAllowed
  <2>2. authStates'[r] = NoAuthState
    BY <1>3, FreeRequest DEF LoginNotAllowed
  <2>3. \A p \in RequestIds \ {r} :
          handlers'[p] = handlers[p] /\ authStates'[p] = authStates[p]
    BY <1>3 DEF LoginNotAllowed, IInv, TypeOK
  <2>. QED
    BY <1>3, <2>1, <2>2, <2>3 DEF LoginNotAllowed, LoginHandler, Failure
<1>. QED
  BY <1>2, <1>3

LEMMA LoginIInv ==
    ASSUME IInv, NEW r \in RequestIds, NEW b \in Browsers,
           NEW request \in LoginRequests,
           Login(r, b, request) \/ LoginNotAllowed(r, b, request)
    PROVE  IInv'
<1>. USE DEF Consumed, LoginOf
<1>1. TypeOK'
  BY LoginTypeOK DEF IInv
<1>2. /\ handlers[r].pc = "free"
      /\ \A p \in RequestIds \ {r} :
           handlers'[p] = handlers[p] /\ authStates'[p] = authStates[p]
      /\ handlers'[r].pc = "reply" /\ handlers'[r].op = "login"
      /\ handlers'[r].browser = b /\ authStates'[r] = handlers'[r].state
      /\ UNCHANGED <<sessions, cookies, authorizing, callbackUrls, codes>>
  BY LoginStep
<1>3. /\ handlers[r].op = "none"
      /\ authStates[r] = NoAuthState /\ sessions[r] = NoIdToken
      /\ \A q \in RequestIds : Consumed(q) => handlers[q].stateId # r
      /\ \A c \in Browsers :
           cookies[c].stateId # r /\ cookies[c].sessionId # r
  BY <1>2, FreeRequest
<1>4. \A p \in RequestIds : Consumed(p)' <=> Consumed(p)
  BY <1>2, <1>3
<1>5. HandlersShaped'
  BY <1>2 DEF HandlersShaped, IInv
<1>6. LoginsRecorded'
  BY <1>2, LoginStep DEF LoginsRecorded, IInv
<1>7. StateCookiesOwn'
  <2>1. \A c \in Browsers : cookies[c].stateId # None =>
          cookies[c].stateId \in RequestIds \ {r}
    BY <1>3 DEF IInv, TypeOK
  <2>2. \A p \in RequestIds : handlers'[p].reply.stateId \in RequestIds
          => handlers'[p].reply.stateId = p /\ handlers'[p].op = "login"
    BY <1>2, LoginStep, NoneAssumption DEF StateCookiesOwn, IInv
  <2>. QED
    BY <1>2, <2>1, <2>2 DEF StateCookiesOwn, IInv
<1>8. ConsumedGone'
  <2>1. \A q \in RequestIds : Consumed(q) =>
          q # r /\ handlers[q].stateId \in RequestIds \ {r}
    BY <1>3 DEF IInv, HandlersShaped
  <2>. QED
    BY <1>2, <1>4, <2>1 DEF ConsumedGone, IInv
<1>9. SingleUse'
  BY <1>2, <1>3, <1>4 DEF SingleUse, IInv
<1>10. CodesBound'
  BY <1>2, LoginStep DEF CodesBound, IInv
<1>11. RedeemsOwnCode'
  <2>1. \A q \in RequestIds : Consumed(q) =>
          q # r /\ handlers[q].stateId \in RequestIds \ {r}
    BY <1>3 DEF IInv, HandlersShaped
  <2>. QED
    BY <1>2, <1>4, <2>1 DEF RedeemsOwnCode, IInv
<1>12. SessionsSound'
  <2>1. \A q \in RequestIds : sessions[q] # NoIdToken => q # r
    BY <1>3
  <2>2. \A c \in Browsers : cookies[c].sessionId # None =>
          cookies[c].sessionId \in RequestIds \ {r}
    BY <1>3 DEF IInv, TypeOK
  <2>3. handlers'[r].reply.sessionId \notin RequestIds
    BY LoginStep, NoneAssumption
  <2>. QED
    BY <1>2, <1>4, <2>1, <2>2, <2>3 DEF SessionsSound, IInv
<1>. QED
  BY <1>1, <1>5, <1>6, <1>7, <1>8, <1>9, <1>10, <1>11, <1>12 DEF IInv

\* What the checks of a callback establish about the state they let it read.
LEMMA AcceptedFacts ==
    ASSUME IInv, NEW q \in RequestIds, NEW b \in Browsers, NEW url,
           Accepted(q, b, url)
    PROVE  /\ cookies[b].stateId \in RequestIds \ {q}
           /\ handlers[cookies[b].stateId].op = "login"
           /\ handlers[cookies[b].stateId].browser = b
           /\ StoredState(b) \in AuthState
           /\ StoredState(b) = handlers[cookies[b].stateId].state
           /\ url.code # None => codes[url.code] = Nonce(cookies[b].stateId)
<1>1. /\ cookies[b].stateId \in RequestIds
      /\ StoredState(b) # NoAuthState /\ StoredState(b) \in AuthState
      /\ handlers[q].pc = "free" /\ url \in callbackUrls
      /\ url.state = Sha256(cookies[b].stateId)
  BY DEF Accepted, Opened, HasStateCookie, StateMatches, StoredState, IInv, TypeOK
<1>2. handlers[cookies[b].stateId].op = "login"
        /\ handlers[cookies[b].stateId].browser = b
  BY <1>1, NoneAssumption DEF IInv, StateCookiesOwn
<1>3. cookies[b].stateId # q
  BY <1>1, FreeRequest
<1>4. StoredState(b) = handlers[cookies[b].stateId].state
  BY <1>1 DEF StoredState, IInv, LoginsRecorded
<1>5. ASSUME url.code # None
      PROVE  codes[url.code] = Nonce(cookies[b].stateId)
  <2>1. PICK r \in RequestIds :
          url.state = Sha256(r) /\ codes[url.code] = Nonce(r)
    BY <1>1, <1>5 DEF IInv, CodesBound
  <2>2. r = cookies[b].stateId
    BY <1>1, <2>1 DEF Sha256
  <2>. QED
    BY <2>1, <2>2
<1>. QED
  BY <1>1, <1>2, <1>3, <1>4, <1>5

\* A callback's first step either refuses and leaves the store alone, or takes
\* the state of a login s of its own browser out of the store.
TakesState(q, b, s) ==
    /\ s \in RequestIds \ {q}
    /\ handlers[s].op = "login" /\ handlers[s].browser = b
    /\ authStates[s] = handlers[s].state /\ authStates[s] \in AuthState
    /\ authStates' = [authStates EXCEPT ![s] = NoAuthState]
    /\ handlers'[q].stateId = s /\ handlers'[q].state = authStates[s]
    /\ handlers'[q].browser = b
    /\ handlers'[q].pc = "requestToken" => handlers'[q].code # None
    /\ handlers'[q].code # None => codes[handlers'[q].code] = Nonce(s)

\* What a callback does up to its first await, to itself and to the store.
LEMMA StartCallbackStep ==
    ASSUME IInv, NEW q \in RequestIds, StartCallback(q)
    PROVE  /\ handlers[q].pc = "free"
           /\ \A p \in RequestIds \ {q} : handlers'[p] = handlers[p]
           /\ handlers'[q].pc \in {"requestToken", "reply"}
           /\ handlers'[q].op = "callback" /\ handlers'[q].browser \in Browsers
           /\ handlers'[q].reply.stateId \in {None, Keep}
           /\ handlers'[q].reply.sessionId = Keep
           /\ handlers'[q].reply.authorize = NoAuthorization
           /\ handlers'[q].reply.status # 303
           /\ UNCHANGED <<sessions, cookies, authorizing, callbackUrls, codes>>
           /\ \/ handlers'[q].state = NoAuthState /\ handlers'[q].pc = "reply"
                   /\ UNCHANGED authStates
              \/ \E b \in Browsers, s \in RequestIds : TakesState(q, b, s)
<1>1. PICK b \in Browsers, url \in callbackUrls :
           \/ CallbackIncomplete(q, b, url)
           \/ CallbackInvalidState(q, b, url)
           \/ CallbackExpired(q, b, url)
           \/ CallbackDenied(q, b, url)
           \/ CallbackRequestToken(q, b, url)
  BY DEF StartCallback
<1>2. q \in DOMAIN handlers /\ \A p \in RequestIds : p \in DOMAIN handlers
  BY DEF IInv, TypeOK
<1>3. CASE CallbackIncomplete(q, b, url) \/ CallbackInvalidState(q, b, url)
  <2>1. PICK stateId \in {None, Keep} :
          Answered(q, RefusedCallback(b), Failure(400, stateId))
    BY <1>3 DEF CallbackIncomplete, CallbackInvalidState
  <2>2. /\ handlers[q].pc = "free"
        /\ UNCHANGED <<authStates, sessions, cookies, authorizing,
                       callbackUrls, codes>>
    BY <1>3 DEF CallbackIncomplete, CallbackInvalidState, Opened
  <2>. QED
    BY <1>2, <2>1, <2>2 DEF Answered, RefusedCallback, Failure
<1>4. CASE \/ CallbackExpired(q, b, url) \/ CallbackDenied(q, b, url)
           \/ CallbackRequestToken(q, b, url)
  <2>1. /\ Accepted(q, b, url) /\ ConsumeState(b)
        /\ UNCHANGED <<sessions, cookies, authorizing, callbackUrls, codes>>
    BY <1>4 DEF CallbackExpired, CallbackDenied, CallbackRequestToken
  <2>2. handlers[q].pc = "free"
    BY <2>1 DEF Accepted, Opened
  <2>3. \/ \E reply \in {Failure(400, Keep), ErrorReply(url.error)} :
             Answered(q, AcceptedCallback(b, url), reply)
        \/ /\ url.code # None
           /\ handlers' = [handlers EXCEPT ![q] = AcceptedCallback(b, url)]
    BY <1>4, <2>1 DEF CallbackExpired, CallbackDenied, CallbackRequestToken,
       Accepted, HasResult
  <2>4. /\ \A p \in RequestIds \ {q} : handlers'[p] = handlers[p]
        /\ handlers'[q].op = "callback" /\ handlers'[q].browser = b
        /\ handlers'[q].stateId = cookies[b].stateId
        /\ handlers'[q].state = authStates[cookies[b].stateId]
        /\ \/ /\ handlers'[q].pc = "reply" /\ handlers'[q].code = None
              /\ handlers'[q].reply \in {Failure(400, Keep), ErrorReply(url.error)}
           \/ /\ handlers'[q].pc = "requestToken" /\ handlers'[q].code # None
              /\ handlers'[q].code = url.code /\ handlers'[q].reply = NoReply
    BY <1>2, <2>3 DEF Answered, AcceptedCallback
  <2>5. /\ handlers'[q].reply.stateId \in {None, Keep}
        /\ handlers'[q].reply.sessionId = Keep
        /\ handlers'[q].reply.authorize = NoAuthorization
        /\ handlers'[q].reply.status # 303
    BY <2>4 DEF Failure, ErrorReply, NoReply
  <2>6. TakesState(q, b, cookies[b].stateId)
    BY <2>1, <2>4, AcceptedFacts DEF TakesState, ConsumeState, StoredState
  <2>. QED
    BY <2>1, <2>2, <2>4, <2>5, <2>6, AcceptedFacts
<1>. QED
  BY <1>1, <1>3, <1>4

LEMMA StartCallbackIInv ==
    ASSUME IInv, NEW q \in RequestIds, StartCallback(q)
    PROVE  IInv'
<1>. USE DEF Consumed, LoginOf
<1>1. TypeOK'
  BY StartCallbackTypeOK DEF IInv
<1>2. /\ handlers[q].pc = "free"
      /\ \A p \in RequestIds \ {q} : handlers'[p] = handlers[p]
      /\ handlers'[q].op = "callback" /\ handlers'[q].browser \in Browsers
      /\ handlers'[q].pc \in {"requestToken", "reply"}
      /\ UNCHANGED <<sessions, cookies, authorizing, callbackUrls, codes>>
  BY StartCallbackStep
<1>3. /\ handlers[q].op = "none" /\ sessions[q] = NoIdToken
      /\ \A p \in RequestIds : Consumed(p) => handlers[p].stateId # q
      /\ \A c \in Browsers :
           cookies[c].stateId # q /\ cookies[c].sessionId # q
      /\ authStates[q] = NoAuthState
  BY <1>2, FreeRequest
<1>4. \A p \in RequestIds \ {q} : Consumed(p)' <=> Consumed(p)
  BY <1>2
<1>5. \A p \in RequestIds \ {q} : Consumed(p) =>
        handlers[p].stateId \in RequestIds \ {q}
  BY <1>3 DEF IInv, HandlersShaped
<1>6. \/ ~Consumed(q)' /\ handlers'[q].pc = "reply" /\ UNCHANGED authStates
      \/ \E b \in Browsers, s \in RequestIds : TakesState(q, b, s)
  BY StartCallbackStep
<1>7. \A r \in RequestIds : authStates'[r] # NoAuthState =>
        r # q /\ authStates'[r] = authStates[r]
  BY <1>3, <1>6 DEF TakesState, IInv, TypeOK
<1>8. HandlersShaped'
  <2>1. handlers'[q] \in Handler
    BY <1>1 DEF TypeOK
  <2>2. Consumed(q)' => handlers'[q].stateId \in RequestIds
                          /\ handlers'[q].state \in AuthState
    BY <1>6 DEF TakesState
  <2>3. handlers'[q].pc = "requestToken" =>
          Consumed(q)' /\ handlers'[q].code \in Codes
    BY <1>2, <1>6, <2>1 DEF TakesState, Handler, AuthState, NoAuthState
  <2>. QED
    BY <1>2, <1>4, <2>2, <2>3 DEF HandlersShaped, IInv
<1>9. LoginsRecorded'
  BY <1>2, <1>7 DEF LoginsRecorded, IInv
<1>10. StateCookiesOwn'
  <2>1. \A c \in Browsers : cookies[c].stateId # None =>
          cookies[c].stateId \in RequestIds \ {q}
    BY <1>3 DEF IInv, TypeOK
  <2>2. handlers'[q].reply.stateId \notin RequestIds
    BY StartCallbackStep, NoneAssumption
  <2>. QED
    BY <1>2, <2>1, <2>2 DEF StateCookiesOwn, IInv
<1>11. ConsumedGone'
  <2>1. \A p \in RequestIds \ {q} : Consumed(p) =>
          authStates'[handlers[p].stateId] = NoAuthState
    BY <1>5, <1>7 DEF ConsumedGone, IInv
  <2>2. Consumed(q)' =>
          /\ authStates'[handlers'[q].stateId] = NoAuthState
          /\ LoginOf(q)'.op = "login"
          /\ LoginOf(q)'.browser = handlers'[q].browser
          /\ LoginOf(q)'.state = handlers'[q].state
    BY <1>2, <1>6 DEF TakesState, IInv, TypeOK
  <2>. QED
    BY <1>2, <1>4, <1>5, <2>1, <2>2 DEF ConsumedGone, IInv
<1>12. SingleUse'
  <2>1. ASSUME NEW p \in RequestIds \ {q}, Consumed(p), Consumed(q)'
        PROVE  handlers[p].stateId # handlers'[q].stateId
    BY <1>6, <2>1 DEF TakesState, ConsumedGone, IInv, AuthState, NoAuthState
  <2>. QED
    BY <1>2, <1>4, <2>1 DEF SingleUse, IInv
<1>13. CodesBound'
  BY <1>2, StartCallbackStep DEF CodesBound, IInv
<1>14. RedeemsOwnCode'
  <2>1. Consumed(q)' /\ handlers'[q].code # None =>
          codes'[handlers'[q].code] = LoginOf(q)'.state.nonce
    BY <1>2, <1>6 DEF TakesState, LoginsRecorded, IInv, AuthState, NoAuthState
  <2>. QED
    BY <1>2, <1>4, <1>5, <2>1 DEF RedeemsOwnCode, IInv
<1>15. SessionsSound'
  <2>1. \A p \in RequestIds : sessions[p] # NoIdToken => p # q
    BY <1>3
  <2>2. \A c \in Browsers : cookies[c].sessionId # None =>
          cookies[c].sessionId \in RequestIds \ {q}
    BY <1>3 DEF IInv, TypeOK
  <2>3. /\ handlers'[q].reply.sessionId \notin RequestIds
        /\ handlers'[q].reply.status # 303
    BY StartCallbackStep, NoneAssumption
  <2>. QED
    BY <1>2, <1>4, <2>1, <2>2, <2>3 DEF SessionsSound, IInv
<1>. QED
  BY <1>1, <1>8, <1>9, <1>10, <1>11, <1>12, <1>13, <1>14, <1>15 DEF IInv

\* A resumed callback waits on, fails, or creates its session.
LEMMA ResumeStep ==
    ASSUME IInv, NEW q \in RequestIds, Resume(q)
    PROVE  /\ Consumed(q) /\ sessions[q] = NoIdToken
           /\ \A p \in RequestIds \ {q} : handlers'[p] = handlers[p]
           /\ handlers'[q].op = handlers[q].op
           /\ handlers'[q].browser = handlers[q].browser
           /\ handlers'[q].stateId = handlers[q].stateId
           /\ handlers'[q].state = handlers[q].state
           /\ UNCHANGED <<authStates, cookies, authorizing, callbackUrls, codes>>
           /\ \/ /\ handlers'[q].pc = "validateJwt"
                 /\ handlers'[q].code = handlers[q].code
                 /\ handlers'[q].reply = handlers[q].reply
                 /\ UNCHANGED sessions
              \/ /\ handlers'[q].pc = "reply" /\ handlers'[q].code = None
                 /\ \E status \in {400, 401, 500, 502} :
                      handlers'[q].reply = Failure(status, Keep)
                 /\ UNCHANGED sessions
              \/ /\ handlers'[q].pc = "reply" /\ handlers'[q].code = None
                 /\ handlers'[q].reply = SessionReply(q)
                 /\ sessions' = [sessions EXCEPT ![q] = handlers[q].idToken]
                 /\ handlers[q].idToken.signed
                 /\ handlers[q].idToken.claims = Proceed
                 /\ handlers[q].idToken.nonce = handlers[q].state.nonce
<1>1. /\ handlers[q].pc \in {"requestToken", "validateJwt"}
      /\ UNCHANGED <<authStates, cookies, authorizing, callbackUrls, codes>>
  BY DEF Resume, TokensReceived, TokensRefused, IdTokenRejected, CreateSession
<1>2. Consumed(q) /\ sessions[q] = NoIdToken
  BY <1>1 DEF IInv, HandlersShaped, SessionsSound
<1>3. /\ handlers \in [RequestIds -> Handler] /\ handlers[q] \in Handler
      /\ q \in DOMAIN handlers
  BY DEF IInv, TypeOK
<1>4. CASE TokensReceived(q)
  <2>1. PICK token :
          handlers' = [handlers EXCEPT ![q].pc = "validateJwt",
                                       ![q].idToken = token]
    BY <1>4 DEF TokensReceived
  <2>. QED
    BY <1>1, <1>2, <1>3, <1>4, <2>1 DEF TokensReceived, Handler
<1>5. CASE TokensRefused(q) \/ IdTokenRejected(q)
  <2>1. PICK status \in {400, 401, 500, 502} :
          Answered(q, handlers[q], Failure(status, Keep))
    <3>1. CASE TokensRefused(q)
      BY <3>1, FailureStatuses, FailureType DEF TokensRefused, JwtAnswers
    <3>2. CASE IdTokenRejected(q)
      <4>1. PICK answer \in SignatureAnswers(handlers[q].idToken) :
              /\ ~IdTokenAccepted(q, answer)
              /\ Answered(q, handlers[q], Failure(RejectionStatus(q, answer), Keep))
        BY <3>2 DEF IdTokenRejected
      <4>2. ValidateJwtStatus(answer) \in {Proceed, 401, 500}
        BY DEF ValidateJwtStatus
      <4>3. handlers[q].idToken.claims \in {Proceed, 401, 500}
        BY <1>3, NoIdTokenType DEF Handler, IdTokens
      <4>4. RejectionStatus(q, answer) \in {400, 401, 500}
        BY <4>2, <4>3 DEF RejectionStatus
      <4>. QED
        BY <4>1, <4>4
    <3>. QED
      BY <1>5, <3>1, <3>2
  <2>2. UNCHANGED sessions
    BY <1>5 DEF TokensRefused, IdTokenRejected
  <2>. QED
    BY <1>1, <1>2, <1>3, <2>1, <2>2 DEF Answered
<1>6. CASE CreateSession(q)
  <2>1. PICK answer \in SignatureAnswers(handlers[q].idToken) :
          IdTokenAccepted(q, answer)
    BY <1>6 DEF CreateSession
  <2>2. /\ handlers[q].idToken.claims = Proceed
        /\ handlers[q].idToken.nonce = handlers[q].state.nonce
    BY <2>1 DEF IdTokenAccepted, NonceMatches
  <2>3. answer = 204
    BY <2>1 DEF IdTokenAccepted, ValidateJwtStatus, Proceed
  <2>4. handlers[q].idToken.signed
    BY <2>1, <2>3 DEF SignatureAnswers
  <2>5. /\ Answered(q, handlers[q], SessionReply(q))
        /\ sessions' = [sessions EXCEPT ![q] = handlers[q].idToken]
    BY <1>6 DEF CreateSession
  <2>. QED
    BY <1>1, <1>2, <1>3, <2>2, <2>4, <2>5 DEF Answered
<1>. QED
  BY <1>4, <1>5, <1>6 DEF Resume

LEMMA ResumeIInv ==
    ASSUME IInv, NEW q \in RequestIds, Resume(q)
    PROVE  IInv'
<1>. USE DEF LoginOf
<1>1. TypeOK'
  BY ResumeTypeOK DEF IInv
<1>2. /\ Consumed(q) /\ sessions[q] = NoIdToken
      /\ \A p \in RequestIds \ {q} : handlers'[p] = handlers[p]
      /\ handlers'[q].op = handlers[q].op
      /\ handlers'[q].browser = handlers[q].browser
      /\ handlers'[q].stateId = handlers[q].stateId
      /\ handlers'[q].state = handlers[q].state
      /\ handlers'[q].pc \in {"validateJwt", "reply"}
      /\ handlers'[q].code \in {handlers[q].code, None}
      /\ UNCHANGED <<authStates, cookies, authorizing, callbackUrls, codes>>
  BY ResumeStep
<1>3. /\ handlers[q].op = "callback"
      /\ handlers[q].pc \in {"requestToken", "validateJwt"}
      /\ handlers[q].code \in Codes /\ handlers[q].browser \in Browsers
  <2>1. handlers[q].pc \in {"requestToken", "validateJwt"}
    BY DEF Resume, TokensReceived, TokensRefused, IdTokenRejected, CreateSession
  <2>. QED
    BY <1>2, <2>1 DEF IInv, HandlersShaped, Consumed
<1>4. \A p \in RequestIds :
        /\ handlers'[p].op = handlers[p].op
        /\ handlers'[p].browser = handlers[p].browser
        /\ handlers'[p].stateId = handlers[p].stateId
        /\ handlers'[p].state = handlers[p].state
        /\ Consumed(p)' <=> Consumed(p)
  BY <1>2 DEF Consumed
<1>5. handlers'[q].reply = handlers[q].reply
        \/ /\ handlers'[q].reply.stateId \in {None, Keep}
           /\ handlers'[q].reply.authorize = NoAuthorization
  <2>1. \A status : Failure(status, Keep).stateId = Keep
                      /\ Failure(status, Keep).authorize = NoAuthorization
    BY DEF Failure
  <2>2. SessionReply(q).stateId = None
          /\ SessionReply(q).authorize = NoAuthorization
    BY DEF SessionReply
  <2>. QED
    BY ResumeStep, <2>1, <2>2
<1>6. HandlersShaped'
  <2>1. handlers'[q].pc = "validateJwt" => handlers'[q].code \in Codes
    BY <1>3, ResumeStep
  <2>. QED
    BY <1>2, <1>3, <1>4, <2>1 DEF HandlersShaped, IInv
<1>7. LoginsRecorded'
  BY <1>2, <1>4 DEF LoginsRecorded, IInv
<1>8. StateCookiesOwn'
  <2>1. \A b \in Browsers : cookies[b].stateId # None =>
          cookies[b].stateId \in RequestIds
    BY DEF IInv, TypeOK
  <2>. QED
    BY <1>2, <1>4, <1>5, <2>1, NoneAssumption DEF StateCookiesOwn, IInv
<1>9. \A p \in RequestIds : Consumed(p) => handlers[p].stateId \in RequestIds
  BY DEF IInv, HandlersShaped
<1>10. ConsumedGone'
  BY <1>2, <1>4, <1>9 DEF ConsumedGone, IInv
<1>11. SingleUse'
  BY <1>4 DEF SingleUse, IInv
<1>12. CodesBound'
  BY <1>2, <1>5 DEF CodesBound, IInv
<1>13. RedeemsOwnCode'
  BY <1>2, <1>4, <1>9 DEF RedeemsOwnCode, IInv
<1>14. SessionsSound'
  <2>1. CASE handlers'[q].pc = "validateJwt"
    <3>1. handlers'[q].reply = handlers[q].reply /\ UNCHANGED sessions
      BY <2>1, ResumeStep
    <3>2. \A b \in Browsers : cookies[b].sessionId # None =>
            cookies[b].sessionId \in RequestIds
      BY DEF IInv, TypeOK
    <3>. QED
      BY <1>2, <1>4, <3>1, <3>2 DEF SessionsSound, IInv
  <2>2. CASE \E status \in {400, 401, 500, 502} :
               handlers'[q].reply = Failure(status, Keep) /\ UNCHANGED sessions
    <3>1. /\ handlers'[q].reply.sessionId \notin RequestIds
          /\ handlers'[q].reply.status # 303
      BY <2>2, NoneAssumption DEF Failure
    <3>2. \A b \in Browsers : cookies[b].sessionId # None =>
            cookies[b].sessionId \in RequestIds
      BY DEF IInv, TypeOK
    <3>. QED
      BY <1>2, <1>4, <2>2, <3>1, <3>2 DEF SessionsSound, IInv
  <2>3. CASE /\ handlers'[q].pc = "reply" /\ handlers'[q].reply = SessionReply(q)
             /\ sessions' = [sessions EXCEPT ![q] = handlers[q].idToken]
             /\ handlers[q].idToken.signed
             /\ handlers[q].idToken.claims = Proceed
             /\ handlers[q].idToken.nonce = handlers[q].state.nonce
    <3>1. /\ sessions'[q] = handlers[q].idToken
          /\ \A p \in RequestIds \ {q} : sessions'[p] = sessions[p]
      BY <2>3 DEF IInv, TypeOK
    <3>2. sessions'[q] # NoIdToken
      BY <2>3, <3>1 DEF NoIdToken, Proceed
    <3>3. /\ handlers'[q].reply.location = handlers'[q].state.url
          /\ handlers'[q].reply.sessionId = q
      BY <1>2, <2>3 DEF SessionReply
    <3>4. \A b \in Browsers : cookies[b].sessionId # None =>
            cookies[b].sessionId \in RequestIds \ {q}
      BY <1>2 DEF IInv, TypeOK, SessionsSound
    <3>. QED
      BY <1>2, <1>4, <2>3, <3>1, <3>2, <3>3, <3>4 DEF SessionsSound, IInv
  <2>. QED
    BY <2>1, <2>2, <2>3, ResumeStep
<1>. QED
  BY <1>1, <1>6, <1>7, <1>8, <1>10, <1>11, <1>12, <1>13, <1>14 DEF IInv

\* What is said of a step that leaves the handlers' records and the tokens
\* alone: only cookies, codes and the store can break the invariant.
LEMMA HandlersUnchanged ==
    ASSUME IInv, TypeOK', UNCHANGED <<handlers, sessions>>,
           \A r \in RequestIds : authStates'[r] \in {authStates[r], NoAuthState},
           \A b \in Browsers :
             /\ cookies'[b].stateId \in {cookies[b].stateId, None}
             /\ cookies'[b].sessionId = cookies[b].sessionId
    PROVE  /\ HandlersShaped' /\ LoginsRecorded' /\ StateCookiesOwn'
           /\ ConsumedGone' /\ SingleUse' /\ SessionsSound'
<1>. USE DEF Consumed, LoginOf
<1>1. HandlersShaped' /\ LoginsRecorded' /\ SingleUse'
  BY DEF IInv, HandlersShaped, LoginsRecorded, SingleUse
<1>2. StateCookiesOwn' /\ SessionsSound'
  BY DEF IInv, StateCookiesOwn, SessionsSound
<1>3. ConsumedGone'
  <2>1. \A q \in RequestIds : Consumed(q) => handlers[q].stateId \in RequestIds
    BY DEF IInv, HandlersShaped
  <2>. QED
    BY <2>1 DEF IInv, ConsumedGone
<1>. QED
  BY <1>1, <1>2, <1>3

LEMMA EnvironmentIInv ==
    ASSUME IInv, Environment
    PROVE  IInv'
<1>1. TypeOK'
  BY EnvironmentTypeOK DEF IInv
<1>2. UNCHANGED <<handlers, sessions>>
  BY DEF Environment, EvictState, DropStateCookie, OPIssueCode, OPRefuse, Tick
<1>3. \A r \in RequestIds : authStates'[r] \in {authStates[r], NoAuthState}
  BY DEF Environment, EvictState, DropStateCookie, OPIssueCode, OPRefuse, Tick,
     IInv, TypeOK
<1>4. \A b \in Browsers :
        /\ cookies'[b].stateId \in {cookies[b].stateId, None}
        /\ cookies'[b].sessionId = cookies[b].sessionId
  BY DEF Environment, EvictState, DropStateCookie, OPIssueCode, OPRefuse, Tick,
     IInv, TypeOK
<1>5. \A q \in RequestIds : Consumed(q) =>
        LoginOf(q).state.nonce \in Nonces /\ handlers[q].code \in Codes \cup {None}
  <2>. SUFFICES ASSUME NEW q \in RequestIds, Consumed(q)
                PROVE  LoginOf(q).state.nonce \in Nonces
                         /\ handlers[q].code \in Codes \cup {None}
    OBVIOUS
  <2>1. handlers[q] \in Handler
    BY DEF IInv, TypeOK
  <2>. QED
    BY <2>1 DEF IInv, HandlersShaped, ConsumedGone, Handler, AuthState
<1>6. ASSUME NEW a \in authorizing, NEW c \in Codes, OPIssueCode(a, c)
      PROVE  CodesBound' /\ RedeemsOwnCode'
  <2>1. PICK r \in RequestIds : a = [state |-> Sha256(r), nonce |-> Nonce(r)]
    BY DEF IInv, CodesBound
  <2>2. /\ codes[c] = None /\ codes'[c] = Nonce(r)
        /\ \A d \in Codes \ {c} : codes'[d] = codes[d]
        /\ UNCHANGED authorizing
        /\ callbackUrls' = callbackUrls \cup
              {[state |-> Sha256(r), code |-> c, error |-> None]}
    BY <1>6, <2>1 DEF OPIssueCode, IInv, TypeOK
  <2>3. \A s \in RequestIds : None # Nonce(s)
    BY NoneAssumption DEF Nonce
  <2>4. ASSUME NEW url \in callbackUrls', url.code # None
        PROVE  \E s \in RequestIds :
                 url.state = Sha256(s) /\ codes'[url.code] = Nonce(s)
    <3>1. CASE url \in callbackUrls
      <4>1. PICK s \in RequestIds :
              url.state = Sha256(s) /\ codes[url.code] = Nonce(s)
        BY <2>4, <3>1 DEF IInv, CodesBound
      <4>2. url.code \in Codes \ {c}
        BY <2>2, <2>3, <2>4, <3>1, <4>1 DEF IInv, TypeOK, CallbackArgs
      <4>. QED
        BY <2>2, <4>1, <4>2
    <3>2. CASE url = [state |-> Sha256(r), code |-> c, error |-> None]
      BY <2>2, <3>2
    <3>. QED
      BY <2>2, <3>1, <3>2
  <2>5. CodesBound'
    BY <1>2, <2>2, <2>4 DEF IInv, CodesBound
  <2>6. RedeemsOwnCode'
    <3>1. ASSUME NEW q \in RequestIds, Consumed(q), handlers[q].code # None
          PROVE  codes'[handlers[q].code] = codes[handlers[q].code]
      <4>1. codes[handlers[q].code] \in Nonces
        BY <1>5, <3>1 DEF IInv, RedeemsOwnCode
      <4>2. handlers[q].code \in Codes \ {c}
        BY <1>5, <2>2, <3>1, <4>1, NoneAssumption DEF Nonces
      <4>. QED
        BY <2>2, <4>2
    <3>. QED
      BY <1>2, <3>1 DEF IInv, RedeemsOwnCode, Consumed, LoginOf
  <2>. QED
    BY <2>5, <2>6
<1>7. ASSUME NEW a \in authorizing, NEW error \in OPErrors, OPRefuse(a, error)
      PROVE  CodesBound' /\ RedeemsOwnCode'
  BY <1>2, <1>7 DEF OPRefuse, IInv, CodesBound, RedeemsOwnCode, Consumed, LoginOf
<1>8. ASSUME UNCHANGED <<authorizing, callbackUrls, codes>>
      PROVE  CodesBound' /\ RedeemsOwnCode'
  BY <1>2, <1>8 DEF IInv, CodesBound, RedeemsOwnCode, Consumed, LoginOf
<1>9. CodesBound' /\ RedeemsOwnCode'
  <2>1. CASE \/ \E r \in RequestIds : EvictState(r)
             \/ \E b \in Browsers : DropStateCookie(b)
             \/ Tick
    BY <1>8, <2>1 DEF EvictState, DropStateCookie, Tick
  <2>. QED
    BY <1>6, <1>7, <2>1 DEF Environment
<1>. QED
  BY <1>1, <1>2, <1>3, <1>4, <1>9, HandlersUnchanged DEF IInv

\* An answer that arrives, or never does.
LEMMA DeliverIInv ==
    ASSUME IInv, NEW r \in RequestIds, Deliver(r) \/ LoseReply(r)
    PROVE  IInv'
<1>. USE DEF LoginOf
<1>1. TypeOK'
  BY DeliverTypeOK DEF IInv
<1>2. /\ handlers[r].pc = "reply" /\ handlers[r].browser \in Browsers
      /\ UNCHANGED <<now, authStates, sessions, callbackUrls, codes>>
  BY DEF Deliver, LoseReply, IInv, HandlersShaped
<1>3. /\ \A p \in RequestIds \ {r} : handlers'[p] = handlers[p]
      /\ handlers'[r].pc = "done" /\ handlers'[r].reply = NoReply
      /\ \A p \in RequestIds :
           /\ handlers'[p].op = handlers[p].op
           /\ handlers'[p].browser = handlers[p].browser
           /\ handlers'[p].stateId = handlers[p].stateId
           /\ handlers'[p].state = handlers[p].state
           /\ handlers'[p].code = handlers[p].code
           /\ Consumed(p)' <=> Consumed(p)
  <2>1. handlers' = [handlers EXCEPT ![r].pc = "done", ![r].reply = NoReply]
    BY DEF Deliver, LoseReply
  <2>. QED
    BY <2>1 DEF IInv, TypeOK, Handler, Consumed
<1>4. /\ NoReply.status = 405 /\ NoReply.authorize = NoAuthorization
      /\ NoReply.stateId = Keep /\ NoReply.sessionId = Keep
  BY DEF NoReply, Failure
<1>5. \A p \in RequestIds : Consumed(p) => handlers[p].stateId \in RequestIds
  BY DEF IInv, HandlersShaped
<1>6. /\ \A b \in Browsers \ {handlers[r].browser} : cookies'[b] = cookies[b]
      /\ cookies'[handlers[r].browser].stateId \in
            {cookies[handlers[r].browser].stateId, None}
            \/ /\ cookies'[handlers[r].browser].stateId = r
               /\ handlers[r].op = "login"
      /\ cookies'[handlers[r].browser].sessionId =
            cookies[handlers[r].browser].sessionId
            \/ /\ cookies'[handlers[r].browser].sessionId = r
               /\ sessions[r] # NoIdToken
      /\ \/ UNCHANGED authorizing
         \/ authorizing' = authorizing
               \cup {[state |-> Sha256(r), nonce |-> Nonce(r)]}
  <2>1. CASE Deliver(r)
    <3>. handlers[r] \in Handler
      BY DEF IInv, TypeOK
    <3>1. /\ handlers[r].reply.stateId \in {r, None, Keep}
          /\ handlers[r].reply.stateId = r => handlers[r].op = "login"
      BY DEF IInv, StateCookiesOwn, Handler, Replies
    <3>2. /\ handlers[r].reply.sessionId \in {r, Keep}
          /\ handlers[r].reply.sessionId = r => sessions[r] # NoIdToken
      BY DEF IInv, SessionsSound, Handler, Replies
    <3>3. handlers[r].reply.authorize \in
            {NoAuthorization, [state |-> Sha256(r), nonce |-> Nonce(r)]}
      BY DEF IInv, CodesBound
    <3>4. cookies' = [cookies EXCEPT
            ![handlers[r].browser].stateId = Updated(@, handlers[r].reply.stateId),
            ![handlers[r].browser].sessionId =
                Updated(@, handlers[r].reply.sessionId)]
      BY <2>1 DEF Deliver
    <3>5. cookies \in [Browsers -> [stateId : RequestIds \cup {None},
                                    sessionId : RequestIds \cup {None}]]
      BY DEF IInv, TypeOK
    <3>6. \A b \in Browsers \ {handlers[r].browser} : cookies'[b] = cookies[b]
      BY <1>2, <3>4, <3>5
    <3>7. /\ cookies'[handlers[r].browser].stateId =
               Updated(cookies[handlers[r].browser].stateId,
                       handlers[r].reply.stateId)
          /\ cookies'[handlers[r].browser].sessionId =
               Updated(cookies[handlers[r].browser].sessionId,
                       handlers[r].reply.sessionId)
      BY <1>2, <3>4, <3>5
    <3>8. authorizing' = authorizing
            \cup ({handlers[r].reply.authorize} \ {NoAuthorization})
      BY <2>1 DEF Deliver
    <3>. QED
      BY <3>1, <3>2, <3>3, <3>6, <3>7, <3>8 DEF Updated
  <2>2. CASE LoseReply(r)
    BY <2>2 DEF LoseReply
  <2>. QED
    BY <2>1, <2>2
<1>7. HandlersShaped'
  BY <1>2, <1>3 DEF HandlersShaped, IInv
<1>8. LoginsRecorded'
  BY <1>2, <1>3 DEF LoginsRecorded, IInv
<1>9. StateCookiesOwn'
  <2>1. \A b \in Browsers : cookies'[b].stateId # None =>
          /\ handlers[cookies'[b].stateId].op = "login"
          /\ handlers[cookies'[b].stateId].browser = b
    BY <1>6 DEF StateCookiesOwn, IInv
  <2>2. \A b \in Browsers : cookies'[b].stateId # None =>
          cookies'[b].stateId \in RequestIds
    BY <1>1 DEF TypeOK
  <2>. QED
    BY <1>3, <1>4, <2>1, <2>2, NoneAssumption DEF StateCookiesOwn, IInv
<1>10. ConsumedGone'
  BY <1>2, <1>3, <1>5 DEF ConsumedGone, IInv
<1>11. SingleUse'
  BY <1>3 DEF SingleUse, IInv
<1>12. CodesBound'
  BY <1>2, <1>3, <1>4, <1>6 DEF CodesBound, IInv
<1>13. RedeemsOwnCode'
  BY <1>2, <1>3, <1>5 DEF RedeemsOwnCode, IInv
<1>14. SessionsSound'
  <2>1. \A b \in Browsers : cookies'[b].sessionId # None =>
          /\ sessions[cookies'[b].sessionId] # NoIdToken
          /\ handlers[cookies'[b].sessionId].browser = b
    BY <1>6 DEF SessionsSound, IInv
  <2>2. \A b \in Browsers : cookies'[b].sessionId # None =>
          cookies'[b].sessionId \in RequestIds
    BY <1>1 DEF TypeOK
  <2>. QED
    BY <1>2, <1>3, <1>4, <2>1, <2>2, NoneAssumption DEF SessionsSound, IInv
<1>. QED
  BY <1>1, <1>7, <1>8, <1>9, <1>10, <1>11, <1>12, <1>13, <1>14 DEF IInv

LEMMA NextIInv == IInv /\ [Next]_vars => IInv'
<1>. SUFFICES ASSUME IInv, [Next]_vars PROVE IInv'
  OBVIOUS
<1>1. ASSUME NEW r \in RequestIds, StartLogin(r) PROVE IInv'
  BY <1>1, LoginIInv DEF StartLogin
<1>2. ASSUME NEW r \in RequestIds, StartCallback(r) PROVE IInv'
  BY <1>2, StartCallbackIInv
<1>3. ASSUME NEW r \in RequestIds, Resume(r) PROVE IInv'
  BY <1>3, ResumeIInv
<1>4. ASSUME NEW r \in RequestIds, Deliver(r) \/ LoseReply(r) PROVE IInv'
  BY <1>4, DeliverIInv
<1>5. CASE Environment
  BY <1>5, EnvironmentIInv
<1>6. CASE UNCHANGED vars
  BY <1>6 DEF vars, IInv, TypeOK, HandlersShaped, LoginsRecorded,
     StateCookiesOwn, ConsumedGone, SingleUse, CodesBound, RedeemsOwnCode,
     SessionsSound, Consumed, LoginOf
<1>. QED
  BY <1>1, <1>2, <1>3, <1>4, <1>5, <1>6 DEF Next

\* In every reachable state the inductive invariant holds.
LEMMA Invariant == Spec => []IInv
  BY InitIInv, NextIInv, PTL DEF Spec

-----------------------------------------------------------------------------
(* What a step may never do *)

\* Once a handler has begun, which login it is, or has consumed, is settled.
LEMMA Settled ==
    ASSUME IInv, [Next]_vars, NEW p \in RequestIds, handlers[p].pc # "free"
    PROVE  /\ handlers'[p].op = handlers[p].op
           /\ handlers'[p].stateId = handlers[p].stateId
           /\ handlers'[p].state = handlers[p].state
<1>1. CASE \E r \in RequestIds : StartLogin(r)
  BY <1>1, LoginStep DEF StartLogin
<1>2. CASE \E r \in RequestIds : StartCallback(r)
  BY <1>2, StartCallbackStep
<1>3. CASE \E r \in RequestIds : Resume(r)
  <2>1. PICK r \in RequestIds : Resume(r)
    BY <1>3
  <2>. QED
    BY <2>1, ResumeStep
<1>4. CASE \E r \in RequestIds : Deliver(r) \/ LoseReply(r)
  <2>1. PICK r \in RequestIds :
          handlers' = [handlers EXCEPT ![r].pc = "done", ![r].reply = NoReply]
    BY <1>4 DEF Deliver, LoseReply
  <2>. QED
    BY <2>1 DEF IInv, TypeOK, Handler
<1>5. CASE Environment \/ UNCHANGED vars
  BY <1>5 DEF Environment, EvictState, DropStateCookie, OPIssueCode, OPRefuse,
     Tick, vars
<1>. QED
  BY <1>1, <1>2, <1>3, <1>4, <1>5 DEF Next

\* The second induction: only its own callback takes a state that is not evictable.
LEMMA StateKeptStep ==
    ASSUME IInv, StateKeptUntilUsed, [Next]_vars
    PROVE  StateKeptUntilUsed'
<1>. SUFFICES ASSUME NEW r \in RequestIds \ Evictable,
                     handlers'[r].state # NoAuthState, handlers'[r].op = "login"
              PROVE  \/ authStates'[r] = handlers'[r].state
                     \/ \E q \in RequestIds :
                          Consumed(q)' /\ handlers'[q].stateId = r
  BY DEF StateKeptUntilUsed
<1>1. \A q \in RequestIds : Consumed(q) =>
        Consumed(q)' /\ handlers'[q].stateId = handlers[q].stateId
  BY Settled DEF IInv, HandlersShaped, Consumed
<1>2. ASSUME handlers[r].pc # "free", authStates'[r] = authStates[r]
      PROVE  \/ authStates'[r] = handlers'[r].state
             \/ \E q \in RequestIds : Consumed(q)' /\ handlers'[q].stateId = r
  BY <1>1, <1>2, Settled DEF StateKeptUntilUsed
<1>3. ASSUME handlers'[r] = handlers[r], authStates'[r] = authStates[r]
      PROVE  \/ authStates'[r] = handlers'[r].state
             \/ \E q \in RequestIds : Consumed(q)' /\ handlers'[q].stateId = r
  BY <1>1, <1>3 DEF StateKeptUntilUsed
<1>4. CASE \E p \in RequestIds : StartLogin(p)
  <2>1. PICK p \in RequestIds, b \in Browsers, request \in LoginRequests :
          Login(p, b, request) \/ LoginNotAllowed(p, b, request)
    BY <1>4 DEF StartLogin
  <2>2. /\ authStates'[p] = handlers'[p].state
        /\ \A d \in RequestIds \ {p} :
             handlers'[d] = handlers[d] /\ authStates'[d] = authStates[d]
    BY <2>1, LoginStep
  <2>. QED
    BY <1>3, <2>2
<1>5. CASE \E p \in RequestIds : StartCallback(p)
  <2>1. PICK p \in RequestIds : StartCallback(p)
    BY <1>5
  <2>2. r # p /\ handlers'[r] = handlers[r]
    BY <2>1, StartCallbackStep
  <2>3. CASE UNCHANGED authStates
    BY <1>3, <2>2, <2>3
  <2>4. CASE \E b \in Browsers, s \in RequestIds : TakesState(p, b, s)
    <3>1. PICK b \in Browsers, s \in RequestIds : TakesState(p, b, s)
      BY <2>4
    <3>2. CASE s = r
      <4>1. Consumed(p)' /\ handlers'[p].stateId = r
        BY <2>1, <3>1, <3>2, StartCallbackStep
        DEF TakesState, Consumed, AuthState, NoAuthState
      <4>. QED
        BY <4>1
    <3>3. CASE s # r
      BY <1>3, <2>2, <3>1, <3>3 DEF TakesState, IInv, TypeOK
    <3>. QED
      BY <3>2, <3>3
  <2>. QED
    BY <2>1, <2>3, <2>4, StartCallbackStep
<1>6. handlers[r].pc = "free" => handlers'[r] = handlers[r]
                                   \/ \E p \in RequestIds : StartLogin(p)
  <2>. SUFFICES ASSUME handlers[r].pc = "free"
                PROVE  handlers'[r] = handlers[r]
                         \/ \E p \in RequestIds : StartLogin(p)
    OBVIOUS
  <2>1. CASE \E p \in RequestIds : StartCallback(p)
    BY <2>1, StartCallbackStep
  <2>2. CASE \E p \in RequestIds : Resume(p)
    <3>1. PICK p \in RequestIds : Resume(p)
      BY <2>2
    <3>2. handlers[p].pc # "free"
      BY <3>1 DEF Resume, TokensReceived, TokensRefused, IdTokenRejected,
         CreateSession
    <3>. QED
      BY <3>1, <3>2, ResumeStep
  <2>3. CASE \E p \in RequestIds : Deliver(p) \/ LoseReply(p)
    <3>1. PICK p \in RequestIds : handlers[p].pc = "reply" /\
            handlers' = [handlers EXCEPT ![p].pc = "done", ![p].reply = NoReply]
      BY <2>3 DEF Deliver, LoseReply
    <3>. QED
      BY <3>1 DEF IInv, TypeOK
  <2>4. CASE Environment \/ UNCHANGED vars
    BY <2>4 DEF Environment, EvictState, DropStateCookie, OPIssueCode, OPRefuse,
       Tick, vars
  <2>. QED
    BY <2>1, <2>2, <2>3, <2>4 DEF Next
<1>7. CASE \E p \in RequestIds : Resume(p) \/ Deliver(p) \/ LoseReply(p)
  <2>1. UNCHANGED authStates
    BY <1>7 DEF Resume, TokensReceived, TokensRefused, IdTokenRejected,
       CreateSession, Deliver, LoseReply
  <2>. QED
    BY <1>2, <1>3, <1>4, <1>6, <2>1
<1>8. CASE Environment \/ UNCHANGED vars
  <2>1. authStates'[r] = authStates[r]
    BY <1>8 DEF Environment, EvictState, DropStateCookie, OPIssueCode, OPRefuse,
       Tick, vars, IInv, TypeOK
  <2>. QED
    BY <1>2, <1>3, <1>4, <1>6, <2>1
<1>. QED
  BY <1>4, <1>5, <1>7, <1>8 DEF Next

\* No step takes the code of an expired state to the token endpoint.
LEMMA InTimeStep ==
    ASSUME IInv, [Next]_vars, NEW q \in RequestIds,
           handlers[q].pc = "free", handlers'[q].pc = "requestToken"
    PROVE  now <= handlers[handlers'[q].stateId].state.exp
<1>1. StartCallback(q)
  <2>1. ~ \E r \in RequestIds : StartLogin(r)
    BY LoginStep DEF StartLogin
  <2>2. ~ \E r \in RequestIds : Resume(r)
    <3>. SUFFICES ASSUME NEW r \in RequestIds, Resume(r) PROVE FALSE
      OBVIOUS
    <3>1. handlers[r].pc # "free"
      BY DEF Resume, TokensReceived, TokensRefused, IdTokenRejected, CreateSession
    <3>. QED
      BY <3>1, ResumeStep
  <2>3. ~ \E r \in RequestIds : Deliver(r) \/ LoseReply(r)
    <3>. SUFFICES ASSUME NEW r \in RequestIds, Deliver(r) \/ LoseReply(r)
                  PROVE  FALSE
      OBVIOUS
    <3>1. handlers[r].pc = "reply" /\
            handlers' = [handlers EXCEPT ![r].pc = "done", ![r].reply = NoReply]
      BY DEF Deliver, LoseReply
    <3>. QED
      BY <3>1 DEF IInv, TypeOK
  <2>4. ~Environment /\ ~UNCHANGED vars
    BY DEF Environment, EvictState, DropStateCookie, OPIssueCode, OPRefuse, Tick,
       vars
  <2>5. PICK r \in RequestIds : StartCallback(r)
    BY <2>1, <2>2, <2>3, <2>4 DEF Next
  <2>6. r = q
    BY <2>5, StartCallbackStep
  <2>. QED
    BY <2>5, <2>6
<1>2. PICK b \in Browsers, url \in callbackUrls :
           \/ CallbackIncomplete(q, b, url)
           \/ CallbackInvalidState(q, b, url)
           \/ CallbackExpired(q, b, url)
           \/ CallbackDenied(q, b, url)
           \/ CallbackRequestToken(q, b, url)
  BY <1>1 DEF StartCallback
<1>3. CallbackRequestToken(q, b, url)
  <2>1. ASSUME NEW h, NEW reply, Answered(q, h, reply) PROVE FALSE
    BY <2>1 DEF Answered, IInv, TypeOK
  <2>. QED
    BY <1>2, <2>1 DEF CallbackIncomplete, CallbackInvalidState, CallbackExpired,
       CallbackDenied
<1>4. /\ Accepted(q, b, url) /\ ~Expired(StoredState(b))
      /\ handlers'[q].stateId = cookies[b].stateId
  BY <1>3 DEF CallbackRequestToken, AcceptedCallback, IInv, TypeOK
<1>5. /\ StoredState(b) = handlers[cookies[b].stateId].state
      /\ StoredState(b).exp \in Int
  BY <1>4, AcceptedFacts, TimeAssumption DEF AuthState
<1>6. now \in Int
  BY DEF IInv, TypeOK
<1>. QED
  BY <1>4, <1>5, <1>6 DEF Expired

-----------------------------------------------------------------------------
(* Theorems *)

\* The handlers, the store and the browsers only ever hold what the model
\* says they do: no handler reads an undefined local.
THEOREM TypeCorrect == Spec => []TypeOK
<1>1. IInv => TypeOK
  BY DEF IInv
<1>. QED
  BY <1>1, Invariant, PTL

\* However many browsers, tabs, logins and reloads there are, the state of one
\* login is consumed by one callback at most (callback.ts 32-38).
THEOREM SingleUseHolds == Spec => []SingleUse
<1>1. IInv => SingleUse
  BY DEF IInv
<1>. QED
  BY <1>1, Invariant, PTL

\* A callback never takes a code to the token endpoint under the state of
\* another login (callback.ts 27-38).
THEOREM RedeemsOwnCodeHolds == Spec => []RedeemsOwnCode
<1>1. IInv => RedeemsOwnCode
  BY DEF IInv
<1>. QED
  BY <1>1, Invariant, PTL

\* Every session is that of a login its own browser began and of an ID token
\* that is signed, valid and carries that login's nonce (callback.ts 64-91).
THEOREM SessionFromOwnLoginHolds == Spec => []SessionFromOwnLogin
  BY IInvImplies, Invariant, PTL

\* Tokens are stored exactly for the callbacks that succeed, and a session
\* cookie always names a session of its own browser (callback.ts 80-91).
THEOREM SessionIffSignedInHolds == Spec => []SessionIffSignedIn
  BY IInvImplies, Invariant, PTL

\* A login's state is in the store until a callback with that login's cookie
\* and state has consumed it, unless the zone itself drops it.
THEOREM StateKeptUntilUsedHolds == Spec => []StateKeptUntilUsed
<1>1. Init => StateKeptUntilUsed
  BY DEF Init, FreeHandler, StateKeptUntilUsed
<1>2. IInv /\ StateKeptUntilUsed /\ [Next]_vars => StateKeptUntilUsed'
  BY StateKeptStep
<1>. QED
  BY <1>1, <1>2, Invariant, PTL DEF Spec

\* No code is redeemed for a login whose state has expired (oauth.ts 94).
THEOREM NoLateRedemptionHolds == Spec => NoLateRedemption
<1>1. IInv /\ [Next]_vars =>
        [\A q \in RequestIds :
           handlers[q].pc = "free" /\ handlers'[q].pc = "requestToken"
             => now <= handlers[handlers'[q].stateId].state.exp]_vars
  BY InTimeStep
<1>. QED
  BY <1>1, Invariant, PTL DEF Spec, NoLateRedemption

====
