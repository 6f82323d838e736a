---- MODULE SessionTokens_proofs ----
(***************************************************************************)
(* Theorems about SessionTokens, for any number of sessions, requests and  *)
(* token sets, any access rule and any OP.                                 *)
(***************************************************************************)
EXTENDS SessionTokens, TLAPS

-----------------------------------------------------------------------------
(* The data *)

\* The tokens of a session.
TokensOf(s) == [owner : {s}, gen : 0 .. MaxGen]

\* An answer of the OP to a handler of session s is one of four.
AnswersFor(s) == {NoAnswer, Refusal, Outage} \cup {Success(token) : token \in TokensOf(s)}

LEMMA AnswersType ==
    ASSUME NEW s \in Sessions
    PROVE  /\ TokensOf(s) \subseteq Tokens
           /\ AnswersFor(s) \subseteq Answers
  BY DEF TokensOf, AnswersFor, Answers, Tokens, NoAnswer, Refusal, Outage, Success,
     TokenBodies, ErrorBodies

\* What requestToken makes of each of them.
LEMMA AnswerStatus ==
    ASSUME NEW s \in Sessions, NEW answer \in AnswersFor(s)
    PROVE  /\ RequestTokenStatus(answer) = Proceed =>
                answer = Success(answer.tokens) /\ answer.tokens \in TokensOf(s)
           /\ RequestTokenStatus(answer) # Proceed => answer.tokens = NoToken
           /\ RequestTokenStatus(answer) = 401 <=> answer = Refusal
           /\ answer.body = "invalid_grant" <=> answer = Refusal
           /\ answer.tokens # NoToken =>
                answer = Success(answer.tokens) /\ answer.tokens \in TokensOf(s)
  BY DEF AnswersFor, RequestTokenStatus, Proceed, NoAnswer, Refusal, Outage, Success

-----------------------------------------------------------------------------
(* The inductive invariant *)

\* A request that waits has a refresh token of its session, and, once it has passed
\* the cache or the OP, an answer for that session; with validate-jwt it has tokens.
Shaped(h) ==
    /\ h.pc # "idle" => /\ h.kind \in {"access", "proxy"}
                        /\ h.session \in Sessions
                        /\ h.refreshToken \in TokensOf(h.session)
                        /\ h.answer \in AnswersFor(h.session)
                        /\ h.claims = NoSession
    /\ h.pc \in {"idle", "waiting", "upstream"} => h.answer = NoAnswer
    /\ h.pc = "validateJwt" => h.answer.tokens # NoToken
    /\ h.claims \in {h.session, NoSession}
HandlersShaped == \A q \in Requests : Shaped(handlers[q])

\* The zones and the cache keep the sessions apart: an entry of the cache belongs to
\* the session of the refresh token that is its key.
TokensOwned ==
    /\ \A s \in Sessions : /\ idTokens[s] \in TokensOf(s) \cup {NoToken}
                           /\ accessTokens[s] \in TokensOf(s) \cup {NoToken}
                           /\ refreshTokens[s] \in TokensOf(s) \cup {NoToken}
    /\ \A key \in Tokens : cache[key] \in TokensOf(key.owner) \cup {NoToken}

\* Nobody refreshes a session that was logged out while nobody did.
QuietMeansQuiet == \A s \in Sessions : loggedOut[s] = "quiet" =>
    /\ idTokens[s] = NoToken /\ accessTokens[s] = NoToken /\ refreshTokens[s] = NoToken
    /\ Refreshing(s) = {}

IInv == TypeOK /\ HandlersShaped /\ TokensOwned /\ TokensOfOneSet /\ QuietMeansQuiet

LEMMA InitIInv == Init => IInv
<1>. SUFFICES ASSUME Init PROVE IInv
  OBVIOUS
<1>1. IdleHandler \in Handler
  BY DEF IdleHandler, Handler, Answers, NoAnswer, TokenBodies, Results
<1>2. /\ \A q \in Requests : handlers[q] = IdleHandler
      /\ \A s \in Sessions : /\ FirstTokens[s] \in TokensOf(s)
                             /\ idTokens[s] = FirstTokens[s]
                             /\ accessTokens[s] = FirstTokens[s]
                             /\ refreshTokens[s] \in {FirstTokens[s], NoToken}
                             /\ loggedOut[s] = "no"
      /\ \A key \in Tokens : cache[key] = NoToken
  BY MaxGenAssumption DEF Init, FirstTokens, TokensOf
<1>3. TypeOK
  <2>1. FirstTokens \in [Sessions -> Tokens]
    BY MaxGenAssumption DEF FirstTokens, Tokens
  <2>2. \A q \in Requests : handlers[q].result = "none" /\ handlers[q].kind = "none"
    BY <1>2 DEF IdleHandler
  <2>. QED
    BY <1>1, <2>1, <2>2, MaxGenAssumption DEF Init, TypeOK
<1>4. HandlersShaped
  BY <1>2 DEF HandlersShaped, Shaped, IdleHandler
<1>5. TokensOwned /\ QuietMeansQuiet
  BY <1>2 DEF TokensOwned, QuietMeansQuiet
<1>6. TokensOfOneSet
  BY <1>2 DEF TokensOfOneSet
<1>. QED
  BY <1>3, <1>4, <1>5, <1>6 DEF IInv

-----------------------------------------------------------------------------
(* What the steps do to a handler *)

\* A handler as a record of all its fields, and those a refresh and an end leave.
Record(pc, kind, s, token, answer, result, claims) ==
    [pc |-> pc, kind |-> kind, session |-> s, refreshToken |-> token,
     answer |-> answer, result |-> result, claims |-> claims]
Serving(pc, kind, s, token, answer) ==
    Record(pc, kind, s, token, answer, "none", NoSession)
Done(kind, s, result, claims) ==
    Record("idle", kind, s, NoToken, NoAnswer, result, claims)

LEMMA IdleRecord ==
    IdleHandler = Record("idle", "none", NoSession, NoToken, NoAnswer, "none", NoSession)
  BY DEF IdleHandler, Record

LEMMA DoneShaped ==
    ASSUME NEW kind \in {"access", "proxy"}, NEW s \in Sessions,
           NEW result \in Results \ {"none"}, NEW claims \in {s, NoSession}
    PROVE  /\ Done(kind, s, result, claims) \in Handler
           /\ Shaped(Done(kind, s, result, claims))
  BY DEF Done, Record, Shaped, Handler, Answers, NoAnswer, TokenBodies, Results

LEMMA ServingShaped ==
    ASSUME NEW pc \in {"waiting", "upstream", "arriving", "validateJwt"},
           NEW kind \in {"access", "proxy"}, NEW s \in Sessions,
           NEW token \in TokensOf(s), NEW answer \in AnswersFor(s),
           pc \in {"waiting", "upstream"} => answer = NoAnswer,
           pc = "validateJwt" => answer.tokens # NoToken
    PROVE  /\ Serving(pc, kind, s, token, answer) \in Handler
           /\ Shaped(Serving(pc, kind, s, token, answer))
<1>1. token \in Tokens /\ answer \in Answers
  BY AnswersType
<1>. QED
  BY <1>1 DEF Serving, Record, Shaped, Handler, Results

LEMMA EndedAs ==
    ASSUME NEW q, NEW kind, NEW s, NEW result, Ended(q, kind, s, result)
    PROVE  handlers' = [handlers EXCEPT ![q] = Done(kind, s, result, NoSession)]
<1>. PICK h : h = [IdleHandler EXCEPT !.kind = kind, !.session = s, !.result = result]
  OBVIOUS
<1>1. h \in [pc : {"idle"}, kind : {kind}, session : {s}, refreshToken : {NoToken},
            answer : {NoAnswer}, result : {result}, claims : {NoSession}]
  BY IdleRecord DEF Record
<1>2. h = Done(kind, s, result, NoSession)
  BY <1>1 DEF Done, Record
<1>. QED
  BY <1>2 DEF Ended

LEMMA AuthorizedAs ==
    ASSUME NEW q, NEW s \in Sessions, NEW token \in TokensOf(s), Authorized(q, s, token)
    PROVE  \E result \in {"granted", "denied"} :
             handlers' = [handlers EXCEPT ![q] = Done("access", s, result, s)]
<1>. PICK result : result = IF IsAllowed(User[token.owner], Rule) THEN "granted" ELSE "denied"
  OBVIOUS
<1>. PICK h : h = [IdleHandler EXCEPT !.kind = "access", !.session = s,
                                      !.claims = token.owner, !.result = result]
  OBVIOUS
<1>1. h \in [pc : {"idle"}, kind : {"access"}, session : {s}, refreshToken : {NoToken},
            answer : {NoAnswer}, result : {result}, claims : {s}]
  BY IdleRecord DEF Record, TokensOf
<1>2. h = Done("access", s, result, s)
  BY <1>1 DEF Done, Record
<1>. QED
  BY <1>2 DEF Authorized

LEMMA StartedAs ==
    ASSUME NEW q, NEW kind, NEW s, RefreshStarted(q, kind, s)
    PROVE  handlers' = [handlers EXCEPT ![q] =
             Serving("waiting", kind, s, refreshTokens[s], NoAnswer)]
<1>. PICK h : h = [IdleHandler EXCEPT !.pc = "waiting", !.kind = kind, !.session = s,
                                      !.refreshToken = refreshTokens[s]]
  OBVIOUS
<1>1. h \in [pc : {"waiting"}, kind : {kind}, session : {s}, refreshToken : {refreshTokens[s]},
            answer : {NoAnswer}, result : {"none"}, claims : {NoSession}]
  BY IdleRecord DEF Record
<1>2. h = Serving("waiting", kind, s, refreshTokens[s], NoAnswer)
  BY <1>1 DEF Serving, Record
<1>. QED
  BY <1>2 DEF RefreshStarted

\* A handler that goes on keeps what it knows of its request.
Moved(q, pc, answer) == handlers' = [handlers EXCEPT ![q] =
    Serving(pc, handlers[q].kind, handlers[q].session, handlers[q].refreshToken, answer)]

\* A waiting handler is all of its fields.
LEMMA ServingAs ==
    ASSUME IInv, NEW q \in Requests, handlers[q].pc # "idle"
    PROVE  /\ handlers[q] = Serving(handlers[q].pc, handlers[q].kind, handlers[q].session,
                                    handlers[q].refreshToken, handlers[q].answer)
           /\ handlers[q] \in Handler /\ Shaped(handlers[q])
<1>1. handlers[q] \in Handler /\ handlers[q].result = "none" /\ Shaped(handlers[q])
  BY DEF IInv, TypeOK, HandlersShaped
<1>. QED
  BY <1>1 DEF Handler, Serving, Record, Shaped

LEMMA ServingFields ==
    ASSUME IInv, NEW q \in Requests, handlers[q].pc # "idle"
    PROVE  handlers[q].result = "none" /\ handlers[q].claims = NoSession
  BY DEF IInv, TypeOK, HandlersShaped, Shaped

LEMMA GoAs ==
    ASSUME IInv, NEW q \in Requests, handlers[q].pc # "idle", NEW pc, Go(q, pc)
    PROVE  Moved(q, pc, handlers[q].answer)
<1>. PICK h : h = [handlers[q] EXCEPT !.pc = pc]
  OBVIOUS
<1>1. h \in [pc : {pc}, kind : {handlers[q].kind}, session : {handlers[q].session},
            refreshToken : {handlers[q].refreshToken}, answer : {handlers[q].answer},
            result : {"none"}, claims : {NoSession}]
  BY ServingAs, ServingFields DEF Handler
<1>2. h = Serving(pc, handlers[q].kind, handlers[q].session, handlers[q].refreshToken,
                  handlers[q].answer)
  BY <1>1 DEF Serving, Record
<1>3. handlers' = [handlers EXCEPT ![q] = h]
  BY DEF Go
<1>. QED
  BY <1>2, <1>3 DEF Moved

LEMMA AnsweredAs ==
    ASSUME IInv, NEW q \in Requests, handlers[q].pc # "idle", NEW pc, NEW answer,
           handlers' = [handlers EXCEPT ![q].pc = pc, ![q].answer = answer]
    PROVE  Moved(q, pc, answer)
<1>. PICK g : g = [handlers[q] EXCEPT !.pc = pc]
  OBVIOUS
<1>. PICK h : h = [g EXCEPT !.answer = answer]
  OBVIOUS
<1>1. g \in [pc : {pc}, kind : {handlers[q].kind}, session : {handlers[q].session},
            refreshToken : {handlers[q].refreshToken}, answer : {handlers[q].answer},
            result : {"none"}, claims : {NoSession}]
  BY ServingAs, ServingFields DEF Handler
<1>2. h \in [pc : {pc}, kind : {handlers[q].kind}, session : {handlers[q].session},
            refreshToken : {handlers[q].refreshToken}, answer : {answer},
            result : {"none"}, claims : {NoSession}]
  BY <1>1
<1>3. h = Serving(pc, handlers[q].kind, handlers[q].session, handlers[q].refreshToken, answer)
  BY <1>2 DEF Serving, Record
<1>4. handlers' = [[handlers EXCEPT ![q] = g] EXCEPT ![q] = h]
  BY DEF IInv, TypeOK
<1>. QED
  BY <1>3, <1>4 DEF Moved, IInv, TypeOK

-----------------------------------------------------------------------------
(* The invariant is inductive. *)

\* A handler takes a step.
LEMMA HandlerStep ==
    ASSUME IInv, NEW q \in Requests, NEW h \in Handler, Shaped(h),
           h.result = "none" <=> h.pc # "idle" \/ h.kind = "none",
           handlers' = [handlers EXCEPT ![q] = h]
    PROVE  /\ handlers' \in [Requests -> Handler]
           /\ \A p \in Requests : handlers'[p].result = "none"
                <=> handlers'[p].pc # "idle" \/ handlers'[p].kind = "none"
           /\ HandlersShaped'
           /\ handlers'[q] = h
           /\ \A p \in Requests \ {q} : handlers'[p] = handlers[p]
<1>1. /\ handlers' \in [Requests -> Handler]
      /\ handlers'[q] = h
      /\ \A p \in Requests \ {q} : handlers'[p] = handlers[p]
  BY DEF IInv, TypeOK
<1>2. \A p \in Requests : Shaped(handlers'[p])
  BY <1>1 DEF IInv, HandlersShaped
<1>3. HandlersShaped'
  BY <1>2 DEF HandlersShaped, Shaped
<1>. QED
  BY <1>1, <1>3 DEF IInv, TypeOK

\* The zones lose tokens, if they change at all.
ZonesDropped ==
    /\ idTokens' \in [Sessions -> Tokens \cup {NoToken}]
    /\ accessTokens' \in [Sessions -> Tokens \cup {NoToken}]
    /\ refreshTokens' \in [Sessions -> Tokens \cup {NoToken}]
    /\ \A s \in Sessions : /\ idTokens'[s] \in {idTokens[s], NoToken}
                           /\ accessTokens'[s] \in {accessTokens[s], NoToken}
                           /\ refreshTokens'[s] \in {refreshTokens[s], NoToken}

\* Dropping entries keeps what the zones hold in order.
LEMMA ZonesKept ==
    ASSUME IInv, ZonesDropped, UNCHANGED provider
    PROVE  /\ TokensOfOneSet'
           /\ \A s \in Sessions : /\ idTokens'[s] \in TokensOf(s) \cup {NoToken}
                                  /\ accessTokens'[s] \in TokensOf(s) \cup {NoToken}
                                  /\ refreshTokens'[s] \in TokensOf(s) \cup {NoToken}
<1>1. TokensOfOneSet'
  BY DEF IInv, TokensOfOneSet, ZonesDropped
<1>. QED
  BY <1>1 DEF IInv, TokensOwned, ZonesDropped

\* A step of a handler brings nothing back to another session, and waits only with
\* a refresh token of its own.
LEMMA QuietKept ==
    ASSUME IInv, NEW q \in Requests, NEW h,
           handlers'[q] = h, \A p \in Requests \ {q} : handlers'[p] = handlers[p],
           UNCHANGED loggedOut,
           h.pc # "idle" => h.session \in Sessions
             /\ (refreshTokens[h.session] # NoToken \/ q \in Refreshing(h.session)),
           \A s \in Sessions : q \notin Refreshing(s) =>
             /\ idTokens'[s] \in {idTokens[s], NoToken}
             /\ accessTokens'[s] \in {accessTokens[s], NoToken}
             /\ refreshTokens'[s] \in {refreshTokens[s], NoToken}
    PROVE  QuietMeansQuiet'
<1>. SUFFICES ASSUME NEW s \in Sessions, loggedOut[s] = "quiet"
              PROVE  /\ idTokens'[s] = NoToken /\ accessTokens'[s] = NoToken
                     /\ refreshTokens'[s] = NoToken
                     /\ \A p \in Requests : handlers'[p].pc = "idle" \/ handlers'[p].session # s
  BY DEF QuietMeansQuiet, Refreshing
<1>1. /\ idTokens[s] = NoToken /\ accessTokens[s] = NoToken /\ refreshTokens[s] = NoToken
      /\ \A p \in Requests : handlers[p].pc = "idle" \/ handlers[p].session # s
  BY DEF IInv, QuietMeansQuiet, Refreshing
<1>2. q \notin Refreshing(s)
  BY <1>1 DEF Refreshing
<1>. QED
  BY <1>1, <1>2 DEF Refreshing

\* What a handler does before it needs new tokens, and when it cannot get them.
LEMMA DropStep ==
    ASSUME IInv, NEW q \in Requests, NEW h \in Handler, Shaped(h),
           h.result = "none" <=> h.pc # "idle" \/ h.kind = "none",
           handlers' = [handlers EXCEPT ![q] = h],
           h.pc # "idle" => refreshTokens[h.session] # NoToken \/ q \in Refreshing(h.session),
           ZonesDropped,
           UNCHANGED <<cache, op, loggedOut>>
    PROVE  IInv'
<1>1. /\ handlers' \in [Requests -> Handler]
      /\ \A p \in Requests : handlers'[p].result = "none"
           <=> handlers'[p].pc # "idle" \/ handlers'[p].kind = "none"
      /\ HandlersShaped'
      /\ handlers'[q] = h
      /\ \A p \in Requests \ {q} : handlers'[p] = handlers[p]
  BY HandlerStep
<1>2. TypeOK'
  BY <1>1 DEF IInv, TypeOK, ZonesDropped, op
<1>3. TokensOwned' /\ TokensOfOneSet'
  BY ZonesKept DEF IInv, TokensOwned, op
<1>4. QuietMeansQuiet'
  <2>1. h.pc # "idle" => h.session \in Sessions
    BY DEF Shaped
  <2>. QED
    BY <1>1, <2>1, QuietKept DEF ZonesDropped
<1>. QED
  BY <1>1, <1>2, <1>3, <1>4 DEF IInv

LEMMA ZonesUntouched == IInv /\ UNCHANGED zones => ZonesDropped
  BY DEF IInv, TypeOK, zones, ZonesDropped

\* A request reaches a handler.
LEMMA RequestStep ==
    ASSUME IInv, NEW q \in Requests, Request(q)
    PROVE  IInv'
<1>. PICK s \in Sessions :
       \/ AccessByToken(q, s) \/ AccessRefresh(q, s) \/ AccessUnauthenticated(q, s)
       \/ ProxyByToken(q, s) \/ ProxyRefresh(q, s) \/ ProxyUnauthenticated(q, s)
  BY DEF Request
<1>1. ASSUME NEW kind \in {"access", "proxy"}, NEW result \in Results \ {"none"},
             NEW claims \in {s, NoSession},
             handlers' = [handlers EXCEPT ![q] = Done(kind, s, result, claims)],
             ZonesDropped, UNCHANGED <<cache, op, loggedOut>>
      PROVE  IInv'
  <2>. PICK h : h = Done(kind, s, result, claims)
    OBVIOUS
  <2>1. h \in Handler /\ Shaped(h)
    BY DoneShaped
  <2>2. h.pc = "idle" /\ h.kind # "none" /\ h.result # "none"
    BY DEF Done, Record
  <2>. QED
    BY <1>1, <2>1, <2>2, DropStep
<1>2. ASSUME NEW kind \in {"access", "proxy"}, RefreshStarted(q, kind, s),
             refreshTokens[s] # NoToken, ZonesDropped, UNCHANGED <<cache, op, loggedOut>>
      PROVE  IInv'
  <2>. PICK h : h = Serving("waiting", kind, s, refreshTokens[s], NoAnswer)
    OBVIOUS
  <2>1. refreshTokens[s] \in TokensOf(s) /\ NoAnswer \in AnswersFor(s)
    BY <1>2 DEF IInv, TokensOwned, AnswersFor
  <2>2. h \in Handler /\ Shaped(h)
    BY <2>1, ServingShaped
  <2>3. h.pc = "waiting" /\ h.result = "none" /\ h.session = s
    BY DEF Serving, Record
  <2>4. handlers' = [handlers EXCEPT ![q] = h]
    BY <1>2, StartedAs
  <2>. QED
    BY <1>2, <2>2, <2>3, <2>4, DropStep
<1>3. CASE AccessByToken(q, s)
  <2>1. idTokens[s] \in TokensOf(s)
    BY <1>3 DEF AccessByToken, SignedIn, IInv, TokensOwned
  <2>2. PICK result \in {"granted", "denied"} :
          handlers' = [handlers EXCEPT ![q] = Done("access", s, result, s)]
    BY <1>3, <2>1, AuthorizedAs DEF AccessByToken
  <2>. QED
    BY <1>1, <1>3, <2>2, ZonesUntouched DEF AccessByToken, Results
<1>4. CASE AccessRefresh(q, s)
  <2>1. ZonesDropped
    BY <1>4 DEF AccessRefresh, ZonesDropped, IInv, TypeOK
  <2>. QED
    BY <1>2, <1>4, <2>1 DEF AccessRefresh
<1>5. CASE AccessUnauthenticated(q, s)
  <2>1. ZonesDropped
    BY <1>5 DEF AccessUnauthenticated, ZonesDropped, IInv, TypeOK
  <2>2. Unauthenticated \in Results \ {"none"}
    BY DEF Unauthenticated, Results
  <2>. QED
    BY <1>1, <1>5, <2>1, <2>2, EndedAs DEF AccessUnauthenticated
<1>6. CASE ProxyByToken(q, s)
  BY <1>1, <1>6, EndedAs, ZonesUntouched DEF ProxyByToken, Results
<1>7. CASE ProxyRefresh(q, s)
  BY <1>2, <1>7, ZonesUntouched DEF ProxyRefresh
<1>8. CASE ProxyUnauthenticated(q, s)
  BY <1>1, <1>8, EndedAs, ZonesUntouched DEF ProxyUnauthenticated, Results
<1>. QED
  BY <1>3, <1>4, <1>5, <1>6, <1>7, <1>8

\* A handler that goes on with a refresh; only the cache and the OP may change.
LEMMA MovedStep ==
    ASSUME IInv, NEW q \in Requests, handlers[q].pc # "idle",
           NEW pc \in {"waiting", "upstream", "arriving", "validateJwt"},
           NEW answer \in AnswersFor(handlers[q].session), Moved(q, pc, answer),
           pc \in {"waiting", "upstream"} => answer = NoAnswer,
           pc = "validateJwt" => answer.tokens # NoToken,
           UNCHANGED <<zones, loggedOut, provider, expired>>,
           cache' \in [Tokens -> Tokens \cup {NoToken}],
           \A key \in Tokens : cache'[key] \in TokensOf(key.owner) \cup {NoToken},
           issued' \in [Sessions -> 0 .. MaxGen],
           valid' \in [Sessions -> SUBSET (0 .. MaxGen)]
    PROVE  IInv'
<1>. PICK h : h = Serving(pc, handlers[q].kind, handlers[q].session,
                          handlers[q].refreshToken, answer)
  OBVIOUS
<1>1. /\ handlers[q].kind \in {"access", "proxy"} /\ handlers[q].session \in Sessions
      /\ handlers[q].refreshToken \in TokensOf(handlers[q].session)
      /\ q \in Refreshing(handlers[q].session)
  BY DEF IInv, HandlersShaped, Shaped, Refreshing
<1>2. h \in Handler /\ Shaped(h)
  BY <1>1, ServingShaped
<1>3. h.pc # "idle" /\ h.result = "none" /\ h.session = handlers[q].session
  BY DEF Serving, Record
<1>4. /\ handlers' \in [Requests -> Handler]
      /\ \A p \in Requests : handlers'[p].result = "none"
           <=> handlers'[p].pc # "idle" \/ handlers'[p].kind = "none"
      /\ HandlersShaped'
      /\ handlers'[q] = h
      /\ \A p \in Requests \ {q} : handlers'[p] = handlers[p]
  BY <1>2, <1>3, HandlerStep DEF Moved
<1>5. TypeOK'
  BY <1>4 DEF IInv, TypeOK, zones
<1>6. TokensOwned' /\ TokensOfOneSet'
  BY ZonesUntouched, ZonesKept DEF TokensOwned
<1>7. QuietMeansQuiet'
  BY <1>1, <1>3, <1>4, ZonesUntouched, QuietKept DEF ZonesDropped
<1>. QED
  BY <1>4, <1>5, <1>6, <1>7 DEF IInv

LEMMA SuccessIsAnswer ==
    ASSUME NEW s, NEW token \in TokensOf(s)
    PROVE  Success(token) \in AnswersFor(s) /\ Success(token).tokens = token
  BY DEF AnswersFor, Success

LEMMA PassStep ==
    ASSUME IInv, NEW q \in Requests, Pass(q)
    PROVE  IInv'
<1>. PICK s \in Sessions : s = handlers[q].session
  BY DEF Pass, CacheHit, Forward, ForwardAged, IInv, HandlersShaped, Shaped
<1>1. /\ handlers[q].pc = "waiting" /\ handlers[q].answer = NoAnswer
      /\ NoAnswer \in AnswersFor(s)
      /\ UNCHANGED <<zones, cache, op, loggedOut>>
  BY DEF Pass, CacheHit, Forward, ForwardAged, IInv, HandlersShaped, Shaped, AnswersFor
<1>2. /\ UNCHANGED <<zones, loggedOut, provider, expired>>
      /\ cache' \in [Tokens -> Tokens \cup {NoToken}]
      /\ \A key \in Tokens : cache'[key] \in TokensOf(key.owner) \cup {NoToken}
      /\ issued' \in [Sessions -> 0 .. MaxGen]
      /\ valid' \in [Sessions -> SUBSET (0 .. MaxGen)]
  BY <1>1 DEF IInv, TypeOK, TokensOwned, op
<1>3. CASE CacheHit(q)
  <2>. PICK token : token = cache[Key(q)]
    OBVIOUS
  <2>1. handlers[q].refreshToken \in TokensOf(s) /\ handlers[q].refreshToken \in Tokens
    BY <1>1, AnswersType DEF IInv, HandlersShaped, Shaped
  <2>2. token \in TokensOf(s) /\ token # NoToken
    BY <1>3, <2>1 DEF CacheHit, Key, CacheKey, IInv, TokensOwned, TokensOf
  <2>3. Success(token) \in AnswersFor(s) /\ Success(token).tokens # NoToken
    BY <2>2, SuccessIsAnswer
  <2>4. Moved(q, "validateJwt", Success(token))
    BY <1>1, <1>3, AnsweredAs DEF CacheHit
  <2>. QED
    BY <1>1, <1>2, <2>3, <2>4, MovedStep
<1>4. CASE Forward(q) \/ ForwardAged(q)
  <2>1. Moved(q, "upstream", NoAnswer)
    BY <1>1, <1>4, GoAs DEF Forward, ForwardAged
  <2>. QED
    BY <1>1, <1>2, <2>1, MovedStep
<1>. QED
  BY <1>3, <1>4 DEF Pass

LEMMA OPAnswerStep ==
    ASSUME IInv, NEW q \in Requests, OPAnswer(q)
    PROVE  IInv'
<1>1. handlers[q].pc = "upstream"
  BY DEF OPAnswer, OPIssue, OPRefuse, OPOutage
<1>. PICK s \in Sessions : s = handlers[q].session
  BY <1>1 DEF IInv, HandlersShaped, Shaped
<1>2. ASSUME NEW answer \in AnswersFor(s), Answered(q, answer),
             UNCHANGED <<zones, cache, provider, expired, loggedOut>>,
             issued' \in [Sessions -> 0 .. MaxGen],
             valid' \in [Sessions -> SUBSET (0 .. MaxGen)]
      PROVE  IInv'
  <2>1. Moved(q, "arriving", answer)
    BY <1>1, <1>2, AnsweredAs DEF Answered
  <2>2. /\ cache' \in [Tokens -> Tokens \cup {NoToken}]
        /\ \A key \in Tokens : cache'[key] \in TokensOf(key.owner) \cup {NoToken}
    BY <1>2 DEF IInv, TypeOK, TokensOwned
  <2>. QED
    BY <1>1, <1>2, <2>1, <2>2, MovedStep
<1>3. NoAnswer \in AnswersFor(s) /\ Refusal \in AnswersFor(s) /\ Outage \in AnswersFor(s)
  BY DEF AnswersFor
<1>4. CASE OPIssue(q)
  <2>. PICK token \in TokensOf(s) : token = handlers[q].refreshToken
    BY <1>1 DEF IInv, HandlersShaped, Shaped
  <2>1. token.owner = s /\ token.gen \in 0 .. MaxGen
    BY DEF TokensOf
  <2>2. /\ issued[s] \in 0 .. MaxGen /\ issued[s] < provider.bound
        /\ provider.bound \in 0 .. MaxGen
    BY <1>4, <2>1, OPsAssumption DEF OPIssue, IInv, TypeOK, OPKinds
  <2>. PICK next : next = issued[s] + 1
    OBVIOUS
  <2>3. next \in 0 .. MaxGen
    BY <2>2, MaxGenAssumption
  <2>. PICK new : new = [owner |-> s, gen |-> next]
    OBVIOUS
  <2>4. new \in TokensOf(s)
    BY <2>3 DEF TokensOf
  <2>5. issued' = [issued EXCEPT ![s] = next]
    BY <1>4, <2>1 DEF OPIssue
  <2>6. valid' = [valid EXCEPT ![s] =
                    IF ~provider.rotates THEN @
                    ELSE (IF provider.retires THEN @ \ {token.gen} ELSE @) \cup {next}]
    BY <1>4, <2>1 DEF OPIssue
  <2>7. issued' \in [Sessions -> 0 .. MaxGen]
    BY <2>3, <2>5 DEF IInv, TypeOK
  <2>8. valid' \in [Sessions -> SUBSET (0 .. MaxGen)]
    <3>. PICK gens : gens = IF ~provider.rotates THEN valid[s]
                            ELSE (IF provider.retires THEN valid[s] \ {token.gen}
                                  ELSE valid[s]) \cup {next}
      OBVIOUS
    <3>1. gens \in SUBSET (0 .. MaxGen)
      BY <2>3 DEF IInv, TypeOK
    <3>2. valid' = [valid EXCEPT ![s] = gens]
      BY <2>6
    <3>. QED
      BY <3>1, <3>2 DEF IInv, TypeOK
  <2>9. Answered(q, Success(new)) \/ Answered(q, NoAnswer)
    BY <1>4, <2>1 DEF OPIssue
  <2>10. Success(new) \in AnswersFor(s)
    BY <2>4, SuccessIsAnswer
  <2>11. UNCHANGED <<zones, cache, provider, expired, loggedOut>>
    BY <1>4 DEF OPIssue
  <2>. QED
    BY <1>2, <1>3, <2>7, <2>8, <2>9, <2>10, <2>11
<1>5. CASE OPRefuse(q) \/ OPOutage(q)
  <2>1. UNCHANGED <<zones, cache, op, loggedOut>>
    BY <1>5 DEF OPRefuse, OPOutage
  <2>2. /\ issued' \in [Sessions -> 0 .. MaxGen]
        /\ valid' \in [Sessions -> SUBSET (0 .. MaxGen)]
    BY <2>1 DEF IInv, TypeOK, op
  <2>. QED
    BY <1>2, <1>3, <1>5, <2>1, <2>2 DEF OPRefuse, OPOutage, op
<1>. QED
  BY <1>4, <1>5 DEF OPAnswer

LEMMA RefreshFailedStep ==
    ASSUME IInv, NEW q \in Requests, handlers[q].pc # "idle", NEW status,
           RefreshFailed(q, status)
    PROVE  IInv'
<1>. PICK s \in Sessions : s = handlers[q].session
  BY DEF IInv, HandlersShaped, Shaped
<1>. PICK kind \in {"access", "proxy"} : kind = handlers[q].kind
  BY DEF IInv, HandlersShaped, Shaped
<1>. PICK result : result = FailedResult(kind, status)
  OBVIOUS
<1>1. result \in Results \ {"none"}
  BY DEF FailedResult, Unauthenticated, Results
<1>. PICK h : h = Done(kind, s, result, NoSession)
  OBVIOUS
<1>2. handlers' = [handlers EXCEPT ![q] = h]
  BY EndedAs DEF RefreshFailed
<1>3. h \in Handler /\ Shaped(h)
  BY <1>1, DoneShaped
<1>4. h.pc = "idle" /\ h.kind # "none" /\ h.result # "none"
  BY <1>1 DEF Done, Record
<1>5. ZonesDropped
  BY DEF RefreshFailed, ZonesDropped, IInv, TypeOK
<1>. QED
  BY <1>2, <1>3, <1>4, <1>5, DropStep DEF RefreshFailed

LEMMA StoreTokensStep ==
    ASSUME IInv, NEW q \in Requests, StoreTokens(q)
    PROVE  IInv'
<1>1. handlers[q].pc = "validateJwt"
  BY DEF StoreTokens
<1>. PICK s \in Sessions : s = handlers[q].session
  BY <1>1 DEF IInv, HandlersShaped, Shaped
<1>. PICK token \in TokensOf(s) : token = handlers[q].answer.tokens
  BY <1>1, AnswerStatus DEF IInv, HandlersShaped, Shaped
<1>2. token \in Tokens /\ q \in Refreshing(s) /\ token # NoToken
  BY <1>1, AnswersType, NoTokenAssumption DEF Refreshing
<1>3. /\ accessTokens' = [accessTokens EXCEPT ![s] = token]
      /\ idTokens' = [idTokens EXCEPT ![s] = token]
      /\ refreshTokens' = [refreshTokens EXCEPT ![s] =
                             IF provider.rotates THEN token ELSE refreshTokens[s]]
      /\ UNCHANGED <<cache, op, loggedOut>>
  BY DEF StoreTokens, NewRefreshToken
<1>4. \E kind \in {"access", "proxy"}, result \in Results \ {"none"},
         claims \in {s, NoSession} :
        handlers' = [handlers EXCEPT ![q] = Done(kind, s, result, claims)]
  <2>1. CASE Authorized(q, s, token)
    <3>1. PICK result \in {"granted", "denied"} :
            handlers' = [handlers EXCEPT ![q] = Done("access", s, result, s)]
      BY <2>1, AuthorizedAs
    <3>2. result \in Results \ {"none"}
      BY DEF Results
    <3>. QED
      BY <3>1, <3>2
  <2>2. CASE Ended(q, "proxy", s, "proxied")
    BY <2>2, EndedAs DEF Results
  <2>. QED
    BY <2>1, <2>2 DEF StoreTokens
<1>. PICK h : /\ handlers' = [handlers EXCEPT ![q] = h]
              /\ h \in Handler /\ Shaped(h)
              /\ h.pc = "idle" /\ h.kind # "none" /\ h.result # "none"
  <2>. PICK kind \in {"access", "proxy"}, result \in Results \ {"none"},
            claims \in {s, NoSession} :
         handlers' = [handlers EXCEPT ![q] = Done(kind, s, result, claims)]
    BY <1>4
  <2>1. /\ Done(kind, s, result, claims).pc = "idle"
        /\ Done(kind, s, result, claims).kind = kind
        /\ Done(kind, s, result, claims).result = result
    BY DEF Done, Record
  <2>. QED
    BY <2>1, DoneShaped
<1>5. /\ handlers' \in [Requests -> Handler]
      /\ \A p \in Requests : handlers'[p].result = "none"
           <=> handlers'[p].pc # "idle" \/ handlers'[p].kind = "none"
      /\ HandlersShaped'
      /\ handlers'[q] = h
      /\ \A p \in Requests \ {q} : handlers'[p] = handlers[p]
  BY HandlerStep
<1>6. TypeOK'
  BY <1>2, <1>3, <1>5 DEF IInv, TypeOK, op
<1>7. TokensOwned' /\ TokensOfOneSet'
  BY <1>2, <1>3 DEF IInv, TypeOK, TokensOwned, TokensOfOneSet, op
<1>8. QuietMeansQuiet'
  <2>1. \A r \in Sessions : q \notin Refreshing(r) =>
          /\ idTokens'[r] \in {idTokens[r], NoToken}
          /\ accessTokens'[r] \in {accessTokens[r], NoToken}
          /\ refreshTokens'[r] \in {refreshTokens[r], NoToken}
    BY <1>2, <1>3 DEF IInv, TypeOK
  <2>. QED
    BY <1>3, <1>5, <2>1, QuietKept
<1>. QED
  BY <1>5, <1>6, <1>7, <1>8 DEF IInv

LEMMA ContinueStep ==
    ASSUME IInv, NEW q \in Requests, Continue(q)
    PROVE  IInv'
<1>1. CASE TokensArrive(q)
  <2>1. handlers[q].pc = "arriving"
    BY <1>1 DEF TokensArrive
  <2>. PICK s \in Sessions : s = handlers[q].session
    BY <2>1 DEF IInv, HandlersShaped, Shaped
  <2>2. /\ handlers[q].answer \in AnswersFor(s)
        /\ handlers[q].refreshToken \in TokensOf(s) /\ handlers[q].refreshToken \in Tokens
    BY <2>1, AnswersType DEF IInv, HandlersShaped, Shaped
  <2>. PICK token : token = handlers[q].answer.tokens
    OBVIOUS
  <2>3. token \in TokensOf(s) /\ token \in Tokens /\ token # NoToken
    BY <1>1, <2>2, AnswerStatus, AnswersType, NoTokenAssumption DEF TokensArrive
  <2>4. cache' = [cache EXCEPT ![handlers[q].refreshToken] = token]
    BY <1>1 DEF TokensArrive, Key, CacheKey
  <2>5. /\ cache' \in [Tokens -> Tokens \cup {NoToken}]
        /\ \A key \in Tokens : cache'[key] \in TokensOf(key.owner) \cup {NoToken}
    BY <2>2, <2>3, <2>4 DEF IInv, TypeOK, TokensOwned, TokensOf
  <2>6. Moved(q, "validateJwt", handlers[q].answer)
    BY <1>1, <2>1, GoAs DEF TokensArrive
  <2>7. /\ UNCHANGED <<zones, loggedOut, provider, expired>>
        /\ issued' \in [Sessions -> 0 .. MaxGen]
        /\ valid' \in [Sessions -> SUBSET (0 .. MaxGen)]
    BY <1>1 DEF TokensArrive, op, IInv, TypeOK
  <2>. QED
    BY <2>1, <2>2, <2>3, <2>5, <2>6, <2>7, MovedStep
<1>2. CASE TokensRefused(q) \/ IdTokenRejected(q)
  <2>1. \E status : RefreshFailed(q, status) /\ handlers[q].pc # "idle"
    BY <1>2 DEF TokensRefused, IdTokenRejected
  <2>. QED
    BY <2>1, RefreshFailedStep
<1>. QED
  BY <1>1, <1>2, StoreTokensStep DEF Continue

\* A logout, the OP's revocation, time.
LEMMA EnvironmentStep ==
    ASSUME IInv, NEW s \in Sessions,
           Logout(s) \/ OPRevoke(s) \/ IdTokenExpires(s) \/ ZoneTimeout(s)
    PROVE  IInv'
<1>1. UNCHANGED <<handlers, cache, provider>>
  BY DEF Logout, OPRevoke, IdTokenExpires, ZoneTimeout, op
<1>2. ZonesDropped
  BY DEF Logout, OPRevoke, IdTokenExpires, ZoneTimeout, IInv, TypeOK, zones, ZonesDropped
<1>3. /\ issued' \in [Sessions -> 0 .. MaxGen]
      /\ valid' \in [Sessions -> SUBSET (0 .. MaxGen)]
      /\ expired' \in [Sessions -> 0 .. MaxGen + 1]
      /\ loggedOut' \in [Sessions -> {"no", "quiet", "refreshing"}]
  <2>. USE DEF IInv, TypeOK, op
  <2>1. CASE Logout(s)
    BY <2>1 DEF Logout
  <2>2. CASE OPRevoke(s)
    BY <2>2 DEF OPRevoke
  <2>3. CASE IdTokenExpires(s)
    <3>1. expired[s] + 1 \in 0 .. MaxGen + 1
      BY <2>3, MaxGenAssumption DEF IdTokenExpires
    <3>. QED
      BY <2>3, <3>1 DEF IdTokenExpires
  <2>4. CASE ZoneTimeout(s)
    BY <2>4 DEF ZoneTimeout
  <2>. QED
    BY <2>1, <2>2, <2>3, <2>4
<1>4. TypeOK'
  BY <1>1, <1>2, <1>3 DEF IInv, TypeOK, ZonesDropped
<1>5. HandlersShaped'
  BY <1>1 DEF IInv, HandlersShaped
<1>6. TokensOwned' /\ TokensOfOneSet'
  BY <1>1, <1>2, ZonesKept DEF IInv, TokensOwned
<1>7. QuietMeansQuiet'
  <2>1. CASE UNCHANGED loggedOut
    BY <1>1, <1>2, <2>1 DEF IInv, QuietMeansQuiet, Refreshing, ZonesDropped
  <2>2. CASE Logout(s)
    <3>1. ASSUME NEW r \in Sessions, loggedOut'[r] = "quiet"
          PROVE  /\ idTokens'[r] = NoToken /\ accessTokens'[r] = NoToken
                 /\ refreshTokens'[r] = NoToken /\ Refreshing(r) = {}
      <4>1. CASE r = s
        BY <2>2, <3>1, <4>1 DEF Logout, IInv, TypeOK
      <4>2. CASE r # s
        BY <1>2, <2>2, <3>1, <4>2 DEF Logout, IInv, TypeOK, QuietMeansQuiet, ZonesDropped
      <4>. QED
        BY <4>1, <4>2
    <3>. QED
      BY <1>1, <3>1 DEF QuietMeansQuiet, Refreshing
  <2>. QED
    BY <2>1, <2>2 DEF OPRevoke, IdTokenExpires, ZoneTimeout
<1>. QED
  BY <1>4, <1>5, <1>6, <1>7 DEF IInv

LEMMA CacheExpiresStep ==
    ASSUME IInv, NEW key \in Tokens, CacheExpires(key)
    PROVE  IInv'
<1>1. ZonesDropped /\ UNCHANGED <<zones, handlers, op, loggedOut>>
  BY ZonesUntouched DEF CacheExpires
<1>2. cache' = [cache EXCEPT ![key] = NoToken]
  BY DEF CacheExpires
<1>3. TypeOK'
  BY <1>1, <1>2 DEF IInv, TypeOK, zones, op
<1>4. TokensOwned' /\ TokensOfOneSet'
  BY <1>1, <1>2, ZonesKept DEF IInv, TypeOK, TokensOwned, op
<1>5. HandlersShaped' /\ QuietMeansQuiet'
  BY <1>1 DEF IInv, HandlersShaped, QuietMeansQuiet, Refreshing, zones
<1>. QED
  BY <1>3, <1>4, <1>5 DEF IInv

\* Nothing happens.
LEMMA StutterStep == IInv /\ UNCHANGED vars => IInv'
<1>. SUFFICES ASSUME IInv, UNCHANGED vars PROVE IInv'
  OBVIOUS
<1>1. TypeOK' /\ HandlersShaped'
  BY DEF IInv, TypeOK, HandlersShaped, vars
<1>2. TokensOwned' /\ TokensOfOneSet' /\ QuietMeansQuiet'
  BY DEF IInv, TokensOwned, TokensOfOneSet, QuietMeansQuiet, Refreshing, vars
<1>. QED
  BY <1>1, <1>2 DEF IInv

LEMMA NextIInv == IInv /\ [Next]_vars => IInv'
<1>. SUFFICES ASSUME IInv, [Next]_vars PROVE IInv'
  OBVIOUS
<1>1. CASE \E q \in Requests : Request(q) \/ Pass(q) \/ OPAnswer(q) \/ Continue(q)
  BY <1>1, RequestStep, PassStep, OPAnswerStep, ContinueStep
<1>2. CASE \E s \in Sessions :
             Logout(s) \/ OPRevoke(s) \/ IdTokenExpires(s) \/ ZoneTimeout(s)
  BY <1>2, EnvironmentStep
<1>3. CASE \E key \in Tokens : CacheExpires(key)
  BY <1>3, CacheExpiresStep
<1>4. CASE UNCHANGED vars
  BY <1>4, StutterStep
<1>. QED
  BY <1>1, <1>2, <1>3, <1>4 DEF Next

\* IInv is an invariant: the theorems below follow from it.
LEMMA Invariant == Spec => []IInv
  BY InitIInv, NextIInv, PTL DEF Spec

-----------------------------------------------------------------------------
(* What the invariant says *)

\* The zones, the handlers, the cache and the OP's records have their types, and
\* every request that is not being served has ended with a result.
THEOREM TypeCorrect == Spec => []TypeOK
<1>1. IInv => TypeOK
  BY DEF IInv
<1>. QED
  BY <1>1, Invariant, PTL

\* Tokens never cross sessions: the zones hold for a session, its handlers carry and
\* its pages are told what belongs to its user, although one cache serves them all.
THEOREM NoCrossSessionHolds == Spec => []NoCrossSession
<1>1. IInv => NoCrossSession
  <2>. SUFFICES ASSUME IInv PROVE NoCrossSession
    OBVIOUS
  <2>1. ASSUME NEW s \in Sessions, NEW zone \in {idTokens, accessTokens, refreshTokens}
        PROVE  zone[s] # NoToken => zone[s].owner = s
    BY DEF IInv, TokensOwned, TokensOf
  <2>2. ASSUME NEW q \in Requests
        PROVE  /\ handlers[q].answer.tokens # NoToken
                    => handlers[q].answer.tokens.owner = handlers[q].session
               /\ handlers[q].claims \in {handlers[q].session, NoSession}
    <3>1. CASE handlers[q].pc = "idle"
      BY <3>1 DEF IInv, HandlersShaped, Shaped, NoAnswer
    <3>2. CASE handlers[q].pc # "idle"
      BY <3>2, AnswerStatus DEF IInv, HandlersShaped, Shaped, TokensOf
    <3>. QED
      BY <3>1, <3>2
  <2>. QED
    BY <2>1, <2>2 DEF NoCrossSession
<1>. QED
  BY <1>1, Invariant, PTL

\* The tokens of a session come from one token set, whichever refresh wins: refreshTokens
\* stores all of a set, and what clears a zone clears it whole.
THEOREM TokensOfOneSetHolds == Spec => []TokensOfOneSet
<1>1. IInv => TokensOfOneSet
  BY DEF IInv
<1>. QED
  BY <1>1, Invariant, PTL

\* A logout that no refresh overlaps is final.
THEOREM QuietLogoutSticksHolds == Spec => []QuietLogoutSticks
<1>1. IInv => QuietLogoutSticks
  BY DEF IInv, QuietMeansQuiet, QuietLogoutSticks
<1>. QED
  BY <1>1, Invariant, PTL

-----------------------------------------------------------------------------
(* What a step never does *)

\* Only its own steps change a handler.
LEMMA OwnStep ==
    ASSUME IInv, [Next]_vars, NEW q \in Requests, handlers'[q] # handlers[q]
    PROVE  Request(q) \/ Pass(q) \/ OPAnswer(q) \/ Continue(q)
<1>. SUFFICES ASSUME NEW p \in Requests, p # q,
                     Request(p) \/ Pass(p) \/ OPAnswer(p) \/ Continue(p)
              PROVE  handlers'[q] = handlers[q]
  BY DEF Next, vars, Logout, OPRevoke, IdTokenExpires, ZoneTimeout, CacheExpires
<1>1. ASSUME NEW h, handlers' = [handlers EXCEPT ![p] = h]
      PROVE  handlers'[q] = handlers[q]
  BY <1>1 DEF IInv, TypeOK
<1>2. CASE Request(p)
  BY <1>1, <1>2 DEF Request, AccessByToken, AccessRefresh, AccessUnauthenticated,
     ProxyByToken, ProxyRefresh, ProxyUnauthenticated, Authorized, RefreshStarted, Ended
<1>3. CASE Pass(p)
  BY <1>3 DEF Pass, CacheHit, Forward, ForwardAged, Go, IInv, TypeOK
<1>4. CASE OPAnswer(p)
  BY <1>4 DEF OPAnswer, OPIssue, OPRefuse, OPOutage, Answered, IInv, TypeOK
<1>5. CASE Continue(p)
  BY <1>1, <1>5 DEF Continue, TokensArrive, TokensRefused, IdTokenRejected, StoreTokens,
     RefreshFailed, Authorized, Ended, Go, IInv, TypeOK
<1>. QED
  BY <1>2, <1>3, <1>4, <1>5

\* How an ended handler looks, and one that goes on.
LEMMA EndedFields ==
    ASSUME IInv, NEW q \in Requests, NEW kind, NEW s, NEW result, NEW claims,
           handlers' = [handlers EXCEPT ![q] = Done(kind, s, result, claims)]
    PROVE  /\ handlers'[q].pc = "idle" /\ handlers'[q].kind = kind
           /\ handlers'[q].session = s /\ handlers'[q].result = result
  BY DEF IInv, TypeOK, Done, Record

LEMMA MovedFields ==
    ASSUME IInv, NEW q \in Requests, NEW pc, NEW answer, Moved(q, pc, answer)
    PROVE  /\ handlers'[q].pc = pc /\ handlers'[q].answer = answer
           /\ handlers'[q].session = handlers[q].session
           /\ handlers'[q].refreshToken = handlers[q].refreshToken
           /\ handlers'[q].result = "none"
  BY DEF IInv, TypeOK, Moved, Serving, Record

LEMMA StartedFields ==
    ASSUME IInv, NEW q \in Requests, NEW kind, NEW s, RefreshStarted(q, kind, s)
    PROVE  /\ handlers'[q].pc = "waiting" /\ handlers'[q].answer = NoAnswer
           /\ handlers'[q].session = s /\ handlers'[q].refreshToken = refreshTokens[s]
           /\ handlers'[q].result = "none"
  BY StartedAs DEF IInv, TypeOK, Serving, Record

\* The steps of the middle of a refresh leave the handler in it.
LEMMA MovesOn ==
    ASSUME IInv, NEW q \in Requests, Pass(q) \/ OPAnswer(q) \/ TokensArrive(q)
    PROVE  \E pc \in {"upstream", "arriving", "validateJwt"} : \E answer : Moved(q, pc, answer)
<1>1. CASE CacheHit(q)
  BY <1>1, AnsweredAs DEF CacheHit
<1>2. CASE Forward(q) \/ ForwardAged(q)
  BY <1>2, GoAs DEF Forward, ForwardAged
<1>3. CASE OPAnswer(q)
  <2>1. handlers[q].pc = "upstream"
    BY <1>3 DEF OPAnswer, OPIssue, OPRefuse, OPOutage
  <2>2. \E answer : Answered(q, answer)
    BY <1>3 DEF OPAnswer, OPIssue, OPRefuse, OPOutage
  <2>. QED
    BY <2>1, <2>2, AnsweredAs DEF Answered
<1>4. CASE TokensArrive(q)
  BY <1>4, GoAs DEF TokensArrive
<1>. QED
  BY <1>1, <1>2, <1>3, <1>4 DEF Pass

\* Whoever is let in as a user is let in on an ID token of the session that has not
\* expired, whether it is stored, new or out of the cache.
THEOREM GrantedOnFreshTokenHolds == Spec => GrantedOnFreshToken
<1>1. ASSUME IInv, [Next]_vars, NEW q \in Requests,
             handlers'[q] # handlers[q], handlers'[q].result = "granted"
      PROVE  LET token == idTokens'[handlers'[q].session]
             IN  token # NoToken /\ token.gen >= expired[token.owner]
  <2>1. CASE Request(q)
    <3>. PICK s \in Sessions :
           \/ AccessByToken(q, s) \/ AccessRefresh(q, s) \/ AccessUnauthenticated(q, s)
           \/ ProxyByToken(q, s) \/ ProxyRefresh(q, s) \/ ProxyUnauthenticated(q, s)
      BY <2>1 DEF Request
    <3>1. AccessByToken(q, s)
      <4>1. ~AccessRefresh(q, s) /\ ~ProxyRefresh(q, s)
        BY <1>1, StartedFields DEF AccessRefresh, ProxyRefresh
      <4>2. ~AccessUnauthenticated(q, s) /\ ~ProxyByToken(q, s) /\ ~ProxyUnauthenticated(q, s)
        BY <1>1, EndedAs, EndedFields DEF AccessUnauthenticated, ProxyByToken,
           ProxyUnauthenticated, Unauthenticated
      <4>. QED
        BY <4>1, <4>2
    <3>2. idTokens[s] \in TokensOf(s) /\ idTokens[s] # NoToken /\ Fresh(idTokens[s])
      BY <1>1, <3>1 DEF AccessByToken, SignedIn, IInv, TokensOwned
    <3>3. handlers'[q].session = s
      <4>1. Authorized(q, s, idTokens[s])
        BY <3>1 DEF AccessByToken
      <4>. PICK result : handlers' = [handlers EXCEPT ![q] = Done("access", s, result, s)]
        BY <3>2, <4>1, AuthorizedAs
      <4>. QED
        BY <1>1 DEF IInv, TypeOK, Done, Record
    <3>. QED
      BY <3>1, <3>2, <3>3 DEF AccessByToken, zones, Fresh
  <2>2. CASE Pass(q) \/ OPAnswer(q) \/ TokensArrive(q)
    BY <1>1, <2>2, MovesOn, MovedFields
  <2>3. CASE TokensRefused(q) \/ IdTokenRejected(q)
    BY <1>1, <2>3, EndedAs, EndedFields DEF TokensRefused, IdTokenRejected, RefreshFailed,
       FailedResult, Unauthenticated
  <2>4. CASE StoreTokens(q)
    <3>1. handlers[q].pc = "validateJwt"
      BY <2>4 DEF StoreTokens
    <3>. PICK s \in Sessions : s = handlers[q].session
      BY <1>1, <3>1 DEF IInv, HandlersShaped, Shaped
    <3>. PICK token \in TokensOf(s) : token = handlers[q].answer.tokens
      BY <1>1, <3>1, AnswerStatus DEF IInv, HandlersShaped, Shaped
    <3>2. token # NoToken
      BY AnswersType, NoTokenAssumption
    <3>3. Fresh(token)
      BY <2>4 DEF StoreTokens, IdTokenStatuses, Proceed
    <3>4. idTokens'[s] = token
      BY <1>1, <2>4 DEF StoreTokens, IInv, TypeOK
    <3>5. handlers'[q].session = s
      <4>1. CASE Authorized(q, s, token)
        BY <1>1, <4>1, AuthorizedAs, EndedFields
      <4>2. CASE Ended(q, "proxy", s, "proxied")
        BY <1>1, <4>2, EndedAs, EndedFields
      <4>. QED
        BY <2>4, <4>1, <4>2 DEF StoreTokens
    <3>. QED
      BY <3>2, <3>3, <3>4, <3>5 DEF Fresh
  <2>. QED
    BY <1>1, <2>1, <2>2, <2>3, <2>4, OwnStep DEF Continue
<1>2. IInv /\ [Next]_vars => [\A q \in Requests :
        handlers'[q] # handlers[q] /\ handlers'[q].result = "granted"
          => LET token == idTokens'[handlers'[q].session]
             IN  token # NoToken /\ token.gen >= expired[token.owner]]_vars
  BY <1>1
<1>. QED
  BY <1>2, Invariant, PTL DEF Spec, GrantedOnFreshToken

\* A refresh token that the OP no longer takes costs the user of a page a login, or
\* nothing where ANONYMOUS may in, and is gone afterwards.
THEOREM DeadTokenMeansLoginHolds == Spec => DeadTokenMeansLogin
<1>1. ASSUME IInv, [Next]_vars, NEW q \in Requests,
             handlers[q].pc = "arriving", handlers'[q].pc = "idle",
             handlers[q].answer.body = "invalid_grant"
      PROVE  /\ refreshTokens'[handlers[q].session] = NoToken
             /\ handlers[q].kind = "access" => handlers'[q].result = Unauthenticated
  <2>1. ~Request(q) /\ ~IdTokenRejected(q) /\ ~StoreTokens(q)
    BY <1>1 DEF Request, AccessByToken, AccessRefresh, AccessUnauthenticated, ProxyByToken,
       ProxyRefresh, ProxyUnauthenticated, IdTokenRejected, StoreTokens
  <2>2. ~Pass(q) /\ ~OPAnswer(q) /\ ~TokensArrive(q)
    BY <1>1, MovesOn, MovedFields
  <2>3. TokensRefused(q)
    BY <1>1, <2>1, <2>2, OwnStep DEF Continue
  <2>. PICK s \in Sessions : s = handlers[q].session
    BY <1>1 DEF IInv, HandlersShaped, Shaped
  <2>4. RequestTokenStatus(handlers[q].answer) = 401
    BY <1>1, AnswerStatus DEF IInv, HandlersShaped, Shaped
  <2>5. RefreshFailed(q, 401)
    BY <2>3, <2>4 DEF TokensRefused
  <2>6. refreshTokens'[s] = NoToken
    BY <1>1, <2>5 DEF RefreshFailed, ClearsRefreshToken, IInv, TypeOK
  <2>7. handlers'[q].result = FailedResult(handlers[q].kind, 401)
    BY <1>1, <2>5, EndedAs, EndedFields DEF RefreshFailed
  <2>. QED
    BY <2>6, <2>7 DEF FailedResult
<1>2. IInv /\ [Next]_vars => [\A q \in Requests :
        LET s == handlers[q].session
        IN  /\ handlers[q].pc = "arriving" /\ handlers'[q].pc = "idle"
            /\ handlers[q].answer.body = "invalid_grant"
            => /\ refreshTokens'[s] = NoToken
               /\ handlers[q].kind = "access" => handlers'[q].result = Unauthenticated]_vars
  BY <1>1
<1>. QED
  BY <1>2, Invariant, PTL DEF Spec, DeadTokenMeansLogin

-----------------------------------------------------------------------------
(* Who stays signed in *)

\* The hypotheses: an OP that retires used refresh tokens answers in time and loses no
\* answer, and nothing fails but the OP.
RetiringOPsAnswer == \A o \in OPs : o.retires => ~o.slow /\ ~o.loses
OnlyOutages == Faults \subseteq {"outage"}

\* What the handlers of a session carry, and the cache has for it.
Held(s, token) ==
    \/ \E q \in Refreshing(s) : handlers[q].answer.tokens = token
    \/ \E key \in TokensOf(s) : cache[key] = token

\* What is held has not expired: it would not have outlasted the cache.
HeldIsFresh(s) ==
    /\ expired[s] <= issued[s] + 1
    /\ \A token \in TokensOf(s) : Held(s, token) => token.gen >= expired[s]

\* The cache keeps an answer as long as a handler has it validated.
CachedMeanwhile(s) == \A q \in Refreshing(s) :
    handlers[q].pc = "validateJwt" => cache[handlers[q].refreshToken] # NoToken

\* One request at a time is on its way to the OP with a refresh token.
OneAtATime(s) == \A p, q \in Refreshing(s) :
    /\ handlers[p].pc \in {"upstream", "arriving"}
    /\ handlers[q].pc \in {"upstream", "arriving"}
    /\ handlers[p].refreshToken = handlers[q].refreshToken
    => p = q

\* A session that has not been logged out and that the OP has not revoked.
Alive(s) == loggedOut[s] = "no" /\ valid[s] # {}

\* An OP that retires no refresh token accepts each one that is stored, in use, or
\* on its way to the store.
AllAccepted(s) ==
    /\ refreshTokens[s] # NoToken /\ refreshTokens[s].gen \in valid[s]
    /\ \A q \in Refreshing(s) :
         /\ handlers[q].refreshToken.gen \in valid[s]
         /\ handlers[q].answer # Refusal
    /\ \A token \in TokensOf(s) : provider.rotates /\ Held(s, token) => token.gen \in valid[s]

\* The last token set the OP has issued to a session, and the refresh token that
\* was used for it.
Current(s) == [owner |-> s, gen |-> issued[s]]
Used(s, token) == token.gen = issued[s] - 1

\* A handler of session s is on its way to the OP with the current refresh token, or
\* carries the current token set, or waits for it to come out of the cache.
OnItsWay(q, s) ==
    handlers[q].refreshToken = Current(s) /\ handlers[q].answer.tokens = NoToken
CarriesCurrent(q, s) ==
    Used(s, handlers[q].refreshToken) /\ handlers[q].answer.tokens = Current(s)
WaitsForCurrent(q, s) ==
    /\ handlers[q].pc = "waiting"
    /\ Used(s, handlers[q].refreshToken)
    /\ \/ cache[handlers[q].refreshToken] # NoToken
       \/ \E p \in Refreshing(s) : handlers[p].pc = "arriving" /\ CarriesCurrent(p, s)

\* What the session has needs to be renewed, or is being renewed.
Renewing(s) ==
    \/ \E q \in Refreshing(s) : handlers[q].refreshToken = Current(s)
    \/ /\ refreshTokens[s] = Current(s)
       /\ \/ idTokens[s] # Current(s) \/ accessTokens[s] # Current(s)
          \/ expired[s] > issued[s]

\* An OP that retires the refresh token it is shown accepts the current one only.
\* The zone has it, or a handler carries it there; and before a session uses it,
\* nobody has anything of that token set in hand any more.
OneAccepted(s) ==
    /\ valid[s] = {issued[s]}
    /\ refreshTokens[s] # NoToken
    /\ \/ refreshTokens[s] = Current(s)
       \/ Used(s, refreshTokens[s]) /\ \E q \in Refreshing(s) : CarriesCurrent(q, s)
    /\ idTokens[s] \in {refreshTokens[s], NoToken}
    /\ accessTokens[s] \in {refreshTokens[s], NoToken}
    /\ \A key \in TokensOf(s) : cache[key] # NoToken =>
         Used(s, key) /\ cache[key] = Current(s)
    /\ \A q \in Refreshing(s) :
         /\ OnItsWay(q, s) \/ CarriesCurrent(q, s) \/ WaitsForCurrent(q, s)
         /\ handlers[q].answer # Refusal
    /\ Renewing(s) => ~Held(s, Current(s))

Lasting(s) ==
    /\ HeldIsFresh(s)
    /\ CachedMeanwhile(s)
    /\ ~provider.slow => OneAtATime(s)
    /\ Alive(s) => IF provider.retires THEN OneAccepted(s) ELSE AllAccepted(s)
SurvivalInv == \A s \in Sessions : Lasting(s)

\* At first every session has the token set of its callback, and nobody refreshes it.
LEMMA InitSurvival == Init => SurvivalInv
<1>. SUFFICES ASSUME Init, NEW s \in Sessions PROVE Lasting(s)
  BY DEF SurvivalInv
<1>1. /\ Refreshing(s) = {}
      /\ \A key \in TokensOf(s) : cache[key] = NoToken
      /\ \A token \in TokensOf(s) : ~Held(s, token)
  <2>1. Refreshing(s) = {}
    BY DEF Refreshing, Init, IdleHandler
  <2>2. \A key \in TokensOf(s) : cache[key] = NoToken
    BY AnswersType DEF Init
  <2>. QED
    BY <2>1, <2>2, AnswersType, NoTokenAssumption DEF Held
<1>2. /\ idTokens[s] = Current(s) /\ accessTokens[s] = Current(s)
      /\ refreshTokens[s] \in {Current(s), NoToken}
      /\ issued[s] = 0 /\ expired[s] = 0
      /\ valid[s] = IF refreshTokens[s] = NoToken THEN {} ELSE {0}
      /\ Current(s).gen = 0 /\ Current(s) \in TokensOf(s)
  BY MaxGenAssumption DEF Init, FirstTokens, Current, TokensOf
<1>3. HeldIsFresh(s) /\ CachedMeanwhile(s) /\ OneAtATime(s)
  BY <1>1, <1>2 DEF HeldIsFresh, CachedMeanwhile, OneAtATime
<1>4. Alive(s) => AllAccepted(s)
  BY <1>1, <1>2 DEF Alive, AllAccepted
<1>5. Alive(s) => OneAccepted(s)
  BY <1>1, <1>2 DEF Alive, OneAccepted, Renewing
<1>. QED
  BY <1>3, <1>4, <1>5 DEF Lasting

\* A session that a step does not concern stays as it is.
Untouched(s) ==
    /\ idTokens'[s] = idTokens[s] /\ accessTokens'[s] = accessTokens[s]
    /\ refreshTokens'[s] = refreshTokens[s]
    /\ issued'[s] = issued[s] /\ valid'[s] = valid[s] /\ expired'[s] = expired[s]
    /\ loggedOut'[s] = loggedOut[s]
    /\ provider' = provider
    /\ \A key \in TokensOf(s) : cache'[key] = cache[key]
    /\ Refreshing(s)' = Refreshing(s)
    /\ \A q \in Refreshing(s) : handlers'[q] = handlers[q]

\* What a step does to other sessions does not matter to this one.
LEMMA Frame ==
    ASSUME IInv, NEW s \in Sessions, Lasting(s), Untouched(s)
    PROVE  Lasting(s)'
<1>. USE DEF Untouched
<1>1. Current(s)' = Current(s)
  BY DEF Current
<1>2. \A q \in Refreshing(s) : handlers[q].refreshToken \in TokensOf(s)
  BY DEF IInv, HandlersShaped, Shaped, Refreshing
<1>3. \A token : Held(s, token)' <=> Held(s, token)
  BY DEF Held
<1>4. HeldIsFresh(s)'
  BY <1>3 DEF Lasting, HeldIsFresh
<1>5. CachedMeanwhile(s)'
  BY <1>2 DEF Lasting, CachedMeanwhile
<1>6. ~provider'.slow => OneAtATime(s)'
  BY DEF Lasting, OneAtATime
<1>7. AllAccepted(s) => AllAccepted(s)'
  BY <1>3 DEF AllAccepted
<1>8. OneAccepted(s) => OneAccepted(s)'
  <2>1. \A q \in Refreshing(s) : /\ OnItsWay(q, s)' <=> OnItsWay(q, s)
                                 /\ CarriesCurrent(q, s)' <=> CarriesCurrent(q, s)
    BY <1>1 DEF OnItsWay, CarriesCurrent, Used
  <2>2. \A q \in Refreshing(s) : WaitsForCurrent(q, s)' <=> WaitsForCurrent(q, s)
    BY <1>2, <2>1 DEF WaitsForCurrent, Used
  <2>3. Renewing(s)' <=> Renewing(s)
    BY <1>1 DEF Renewing
  <2>. QED
    BY <1>1, <1>3, <2>1, <2>2, <2>3 DEF OneAccepted, Used
<1>9. Alive(s)' <=> Alive(s)
  BY DEF Alive
<1>. QED
  BY <1>4, <1>5, <1>6, <1>7, <1>8, <1>9 DEF Lasting

\* A step of a handler of session s concerns no other session.
LEMMA OthersRefreshing ==
    ASSUME IInv, NEW q \in Requests, NEW s \in Sessions, NEW r \in Sessions \ {s},
           \A p \in Requests \ {q} : handlers'[p] = handlers[p],
           handlers[q].pc = "idle" \/ handlers[q].session = s,
           handlers'[q].pc = "idle" \/ handlers'[q].session = s
    PROVE  /\ Refreshing(r)' = Refreshing(r)
           /\ \A p \in Refreshing(r) : handlers'[p] = handlers[p]
  BY DEF Refreshing

\* What a handler in a refresh is like.
LEMMA RefreshingShape ==
    ASSUME IInv, NEW s \in Sessions, NEW q \in Refreshing(s)
    PROVE  /\ q \in Requests /\ handlers[q].session = s
           /\ handlers[q].refreshToken \in TokensOf(s)
           /\ handlers[q].answer \in AnswersFor(s)
           /\ handlers[q].pc \in {"waiting", "upstream", "arriving", "validateJwt"}
           /\ handlers[q].pc \in {"waiting", "upstream"} => handlers[q].answer = NoAnswer
           /\ handlers[q].pc = "validateJwt" => handlers[q].answer.tokens # NoToken
           /\ handlers[q].answer.tokens # NoToken => handlers[q].answer.tokens \in TokensOf(s)
<1>1. /\ q \in Requests /\ handlers[q].session = s
      /\ handlers[q].refreshToken \in TokensOf(s)
      /\ handlers[q].answer \in AnswersFor(s)
      /\ handlers[q].pc \in {"waiting", "upstream", "arriving", "validateJwt"}
      /\ handlers[q].pc \in {"waiting", "upstream"} => handlers[q].answer = NoAnswer
      /\ handlers[q].pc = "validateJwt" => handlers[q].answer.tokens # NoToken
  BY DEF IInv, TypeOK, Handler, HandlersShaped, Shaped, Refreshing
<1>. QED
  BY <1>1, AnswerStatus

LEMMA TokenFacts ==
    ASSUME NEW s \in Sessions
    PROVE  /\ NoToken \notin TokensOf(s) /\ NoAnswer.tokens = NoToken
           /\ NoAnswer # Refusal
           /\ \A token \in TokensOf(s) : token = [owner |-> s, gen |-> token.gen]
           /\ \A token \in TokensOf(s) : token.gen \in 0 .. MaxGen
           /\ \A a, b \in TokensOf(s) : a.gen = b.gen => a = b
<1>1. \A token \in TokensOf(s) : token = [owner |-> s, gen |-> token.gen]
                                   /\ token.gen \in 0 .. MaxGen
  BY DEF TokensOf
<1>. QED
  BY <1>1, AnswersType, NoTokenAssumption DEF NoAnswer, Refusal

LEMMA CurrentToken ==
    ASSUME IInv, NEW s \in Sessions
    PROVE  /\ Current(s) \in TokensOf(s) /\ Current(s) # NoToken
           /\ Current(s).gen = issued[s]
           /\ issued[s] \in 0 .. MaxGen /\ expired[s] \in 0 .. MaxGen + 1
           /\ \A token \in TokensOf(s) : Used(s, token) => token # Current(s)
<1>1. issued[s] \in 0 .. MaxGen /\ expired[s] \in 0 .. MaxGen + 1
  BY DEF IInv, TypeOK
<1>2. Current(s) \in TokensOf(s) /\ Current(s).gen = issued[s]
  BY <1>1 DEF Current, TokensOf
<1>. QED
  BY <1>1, <1>2, TokenFacts, MaxGenAssumption DEF Used

\* A request ends where it came: no refresh takes notice.
LEMMA IdleEndLasts ==
    ASSUME IInv, NEW q \in Requests, NEW s \in Sessions, Lasting(s),
           AccessByToken(q, s) \/ AccessUnauthenticated(q, s)
             \/ ProxyByToken(q, s) \/ ProxyUnauthenticated(q, s),
           NEW r \in Sessions, Lasting(r)
    PROVE  Lasting(r)'
<1>1. /\ handlers[q].pc = "idle" /\ handlers'[q].pc = "idle"
      /\ \A p \in Requests \ {q} : handlers'[p] = handlers[p]
  <2>1. CASE AccessByToken(q, s)
    <3>1. idTokens[s] \in TokensOf(s) /\ Authorized(q, s, idTokens[s])
      BY <2>1 DEF AccessByToken, SignedIn, IInv, TokensOwned
    <3>. PICK result : handlers' = [handlers EXCEPT ![q] = Done("access", s, result, s)]
      BY <3>1, AuthorizedAs
    <3>. QED
      BY <2>1 DEF AccessByToken, IInv, TypeOK, Done, Record
  <2>2. CASE \E kind, result : Ended(q, kind, s, result) /\ handlers[q].pc = "idle"
    <3>. PICK kind, result : handlers' = [handlers EXCEPT ![q] = Done(kind, s, result, NoSession)]
      BY <2>2, EndedAs
    <3>. QED
      BY <2>2 DEF IInv, TypeOK, Done, Record
  <2>. QED
    BY <2>1, <2>2 DEF AccessUnauthenticated, ProxyByToken, ProxyUnauthenticated
<1>2. /\ Refreshing(r)' = Refreshing(r)
      /\ \A p \in Refreshing(r) : handlers'[p] = handlers[p]
  BY <1>1 DEF Refreshing
<1>3. /\ UNCHANGED <<accessTokens, refreshTokens, cache, op, loggedOut>>
      /\ idTokens'[r] = idTokens[r] \/ (r = s /\ refreshTokens[s] = NoToken)
  BY DEF AccessByToken, AccessUnauthenticated, ProxyByToken, ProxyUnauthenticated, zones,
     IInv, TypeOK
<1>4. CASE idTokens'[r] = idTokens[r]
  BY <1>2, <1>3, <1>4, Frame DEF Untouched, op
<1>5. CASE r = s /\ refreshTokens[s] = NoToken
  <2>1. ~Alive(s)
    BY <1>5 DEF Lasting, OneAccepted, AllAccepted
  <2>2. ~Alive(s)'
    BY <1>3, <2>1 DEF Alive, op
  <2>3. \A token : Held(s, token)' <=> Held(s, token)
    BY <1>2, <1>3, <1>5 DEF Held
  <2>4. HeldIsFresh(s)'
    BY <1>3, <2>3 DEF Lasting, HeldIsFresh, op
  <2>5. CachedMeanwhile(s)' /\ (~provider'.slow => OneAtATime(s)')
    BY <1>2, <1>3, <1>5 DEF Lasting, CachedMeanwhile, OneAtATime, op
  <2>. QED
    BY <1>5, <2>2, <2>4, <2>5 DEF Lasting
<1>. QED
  BY <1>3, <1>4, <1>5

\* A request begins to refresh the tokens of its session.
LEMMA StartLasts ==
    ASSUME IInv, NEW q \in Requests, NEW s \in Sessions, Lasting(s),
           AccessRefresh(q, s) \/ ProxyRefresh(q, s)
    PROVE  Lasting(s)'
<1>. PICK kind : RefreshStarted(q, kind, s) /\ handlers[q].pc = "idle"
  BY DEF AccessRefresh, ProxyRefresh
<1>1. /\ handlers'[q].pc = "waiting" /\ handlers'[q].answer = NoAnswer
      /\ handlers'[q].session = s /\ handlers'[q].refreshToken = refreshTokens[s]
      /\ \A p \in Requests \ {q} : handlers'[p] = handlers[p]
  <2>1. \A p \in Requests \ {q} : handlers'[p] = handlers[p]
    BY StartedAs DEF IInv, TypeOK
  <2>. QED
    BY <2>1, StartedFields
<1>2. /\ q \notin Refreshing(s)
      /\ Refreshing(s)' = Refreshing(s) \cup {q}
      /\ \A p \in Refreshing(s) : handlers'[p] = handlers[p] /\ p # q
  BY <1>1 DEF Refreshing
<1>3. /\ UNCHANGED <<accessTokens, refreshTokens, cache, op, loggedOut>>
      /\ idTokens'[s] \in {idTokens[s], NoToken}
      /\ refreshTokens[s] \in TokensOf(s)
      /\ \/ accessTokens[s] = NoToken
         \/ idTokens[s] = NoToken
         \/ expired[s] > idTokens[s].gen
  <2>1. /\ idTokens[s] \in TokensOf(s) \cup {NoToken}
        /\ refreshTokens[s] \in TokensOf(s) \cup {NoToken}
        /\ expired[s] \in 0 .. MaxGen + 1
    BY DEF IInv, TokensOwned, TypeOK
  <2>2. idTokens[s] \in TokensOf(s) =>
          idTokens[s].owner = s /\ idTokens[s].gen \in 0 .. MaxGen
    BY DEF TokensOf
  <2>. QED
    BY <2>1, <2>2, MaxGenAssumption
       DEF AccessRefresh, ProxyRefresh, zones, IInv, TypeOK, SignedIn, Fresh
<1>4. \A token \in TokensOf(s) : Held(s, token)' <=> Held(s, token)
  BY <1>1, <1>2, <1>3, TokenFacts DEF Held
<1>5. HeldIsFresh(s)'
  BY <1>3, <1>4 DEF Lasting, HeldIsFresh, op
<1>6. CachedMeanwhile(s)' /\ (~provider'.slow => OneAtATime(s)')
  BY <1>1, <1>2, <1>3 DEF Lasting, CachedMeanwhile, OneAtATime, op
<1>7. AllAccepted(s) => AllAccepted(s)'
  BY <1>1, <1>2, <1>3, <1>4, TokenFacts DEF AllAccepted, op
<1>8. ASSUME OneAccepted(s) PROVE OneAccepted(s)'
  <2>1. Current(s)' = Current(s)
    BY <1>3 DEF Current, op
  <2>2. \A p \in Refreshing(s) :
          /\ OnItsWay(p, s) => OnItsWay(p, s)'
          /\ CarriesCurrent(p, s) => CarriesCurrent(p, s)'
    BY <1>2, <1>3, <2>1 DEF OnItsWay, CarriesCurrent, Used, op
  <2>3. \A p \in Refreshing(s) : WaitsForCurrent(p, s) => WaitsForCurrent(p, s)'
    BY <1>2, <1>3, <2>2 DEF WaitsForCurrent, Used, op
  <2>4. OnItsWay(q, s)' \/ WaitsForCurrent(q, s)'
    <3>1. CASE refreshTokens[s] = Current(s)
      BY <1>1, <2>1, <3>1, TokenFacts DEF OnItsWay
    <3>2. CASE refreshTokens[s] # Current(s)
      <4>. PICK p \in Refreshing(s) : CarriesCurrent(p, s) /\ Used(s, refreshTokens[s])
        BY <1>8, <3>2 DEF OneAccepted
      <4>1. /\ handlers[p].refreshToken \in TokensOf(s)
            /\ handlers[p].pc \in {"arriving", "validateJwt"}
        BY RefreshingShape, CurrentToken, TokenFacts DEF CarriesCurrent
      <4>2. handlers[p].refreshToken = refreshTokens[s]
        BY <1>3, <4>1, TokenFacts DEF CarriesCurrent, Used
      <4>3. CASE handlers[p].pc = "arriving"
        BY <1>1, <1>2, <1>3, <2>2, <4>3 DEF WaitsForCurrent, Used, op
      <4>4. CASE handlers[p].pc = "validateJwt"
        BY <1>1, <1>3, <4>2, <4>4 DEF WaitsForCurrent, Used, op, Lasting, CachedMeanwhile
      <4>. QED
        BY <4>1, <4>3, <4>4
    <3>. QED
      BY <3>1, <3>2
  <2>5. Renewing(s)' => Renewing(s)
    <3>1. refreshTokens[s] = Current(s) => Renewing(s)
      BY <1>3, <1>8, CurrentToken DEF OneAccepted, Renewing
    <3>. QED
      BY <1>1, <1>2, <1>3, <2>1, <3>1 DEF Renewing, op
  <2>6. /\ \A p \in Refreshing(s)' : handlers'[p].answer # Refusal
        /\ \A p \in Refreshing(s)' :
             OnItsWay(p, s)' \/ CarriesCurrent(p, s)' \/ WaitsForCurrent(p, s)'
    BY <1>1, <1>2, <1>8, <2>2, <2>3, <2>4, TokenFacts DEF OneAccepted
  <2>7. Renewing(s)' => ~Held(s, Current(s))'
    BY <1>4, <1>8, <2>1, <2>5, CurrentToken DEF OneAccepted
  <2>. QED
    BY <1>2, <1>3, <1>8, <2>1, <2>2, <2>6, <2>7 DEF OneAccepted, Used, op
<1>9. Alive(s)' => Alive(s)
  BY <1>3 DEF Alive, op
<1>. QED
  BY <1>3, <1>5, <1>6, <1>7, <1>8, <1>9 DEF Lasting, op

\* A handler that goes on with its refresh.
LEMMA MovedView ==
    ASSUME IInv, NEW q \in Requests, NEW s \in Sessions,
           handlers[q].pc # "idle", handlers[q].session = s,
           NEW pc \in {"waiting", "upstream", "arriving", "validateJwt"}, NEW answer,
           Moved(q, pc, answer)
    PROVE  /\ q \in Refreshing(s) /\ Refreshing(s)' = Refreshing(s)
           /\ handlers'[q].pc = pc /\ handlers'[q].answer = answer
           /\ handlers'[q].session = s
           /\ handlers'[q].refreshToken = handlers[q].refreshToken
           /\ \A p \in Requests \ {q} : handlers'[p] = handlers[p]
           /\ Refreshing(s) \subseteq Requests
<1>1. /\ handlers'[q].pc = pc /\ handlers'[q].answer = answer
      /\ handlers'[q].session = s
      /\ handlers'[q].refreshToken = handlers[q].refreshToken
  BY MovedFields
<1>2. \A p \in Requests \ {q} : handlers'[p] = handlers[p]
  BY DEF Moved, IInv, TypeOK
<1>. QED
  BY <1>1, <1>2 DEF Refreshing

\* It goes to the OP: nobody was there with its refresh token.
LEMMA ForwardLasts ==
    ASSUME IInv, NEW q \in Requests, NEW s \in Sessions, handlers[q].session = s,
           Lasting(s), Forward(q) \/ ForwardAged(q), provider.retires => ~provider.slow
    PROVE  Lasting(s)'
<1>1. /\ handlers[q].pc = "waiting" /\ handlers[q].answer = NoAnswer
      /\ cache[handlers[q].refreshToken] = NoToken
      /\ UNCHANGED <<zones, cache, op, loggedOut>>
  BY DEF Forward, ForwardAged, Key, CacheKey, IInv, HandlersShaped, Shaped
<1>2. Moved(q, "upstream", NoAnswer)
  BY <1>1, GoAs DEF Forward, ForwardAged
<1>3. /\ q \in Refreshing(s) /\ Refreshing(s)' = Refreshing(s)
      /\ handlers'[q].pc = "upstream" /\ handlers'[q].answer = NoAnswer
      /\ handlers'[q].refreshToken = handlers[q].refreshToken
      /\ \A p \in Refreshing(s) \ {q} : handlers'[p] = handlers[p]
      /\ Refreshing(s) \subseteq Requests
  BY <1>1, <1>2, MovedView
<1>4. ~provider.slow => \A p \in Refreshing(s) :
        handlers[p].pc \in {"upstream", "arriving"}
          => handlers[p].refreshToken # handlers[q].refreshToken
  BY <1>3 DEF Forward, ForwardAged, Locked, Key, CacheKey
<1>5. \A token \in TokensOf(s) : Held(s, token)' <=> Held(s, token)
  BY <1>1, <1>3 DEF Held
<1>6. HeldIsFresh(s)'
  BY <1>1, <1>5 DEF Lasting, HeldIsFresh, op
<1>7. CachedMeanwhile(s)'
  BY <1>1, <1>3 DEF Lasting, CachedMeanwhile
<1>8. ~provider'.slow => OneAtATime(s)'
  BY <1>1, <1>3, <1>4 DEF Lasting, OneAtATime, op
<1>9. AllAccepted(s) => AllAccepted(s)'
  BY <1>1, <1>3, <1>5, TokenFacts DEF AllAccepted, op, zones
<1>10. ASSUME OneAccepted(s), ~provider.slow PROVE OneAccepted(s)'
  <2>1. Current(s)' = Current(s)
    BY <1>1 DEF Current, op
  <2>2. OnItsWay(q, s)
    <3>1. ~CarriesCurrent(q, s)
      BY <1>1, TokenFacts, CurrentToken DEF CarriesCurrent
    <3>2. ~WaitsForCurrent(q, s)
      <4>. SUFFICES ASSUME NEW p \in Refreshing(s), handlers[p].pc = "arriving",
                           CarriesCurrent(p, s), Used(s, handlers[q].refreshToken)
                    PROVE  FALSE
        BY <1>1 DEF WaitsForCurrent
      <4>1. /\ handlers[p].refreshToken \in TokensOf(s)
            /\ handlers[q].refreshToken \in TokensOf(s)
        BY <1>3, RefreshingShape
      <4>2. handlers[p].refreshToken = handlers[q].refreshToken
        BY <4>1, TokenFacts DEF CarriesCurrent, Used
      <4>. QED
        BY <1>4, <1>10, <4>2
    <3>. QED
      BY <1>3, <1>10, <3>1, <3>2 DEF OneAccepted
  <2>3. OnItsWay(q, s)' /\ ~CarriesCurrent(q, s)
    BY <1>1, <1>3, <2>1, <2>2, TokenFacts, CurrentToken DEF OnItsWay, CarriesCurrent
  <2>4. \A p \in Refreshing(s) \ {q} :
          /\ OnItsWay(p, s) => OnItsWay(p, s)'
          /\ CarriesCurrent(p, s) => CarriesCurrent(p, s)'
    BY <1>1, <1>3, <2>1 DEF OnItsWay, CarriesCurrent, Used, op
  <2>5. \A p \in Refreshing(s) \ {q} : WaitsForCurrent(p, s) => WaitsForCurrent(p, s)'
    BY <1>1, <1>3, <2>3, <2>4 DEF WaitsForCurrent, Used, op
  <2>6. /\ \A p \in Refreshing(s) : handlers'[p].answer # Refusal
        /\ \A p \in Refreshing(s) :
             OnItsWay(p, s)' \/ CarriesCurrent(p, s)' \/ WaitsForCurrent(p, s)'
    BY <1>3, <1>10, <2>3, <2>4, <2>5, TokenFacts DEF OneAccepted
  <2>7. Renewing(s)' => Renewing(s)
    BY <1>1, <1>3, <2>1 DEF Renewing, zones, op
  <2>8. Renewing(s)' => ~Held(s, Current(s))'
    BY <1>5, <1>10, <2>1, <2>7, CurrentToken DEF OneAccepted
  <2>9. (\E p \in Refreshing(s) : CarriesCurrent(p, s))
          => \E p \in Refreshing(s) : CarriesCurrent(p, s)'
    BY <2>3, <2>4
  <2>. QED
    BY <1>1, <1>3, <1>10, <2>1, <2>6, <2>8, <2>9 DEF OneAccepted, Used, op, zones
<1>11. Alive(s)' => Alive(s)
  BY <1>1 DEF Alive, op
<1>. QED
  BY <1>1, <1>6, <1>7, <1>8, <1>9, <1>10, <1>11 DEF Lasting, op

\* It finds the answer in the cache.
LEMMA CacheHitLasts ==
    ASSUME IInv, NEW q \in Requests, NEW s \in Sessions, handlers[q].session = s,
           Lasting(s), CacheHit(q)
    PROVE  Lasting(s)'
<1>. PICK token : token = cache[handlers[q].refreshToken]
  OBVIOUS
<1>1. /\ handlers[q].pc = "waiting" /\ handlers[q].answer = NoAnswer
      /\ token # NoToken
      /\ UNCHANGED <<zones, cache, op, loggedOut>>
  BY DEF CacheHit, Key, CacheKey, IInv, HandlersShaped, Shaped
<1>2. Moved(q, "validateJwt", Success(token))
  BY <1>1, AnsweredAs DEF CacheHit, Key, CacheKey
<1>3. /\ q \in Refreshing(s) /\ Refreshing(s)' = Refreshing(s)
      /\ handlers'[q].pc = "validateJwt" /\ handlers'[q].answer = Success(token)
      /\ handlers'[q].refreshToken = handlers[q].refreshToken
      /\ \A p \in Refreshing(s) \ {q} : handlers'[p] = handlers[p]
  BY <1>1, <1>2, MovedView
<1>4. /\ handlers[q].refreshToken \in TokensOf(s)
      /\ Success(token).tokens = token /\ Success(token) # Refusal
  BY <1>3, RefreshingShape DEF Success, Refusal
<1>5. \A t \in TokensOf(s) : Held(s, t)' => Held(s, t)
  BY <1>1, <1>3, <1>4 DEF Held
<1>6. HeldIsFresh(s)'
  BY <1>1, <1>5 DEF Lasting, HeldIsFresh, op
<1>7. CachedMeanwhile(s)'
  BY <1>1, <1>3 DEF Lasting, CachedMeanwhile
<1>8. ~provider'.slow => OneAtATime(s)'
  BY <1>1, <1>3 DEF Lasting, OneAtATime, op
<1>9. AllAccepted(s) => AllAccepted(s)'
  BY <1>1, <1>3, <1>4, <1>5 DEF AllAccepted, op, zones
<1>10. ASSUME OneAccepted(s) PROVE OneAccepted(s)'
  <2>1. Current(s)' = Current(s)
    BY <1>1 DEF Current, op
  <2>2. Used(s, handlers[q].refreshToken) /\ token = Current(s)
    BY <1>1, <1>4, <1>10 DEF OneAccepted
  <2>3. CarriesCurrent(q, s)'
    BY <1>1, <1>3, <1>4, <2>1, <2>2 DEF CarriesCurrent, Used, op
  <2>4. \A p \in Refreshing(s) \ {q} :
          /\ OnItsWay(p, s) => OnItsWay(p, s)'
          /\ CarriesCurrent(p, s) => CarriesCurrent(p, s)'
    BY <1>1, <1>3, <2>1 DEF OnItsWay, CarriesCurrent, Used, op
  <2>5. \A p \in Refreshing(s) \ {q} : WaitsForCurrent(p, s) => WaitsForCurrent(p, s)'
    BY <1>1, <1>3, <2>4 DEF WaitsForCurrent, Used, op
  <2>6. /\ \A p \in Refreshing(s) : handlers'[p].answer # Refusal
        /\ \A p \in Refreshing(s) :
             OnItsWay(p, s)' \/ CarriesCurrent(p, s)' \/ WaitsForCurrent(p, s)'
    BY <1>3, <1>4, <1>10, <2>3, <2>4, <2>5 DEF OneAccepted
  <2>7. Held(s, Current(s))
    BY <1>4, <2>2 DEF Held
  <2>8. ~Renewing(s)'
    BY <1>1, <1>3, <1>10, <2>1, <2>7 DEF OneAccepted, Renewing, zones, op
  <2>9. (\E p \in Refreshing(s) : CarriesCurrent(p, s))
          => \E p \in Refreshing(s) : CarriesCurrent(p, s)'
    BY <1>3, <2>3
  <2>. QED
    BY <1>1, <1>3, <1>10, <2>1, <2>6, <2>8, <2>9 DEF OneAccepted, Used, op, zones
<1>11. Alive(s)' => Alive(s)
  BY <1>1 DEF Alive, op
<1>. QED
  BY <1>1, <1>6, <1>7, <1>8, <1>9, <1>10, <1>11 DEF Lasting, op

\* The OP issues the next token set: the answer is the only way to it, and those who
\* wait for it get it.
LEMMA IssueLasts ==
    ASSUME IInv, NEW q \in Requests, NEW s \in Sessions, handlers[q].session = s,
           Lasting(s), OPIssue(q),
           provider.retires => provider.rotates /\ ~provider.slow /\ ~provider.loses
    PROVE  Lasting(s)'
<1>. PICK token : token = handlers[q].refreshToken
  OBVIOUS
<1>1. /\ handlers[q].pc = "upstream" /\ handlers[q].answer = NoAnswer
      /\ token \in TokensOf(s) /\ token.owner = s
  BY DEF OPIssue, IInv, HandlersShaped, Shaped, TokensOf
<1>. PICK new : new = [owner |-> s, gen |-> issued[s] + 1]
  OBVIOUS
<1>2. /\ token.gen \in valid[s]
      /\ issued'[s] = issued[s] + 1
      /\ valid'[s] = IF ~provider.rotates THEN valid[s]
                     ELSE (IF provider.retires THEN valid[s] \ {token.gen} ELSE valid[s])
                            \cup {issued[s] + 1}
      /\ UNCHANGED <<zones, cache, provider, expired, loggedOut>>
  BY <1>1 DEF OPIssue, OPAccepts, IInv, TypeOK
<1>3. /\ issued[s] + 1 \in 0 .. MaxGen
      /\ issued[s] \in 0 .. MaxGen /\ expired[s] \in 0 .. MaxGen + 1
  <2>1. /\ issued[s] \in 0 .. MaxGen /\ issued[s] < provider.bound
        /\ provider.bound \in 0 .. MaxGen /\ expired[s] \in 0 .. MaxGen + 1
    BY <1>1, OPsAssumption DEF OPIssue, IInv, TypeOK, OPKinds
  <2>. QED
    BY <2>1, MaxGenAssumption
<1>4. /\ new \in TokensOf(s) /\ new.gen = issued[s] + 1
      /\ Success(new) # Refusal /\ NoAnswer # Refusal
      /\ Success(new).tokens = new /\ NoAnswer.tokens = NoToken
  BY <1>3 DEF TokensOf, Success, Refusal, NoAnswer
<1>. PICK answer \in {Success(new), NoAnswer} :
       Moved(q, "arriving", answer) /\ (~provider.loses => answer = Success(new))
  <2>1. \/ Answered(q, Success(new))
        \/ provider.loses /\ Answered(q, NoAnswer)
    BY <1>1 DEF OPIssue
  <2>2. ASSUME NEW a, Answered(q, a) PROVE Moved(q, "arriving", a)
    BY <1>1, <2>2, AnsweredAs DEF Answered
  <2>. QED
    BY <2>1, <2>2
<1>5. /\ q \in Refreshing(s) /\ Refreshing(s)' = Refreshing(s)
      /\ handlers'[q].pc = "arriving" /\ handlers'[q].answer = answer
      /\ handlers'[q].refreshToken = token
      /\ \A p \in Refreshing(s) \ {q} : handlers'[p] = handlers[p]
  BY <1>1, MovedView
<1>6. \A t \in TokensOf(s) : Held(s, t)' => Held(s, t) \/ t = new
  BY <1>2, <1>4, <1>5, TokenFacts DEF Held
<1>7. HeldIsFresh(s)'
  <2>1. expired'[s] = expired[s] /\ expired[s] <= issued[s] + 1
    BY <1>2 DEF Lasting, HeldIsFresh
  <2>2. expired[s] <= issued'[s] + 1
    BY <1>2, <1>3, <2>1, MaxGenAssumption
  <2>3. \A t \in TokensOf(s) : Held(s, t)' => t.gen >= expired[s]
    BY <1>3, <1>4, <1>6, <2>1, MaxGenAssumption DEF Lasting, HeldIsFresh
  <2>. QED
    BY <2>1, <2>2, <2>3 DEF HeldIsFresh
<1>8. CachedMeanwhile(s)'
  BY <1>2, <1>5 DEF Lasting, CachedMeanwhile
<1>9. ~provider'.slow => OneAtATime(s)'
  BY <1>1, <1>2, <1>5 DEF Lasting, OneAtATime
<1>10. ASSUME AllAccepted(s), ~provider.retires PROVE AllAccepted(s)'
  <2>1. /\ valid[s] \subseteq valid'[s]
        /\ provider.rotates => issued[s] + 1 \in valid'[s]
    BY <1>2, <1>10
  <2>2. \A t \in TokensOf(s) : provider.rotates /\ Held(s, t)' => t.gen \in valid'[s]
    BY <1>4, <1>6, <1>10, <2>1 DEF AllAccepted
  <2>3. \A p \in Refreshing(s) : handlers'[p].refreshToken.gen \in valid'[s]
    BY <1>2, <1>5, <1>10, <2>1 DEF AllAccepted
  <2>4. \A p \in Refreshing(s) : handlers'[p].answer # Refusal
    BY <1>4, <1>5, <1>10 DEF AllAccepted
  <2>. QED
    BY <1>2, <1>5, <1>10, <2>1, <2>2, <2>3, <2>4 DEF AllAccepted, zones
<1>11. ASSUME OneAccepted(s), provider.retires PROVE OneAccepted(s)'
  <2>1. token = Current(s) /\ new # Current(s)
    BY <1>1, <1>2, <1>3, <1>4, <1>11, CurrentToken, TokenFacts, MaxGenAssumption DEF OneAccepted
  <2>2. Current(s)' = new /\ answer = Success(new)
    BY <1>2, <1>11 DEF Current
  <2>3. ~Held(s, Current(s))
    BY <1>5, <1>11, <2>1 DEF OneAccepted, Renewing
  <2>4. valid'[s] = {issued'[s]}
    BY <1>1, <1>2, <1>11, <2>1, CurrentToken DEF OneAccepted
  <2>5. \A t \in TokensOf(s) : t.gen = issued[s] => Used(s, t)'
    BY <1>2, <1>3, MaxGenAssumption DEF Used
  <2>6. CarriesCurrent(q, s)'
    BY <1>1, <1>4, <1>5, <2>1, <2>2, <2>5, CurrentToken DEF CarriesCurrent
  <2>7. refreshTokens[s] = Current(s)
    <3>1. \A p \in Refreshing(s) : ~CarriesCurrent(p, s)
      BY <2>3 DEF CarriesCurrent, Held
    <3>. QED
      BY <1>11, <3>1 DEF OneAccepted
  <2>8. \A key \in TokensOf(s) : cache[key] = NoToken
    BY <1>11, <2>3 DEF OneAccepted, Held
  <2>9. ASSUME NEW p \in Refreshing(s) \ {q}
        PROVE  WaitsForCurrent(p, s)' /\ handlers'[p].answer # Refusal
    <3>1. handlers[p].refreshToken \in TokensOf(s)
      BY RefreshingShape
    <3>2. OnItsWay(p, s)
      <4>1. ~CarriesCurrent(p, s)
        BY <2>3 DEF CarriesCurrent, Held
      <4>2. ~WaitsForCurrent(p, s)
        BY <2>3, <2>8, <3>1 DEF WaitsForCurrent, CarriesCurrent, Held
      <4>. QED
        BY <1>11, <4>1, <4>2 DEF OneAccepted
    <3>3. handlers[p].pc = "waiting"
      <4>1. handlers[p].pc # "validateJwt"
        BY <3>2, RefreshingShape DEF OnItsWay
      <4>2. handlers[p].pc \notin {"upstream", "arriving"}
        BY <1>1, <1>5, <1>11, <2>1, <3>2 DEF Lasting, OneAtATime, OnItsWay
      <4>. QED
        BY <4>1, <4>2, RefreshingShape
    <3>4. Used(s, handlers[p].refreshToken)'
      BY <1>5, <2>5, <3>2, CurrentToken DEF OnItsWay, Used
    <3>5. handlers'[p].pc = "waiting" /\ handlers'[p].answer # Refusal
      BY <1>5, <1>11, <3>3 DEF OneAccepted
    <3>. QED
      BY <1>5, <2>6, <3>4, <3>5 DEF WaitsForCurrent
  <2>10. ~Renewing(s)'
    <3>1. \A p \in Refreshing(s) : handlers'[p].refreshToken # new
      <4>. SUFFICES ASSUME NEW p \in Refreshing(s) PROVE handlers'[p].refreshToken # new
        OBVIOUS
      <4>1. CASE p = q
        BY <1>5, <2>1, <4>1
      <4>2. CASE p # q
        BY <1>2, <1>3, <1>4, <2>9, <4>2, MaxGenAssumption DEF WaitsForCurrent, Used
      <4>. QED
        BY <4>1, <4>2
    <3>. QED
      BY <1>2, <1>5, <2>1, <2>2, <2>7, <3>1 DEF Renewing, zones
  <2>11. \A p \in Refreshing(s) :
           /\ OnItsWay(p, s)' \/ CarriesCurrent(p, s)' \/ WaitsForCurrent(p, s)'
           /\ handlers'[p].answer # Refusal
    BY <1>4, <1>5, <2>2, <2>6, <2>9
  <2>12. Used(s, refreshTokens[s])'
    BY <1>2, <2>5, <2>7, CurrentToken DEF zones, Used
  <2>. QED
    BY <1>2, <1>5, <1>11, <2>4, <2>6, <2>7, <2>8, <2>10, <2>11, <2>12, CurrentToken
       DEF OneAccepted, zones
<1>12. Alive(s)' => Alive(s)
  BY <1>2 DEF Alive
<1>. QED
  BY <1>2, <1>7, <1>8, <1>9, <1>10, <1>11, <1>12 DEF Lasting

\* The OP refuses, which it does to no session that is alive, or is out of order.
LEMMA NoTokensLast ==
    ASSUME IInv, NEW q \in Requests, NEW s \in Sessions, handlers[q].session = s,
           Lasting(s), OPRefuse(q) \/ OPOutage(q)
    PROVE  Lasting(s)'
<1>. PICK token : token = handlers[q].refreshToken
  OBVIOUS
<1>1. /\ handlers[q].pc = "upstream" /\ handlers[q].answer = NoAnswer
      /\ token \in TokensOf(s) /\ token.owner = s
      /\ UNCHANGED <<zones, cache, op, loggedOut>>
  BY DEF OPRefuse, OPOutage, IInv, HandlersShaped, Shaped, TokensOf
<1>. PICK answer \in {Refusal, Outage} :
       Moved(q, "arriving", answer) /\ (token.gen \in valid[s] => answer = Outage)
  <2>1. ASSUME NEW a, Answered(q, a) PROVE Moved(q, "arriving", a)
    BY <1>1, <2>1, AnsweredAs DEF Answered
  <2>2. Moved(q, "arriving", Outage)
          \/ (Moved(q, "arriving", Refusal) /\ token.gen \notin valid[s])
    BY <1>1, <2>1 DEF OPRefuse, OPOutage, OPAccepts
  <2>. QED
    BY <2>2
<1>2. /\ q \in Refreshing(s) /\ Refreshing(s)' = Refreshing(s)
      /\ handlers'[q].pc = "arriving" /\ handlers'[q].answer = answer
      /\ handlers'[q].refreshToken = token
      /\ \A p \in Refreshing(s) \ {q} : handlers'[p] = handlers[p]
  BY <1>1, MovedView
<1>3. answer.tokens = NoToken /\ Outage # Refusal
  BY DEF Refusal, Outage
<1>4. \A t \in TokensOf(s) : Held(s, t)' => Held(s, t)
  BY <1>1, <1>2, <1>3, TokenFacts DEF Held
<1>5. HeldIsFresh(s)'
  BY <1>1, <1>4 DEF Lasting, HeldIsFresh, op
<1>6. CachedMeanwhile(s)'
  BY <1>1, <1>2 DEF Lasting, CachedMeanwhile
<1>7. ~provider'.slow => OneAtATime(s)'
  BY <1>1, <1>2 DEF Lasting, OneAtATime, op
<1>8. AllAccepted(s) => AllAccepted(s)'
  BY <1>1, <1>2, <1>3, <1>4 DEF AllAccepted, op, zones
<1>9. ASSUME OneAccepted(s) PROVE OneAccepted(s)'
  <2>1. Current(s)' = Current(s)
    BY <1>1 DEF Current, op
  <2>2. OnItsWay(q, s) /\ ~CarriesCurrent(q, s)
    BY <1>1, <1>2, <1>9, TokenFacts, CurrentToken
       DEF OneAccepted, CarriesCurrent, WaitsForCurrent
  <2>3. OnItsWay(q, s)' /\ answer # Refusal
    BY <1>1, <1>2, <1>3, <1>9, <2>1, <2>2, CurrentToken DEF OnItsWay, OneAccepted
  <2>4. \A p \in Refreshing(s) \ {q} :
          /\ OnItsWay(p, s) => OnItsWay(p, s)'
          /\ CarriesCurrent(p, s) => CarriesCurrent(p, s)'
    BY <1>1, <1>2, <2>1 DEF OnItsWay, CarriesCurrent, Used, op
  <2>5. \A p \in Refreshing(s) \ {q} : WaitsForCurrent(p, s) => WaitsForCurrent(p, s)'
    BY <1>1, <1>2, <2>2, <2>4 DEF WaitsForCurrent, Used, op
  <2>6. /\ \A p \in Refreshing(s) : handlers'[p].answer # Refusal
        /\ \A p \in Refreshing(s) :
             OnItsWay(p, s)' \/ CarriesCurrent(p, s)' \/ WaitsForCurrent(p, s)'
    BY <1>2, <1>9, <2>3, <2>4, <2>5 DEF OneAccepted
  <2>7. Renewing(s)' => Renewing(s)
    BY <1>1, <1>2, <2>1 DEF Renewing, zones, op
  <2>8. Renewing(s)' => ~Held(s, Current(s))'
    BY <1>4, <1>9, <2>1, <2>7, CurrentToken DEF OneAccepted
  <2>9. (\E p \in Refreshing(s) : CarriesCurrent(p, s))
          => \E p \in Refreshing(s) : CarriesCurrent(p, s)'
    BY <2>2, <2>4
  <2>. QED
    BY <1>1, <1>2, <1>9, <2>1, <2>6, <2>8, <2>9 DEF OneAccepted, Used, op, zones
<1>10. Alive(s)' => Alive(s)
  BY <1>1 DEF Alive, op
<1>. QED
  BY <1>1, <1>5, <1>6, <1>7, <1>8, <1>9, <1>10 DEF Lasting, op

\* Tokens arrive, and are cached under the refresh token that was used for them.
LEMMA ArriveLasts ==
    ASSUME IInv, NEW q \in Requests, NEW s \in Sessions, handlers[q].session = s,
           Lasting(s), TokensArrive(q)
    PROVE  Lasting(s)'
<1>. PICK key : key = handlers[q].refreshToken
  OBVIOUS
<1>. PICK token : token = handlers[q].answer.tokens
  OBVIOUS
<1>1. /\ handlers[q].pc = "arriving" /\ handlers[q].answer \in AnswersFor(s)
      /\ key \in TokensOf(s) /\ key \in Tokens
      /\ UNCHANGED <<zones, op, loggedOut>>
  BY AnswersType DEF TokensArrive, IInv, HandlersShaped, Shaped
<1>2. token \in TokensOf(s) /\ token # NoToken
  BY <1>1, AnswerStatus, TokenFacts DEF TokensArrive
<1>3. /\ cache'[key] = token
      /\ \A k \in Tokens \ {key} : cache'[k] = cache[k]
      /\ TokensOf(s) \subseteq Tokens
  BY <1>1, AnswersType DEF TokensArrive, Key, CacheKey, IInv, TypeOK
<1>4. Moved(q, "validateJwt", handlers[q].answer)
  BY <1>1, GoAs DEF TokensArrive
<1>5. /\ q \in Refreshing(s) /\ Refreshing(s)' = Refreshing(s)
      /\ handlers'[q].pc = "validateJwt" /\ handlers'[q].answer = handlers[q].answer
      /\ handlers'[q].refreshToken = key
      /\ \A p \in Refreshing(s) \ {q} : handlers'[p] = handlers[p]
  BY <1>1, <1>4, MovedView
<1>6. \A t \in TokensOf(s) : Held(s, t)' => Held(s, t)
  BY <1>3, <1>5 DEF Held
<1>7. HeldIsFresh(s)'
  BY <1>1, <1>6 DEF Lasting, HeldIsFresh, op
<1>8. CachedMeanwhile(s)'
  BY <1>2, <1>3, <1>5, RefreshingShape DEF Lasting, CachedMeanwhile
<1>9. ~provider'.slow => OneAtATime(s)'
  BY <1>1, <1>5 DEF Lasting, OneAtATime, op
<1>10. AllAccepted(s) => AllAccepted(s)'
  BY <1>1, <1>5, <1>6 DEF AllAccepted, op, zones
<1>11. ASSUME OneAccepted(s) PROVE OneAccepted(s)'
  <2>1. Current(s)' = Current(s)
    BY <1>1 DEF Current, op
  <2>2. CarriesCurrent(q, s)
    BY <1>1, <1>2, <1>5, <1>11 DEF OneAccepted, OnItsWay, WaitsForCurrent
  <2>3. Used(s, key) /\ token = Current(s)
    BY <2>2 DEF CarriesCurrent
  <2>4. \A p \in Refreshing(s) :
          /\ OnItsWay(p, s) => OnItsWay(p, s)'
          /\ CarriesCurrent(p, s) => CarriesCurrent(p, s)'
    BY <1>1, <1>5, <2>1 DEF OnItsWay, CarriesCurrent, Used, op
  <2>5. \A p \in Refreshing(s) : WaitsForCurrent(p, s) => WaitsForCurrent(p, s)'
    <3>. SUFFICES ASSUME NEW p \in Refreshing(s), WaitsForCurrent(p, s)
                  PROVE  WaitsForCurrent(p, s)'
      OBVIOUS
    <3>1. /\ handlers[p].pc = "waiting" /\ p # q
          /\ Used(s, handlers[p].refreshToken)
          /\ handlers[p].refreshToken \in TokensOf(s)
      BY <1>1, RefreshingShape DEF WaitsForCurrent
    <3>2. handlers[p].refreshToken = key
      BY <1>1, <2>3, <3>1, TokenFacts DEF Used
    <3>. QED
      BY <1>1, <1>2, <1>3, <1>5, <3>1, <3>2 DEF WaitsForCurrent, Used, op
  <2>6. /\ \A p \in Refreshing(s) : handlers'[p].answer # Refusal
        /\ \A p \in Refreshing(s) :
             OnItsWay(p, s)' \/ CarriesCurrent(p, s)' \/ WaitsForCurrent(p, s)'
    BY <1>5, <1>11, <2>4, <2>5 DEF OneAccepted
  <2>7. ~Renewing(s)
    BY <1>5, <1>11, <2>3 DEF OneAccepted, Held
  <2>8. ~Renewing(s)'
    BY <1>1, <1>5, <2>1, <2>7 DEF Renewing, zones, op
  <2>9. \A k \in TokensOf(s) : cache'[k] # NoToken =>
          Used(s, k)' /\ cache'[k] = Current(s)
    BY <1>1, <1>3, <1>11, <2>3 DEF OneAccepted, Used, op
  <2>. QED
    BY <1>1, <1>5, <1>11, <2>1, <2>4, <2>6, <2>8, <2>9 DEF OneAccepted, Used, op, zones
<1>12. Alive(s)' => Alive(s)
  BY <1>1 DEF Alive, op
<1>. QED
  BY <1>1, <1>7, <1>8, <1>9, <1>10, <1>11, <1>12 DEF Lasting, op

\* Nobody's new ID token is rejected: what is held is fresh.
LEMMA NoneRejected ==
    ASSUME IInv, NEW q \in Requests, NEW s \in Sessions, handlers[q].session = s,
           Lasting(s), OnlyOutages
    PROVE  ~IdTokenRejected(q)
<1>. SUFFICES ASSUME handlers[q].pc = "validateJwt",
                     NEW status \in IdTokenStatuses(handlers[q].answer.tokens) \ {Proceed}
              PROVE  FALSE
  BY DEF IdTokenRejected
<1>. PICK token : token = handlers[q].answer.tokens
  OBVIOUS
<1>1. q \in Refreshing(s)
  BY DEF Refreshing
<1>2. token \in TokensOf(s) /\ token.owner = s
  BY <1>1, RefreshingShape DEF TokensOf
<1>3. Fresh(token)
  BY <1>1, <1>2 DEF Lasting, HeldIsFresh, Held, Fresh
<1>. QED
  BY <1>3 DEF IdTokenStatuses, OnlyOutages

\* A refresh fails for another reason than its refresh token.
LEMMA RefusedLasts ==
    ASSUME IInv, NEW q \in Requests, NEW s \in Sessions, handlers[q].session = s,
           Lasting(s), TokensRefused(q)
    PROVE  Lasting(s)'
<1>. PICK status : status = RequestTokenStatus(handlers[q].answer)
  OBVIOUS
<1>1. /\ handlers[q].pc = "arriving" /\ handlers[q].answer \in AnswersFor(s)
      /\ handlers[q].answer.tokens = NoToken
      /\ status = 401 <=> handlers[q].answer = Refusal
      /\ RefreshFailed(q, status)
  BY AnswerStatus DEF TokensRefused, IInv, HandlersShaped, Shaped
<1>2. /\ UNCHANGED <<idTokens, accessTokens, cache, op, loggedOut>>
      /\ handlers[q].answer # Refusal => refreshTokens'[s] = refreshTokens[s]
      /\ \E kind, result : Ended(q, kind, s, result)
  BY <1>1 DEF RefreshFailed, ClearsRefreshToken, IInv, TypeOK
<1>3. /\ handlers'[q].pc = "idle"
      /\ \A p \in Requests \ {q} : handlers'[p] = handlers[p]
  <2>. PICK kind, result : handlers' = [handlers EXCEPT ![q] = Done(kind, s, result, NoSession)]
    BY <1>2, EndedAs
  <2>. QED
    BY DEF IInv, TypeOK, Done, Record
<1>4. /\ q \in Refreshing(s) /\ Refreshing(s)' = Refreshing(s) \ {q}
      /\ \A p \in Refreshing(s)' : handlers'[p] = handlers[p]
  BY <1>1, <1>3 DEF Refreshing
<1>5. \A t \in TokensOf(s) : Held(s, t)' => Held(s, t)
  BY <1>2, <1>4 DEF Held
<1>6. HeldIsFresh(s)'
  BY <1>2, <1>5 DEF Lasting, HeldIsFresh, op
<1>7. CachedMeanwhile(s)'
  BY <1>2, <1>4 DEF Lasting, CachedMeanwhile
<1>8. ~provider'.slow => OneAtATime(s)'
  BY <1>2, <1>4 DEF Lasting, OneAtATime, op
<1>9. AllAccepted(s) => AllAccepted(s)'
  BY <1>2, <1>4, <1>5 DEF AllAccepted, op
<1>10. ASSUME OneAccepted(s) PROVE OneAccepted(s)'
  <2>1. Current(s)' = Current(s)
    BY <1>2 DEF Current, op
  <2>2. ~CarriesCurrent(q, s) /\ handlers[q].answer # Refusal
    BY <1>1, <1>4, <1>10, CurrentToken DEF OneAccepted, CarriesCurrent
  <2>3. \A p \in Refreshing(s)' :
          /\ OnItsWay(p, s) => OnItsWay(p, s)'
          /\ CarriesCurrent(p, s) => CarriesCurrent(p, s)'
    BY <1>2, <1>4, <2>1 DEF OnItsWay, CarriesCurrent, Used, op
  <2>4. \A p \in Refreshing(s)' : WaitsForCurrent(p, s) => WaitsForCurrent(p, s)'
    BY <1>2, <1>4, <2>2, <2>3 DEF WaitsForCurrent, Used, op
  <2>5. /\ \A p \in Refreshing(s)' : handlers'[p].answer # Refusal
        /\ \A p \in Refreshing(s)' :
             OnItsWay(p, s)' \/ CarriesCurrent(p, s)' \/ WaitsForCurrent(p, s)'
    BY <1>4, <1>10, <2>3, <2>4 DEF OneAccepted
  <2>6. Renewing(s)' => Renewing(s)
    BY <1>2, <1>4, <2>1, <2>2 DEF Renewing, op
  <2>7. Renewing(s)' => ~Held(s, Current(s))'
    BY <1>5, <1>10, <2>1, <2>6, CurrentToken DEF OneAccepted
  <2>8. (\E p \in Refreshing(s) : CarriesCurrent(p, s))
          => \E p \in Refreshing(s)' : CarriesCurrent(p, s)'
    BY <1>4, <2>2, <2>3
  <2>. QED
    BY <1>2, <1>10, <2>1, <2>2, <2>5, <2>7, <2>8 DEF OneAccepted, Used, op
<1>11. Alive(s)' => Alive(s)
  BY <1>2 DEF Alive, op
<1>. QED
  BY <1>2, <1>6, <1>7, <1>8, <1>9, <1>10, <1>11 DEF Lasting, op

\* The tokens are stored: the session has all of the current token set.
LEMMA StoreLasts ==
    ASSUME IInv, NEW q \in Requests, NEW s \in Sessions, handlers[q].session = s,
           Lasting(s), StoreTokens(q), provider.retires => provider.rotates
    PROVE  Lasting(s)'
<1>. PICK token : token = handlers[q].answer.tokens
  OBVIOUS
<1>1. /\ handlers[q].pc = "validateJwt" /\ q \in Refreshing(s)
      /\ Refreshing(s) \subseteq Requests
  BY DEF StoreTokens, Refreshing
<1>2. token \in TokensOf(s) /\ token # NoToken
  BY <1>1, RefreshingShape
<1>3. /\ accessTokens'[s] = token /\ idTokens'[s] = token
      /\ refreshTokens'[s] = IF provider.rotates THEN token ELSE refreshTokens[s]
      /\ UNCHANGED <<cache, op, loggedOut>>
  BY DEF StoreTokens, NewRefreshToken, IInv, TypeOK
<1>4. /\ handlers'[q].pc = "idle"
      /\ \A p \in Requests \ {q} : handlers'[p] = handlers[p]
  <2>. PICK kind, result, claims :
         handlers' = [handlers EXCEPT ![q] = Done(kind, s, result, claims)]
    <3>1. CASE Authorized(q, s, token)
      BY <1>2, <3>1, AuthorizedAs
    <3>2. CASE Ended(q, "proxy", s, "proxied")
      BY <3>2, EndedAs
    <3>. QED
      BY <3>1, <3>2 DEF StoreTokens
  <2>. QED
    BY DEF IInv, TypeOK, Done, Record
<1>5. /\ Refreshing(s)' = Refreshing(s) \ {q}
      /\ \A p \in Refreshing(s)' : handlers'[p] = handlers[p]
  BY <1>4 DEF Refreshing
<1>6. \A t \in TokensOf(s) : Held(s, t)' => Held(s, t)
  BY <1>3, <1>5 DEF Held
<1>7. Held(s, token) /\ token.gen >= expired[s]
  BY <1>1, <1>2 DEF Lasting, HeldIsFresh, Held
<1>8. HeldIsFresh(s)'
  BY <1>3, <1>6 DEF Lasting, HeldIsFresh, op
<1>9. CachedMeanwhile(s)'
  BY <1>3, <1>5 DEF Lasting, CachedMeanwhile
<1>10. ~provider'.slow => OneAtATime(s)'
  BY <1>3, <1>5 DEF Lasting, OneAtATime, op
<1>11. AllAccepted(s) => AllAccepted(s)'
  BY <1>2, <1>3, <1>5, <1>6, <1>7 DEF AllAccepted, op
<1>12. ASSUME OneAccepted(s), provider.rotates PROVE OneAccepted(s)'
  <2>1. Current(s)' = Current(s)
    BY <1>3 DEF Current, op
  <2>2. token = Current(s)
    BY <1>1, <1>2, <1>12 DEF OneAccepted, OnItsWay, CarriesCurrent, WaitsForCurrent
  <2>3. \A p \in Refreshing(s)' :
          /\ OnItsWay(p, s) => OnItsWay(p, s)'
          /\ CarriesCurrent(p, s) => CarriesCurrent(p, s)'
    BY <1>3, <1>5, <2>1 DEF OnItsWay, CarriesCurrent, Used, op
  <2>4. \A p \in Refreshing(s)' : WaitsForCurrent(p, s) => WaitsForCurrent(p, s)'
    BY <1>1, <1>3, <1>5, <2>3 DEF WaitsForCurrent, Used, op
  <2>5. /\ \A p \in Refreshing(s)' : handlers'[p].answer # Refusal
        /\ \A p \in Refreshing(s)' :
             OnItsWay(p, s)' \/ CarriesCurrent(p, s)' \/ WaitsForCurrent(p, s)'
    BY <1>5, <1>12, <2>3, <2>4 DEF OneAccepted
  <2>6. ~Renewing(s)
    BY <1>7, <1>12, <2>2 DEF OneAccepted
  <2>7. expired[s] <= issued[s]
    BY <1>7, <2>2, CurrentToken
  <2>8. ~Renewing(s)'
    <3>1. expired'[s] = expired[s] /\ issued'[s] = issued[s]
      BY <1>3 DEF op
    <3>2. ~(expired'[s] > issued'[s])
      BY <2>7, <3>1, CurrentToken, MaxGenAssumption
    <3>. QED
      BY <1>3, <1>5, <2>1, <2>2, <2>6, <3>2 DEF Renewing
  <2>. QED
    BY <1>2, <1>3, <1>12, <2>1, <2>2, <2>5, <2>8 DEF OneAccepted, Used, op
<1>13. Alive(s)' => Alive(s)
  BY <1>3 DEF Alive, op
<1>. QED
  BY <1>3, <1>8, <1>9, <1>10, <1>11, <1>12, <1>13 DEF Lasting, op

\* What has outlasted is not held.
LEMMA OutlastedNotHeld ==
    ASSUME IInv, NEW s \in Sessions, NEW token \in TokensOf(s), Outlasted(token)
    PROVE  ~Held(s, token)
<1>1. ASSUME NEW q \in Refreshing(s) PROVE handlers[q].answer.tokens # token
  BY RefreshingShape, TokenFacts DEF Outlasted, InHand
<1>2. ASSUME NEW key \in TokensOf(s) PROVE cache[key] # token
  BY AnswersType DEF Outlasted, Cached
<1>. QED
  BY <1>1, <1>2 DEF Held

\* A logout ends the session and a revocation kills it; an ID token expires, or a
\* token leaves its zone, when nobody holds it any more.
LEMMA EnvironmentLasts ==
    ASSUME IInv, NEW s \in Sessions, Lasting(s), OnlyOutages,
           Logout(s) \/ OPRevoke(s) \/ IdTokenExpires(s) \/ ZoneTimeout(s)
    PROVE  Lasting(s)'
<1>1. /\ UNCHANGED <<handlers, cache, provider, issued>>
      /\ Refreshing(s)' = Refreshing(s)
      /\ \A t : Held(s, t)' <=> Held(s, t)
  BY DEF Logout, OPRevoke, IdTokenExpires, ZoneTimeout, op, Refreshing, Held
<1>2. CachedMeanwhile(s)' /\ (~provider'.slow => OneAtATime(s)')
  BY <1>1 DEF Lasting, CachedMeanwhile, OneAtATime
<1>3. /\ issued[s] \in 0 .. MaxGen /\ expired[s] \in 0 .. MaxGen + 1
      /\ \A t \in TokensOf(s) : t.gen \in 0 .. MaxGen
  BY CurrentToken, TokenFacts
<1>4. CASE Logout(s) \/ OPRevoke(s)
  <2>1. ~Alive(s)'
    BY <1>4 DEF Logout, OPRevoke, Alive, IInv, TypeOK
  <2>2. HeldIsFresh(s)'
    BY <1>1, <1>4 DEF Logout, OPRevoke, op, Lasting, HeldIsFresh
  <2>. QED
    BY <1>2, <2>1, <2>2 DEF Lasting
<1>5. CASE IdTokenExpires(s) \/ ZoneTimeout(s)
  <2>1. /\ refreshTokens'[s] = refreshTokens[s] /\ UNCHANGED <<valid, loggedOut>>
        /\ idTokens'[s] \in {idTokens[s], NoToken}
        /\ accessTokens'[s] \in {accessTokens[s], NoToken}
    BY <1>5 DEF IdTokenExpires, ZoneTimeout, zones, op, OnlyOutages, IInv, TypeOK
  <2>2. HeldIsFresh(s)'
    <3>1. CASE ZoneTimeout(s)
      BY <1>1, <3>1 DEF ZoneTimeout, op, Lasting, HeldIsFresh
    <3>2. CASE IdTokenExpires(s)
      <4>. PICK token : token = [owner |-> s, gen |-> expired[s]]
        OBVIOUS
      <4>1. /\ expired[s] <= issued[s] /\ Outlasted(token)
            /\ expired'[s] = expired[s] + 1
        BY <3>2 DEF IdTokenExpires, OnlyOutages, IInv, TypeOK
      <4>2. expired[s] \in 0 .. MaxGen
        BY <1>3, <4>1, MaxGenAssumption
      <4>3. token \in TokensOf(s) /\ token.gen = expired[s]
        BY <4>2 DEF TokensOf
      <4>4. ~Held(s, token)
        BY <4>1, <4>3, OutlastedNotHeld
      <4>5. \A t \in TokensOf(s) : Held(s, t) => t.gen >= expired[s] /\ t.gen # expired[s]
        BY <4>3, <4>4, TokenFacts DEF Lasting, HeldIsFresh
      <4>. QED
        BY <1>1, <1>3, <4>1, <4>5, MaxGenAssumption DEF HeldIsFresh
    <3>. QED
      BY <1>5, <3>1, <3>2
  <2>3. AllAccepted(s) => AllAccepted(s)'
    BY <1>1, <2>1 DEF AllAccepted
  <2>4. ASSUME OneAccepted(s) PROVE OneAccepted(s)'
    <3>1. Current(s)' = Current(s)
      BY <1>1 DEF Current
    <3>2. \A p \in Refreshing(s) :
            /\ OnItsWay(p, s) <=> OnItsWay(p, s)'
            /\ CarriesCurrent(p, s) <=> CarriesCurrent(p, s)'
      BY <1>1, <3>1 DEF OnItsWay, CarriesCurrent, Used
    <3>3. \A p \in Refreshing(s) : WaitsForCurrent(p, s) => WaitsForCurrent(p, s)'
      BY <1>1, <3>2 DEF WaitsForCurrent, Used
    <3>4. Renewing(s)' => Renewing(s) \/ ~Held(s, Current(s))
      <4>1. CASE ZoneTimeout(s)
        <5>1. /\ idTokens'[s] # idTokens[s] => Outlasted(idTokens[s])
              /\ accessTokens'[s] # accessTokens[s] => Outlasted(accessTokens[s])
              /\ expired' = expired
          BY <4>1 DEF ZoneTimeout, op
        <5>. QED
          BY <1>1, <2>1, <3>1, <5>1, OutlastedNotHeld, CurrentToken DEF Renewing
      <4>2. CASE IdTokenExpires(s)
        <5>1. /\ idTokens' = idTokens /\ accessTokens' = accessTokens
              /\ expired'[s] = expired[s] + 1 /\ expired[s] <= issued[s]
              /\ Outlasted([owner |-> s, gen |-> expired[s]])
          BY <4>2 DEF IdTokenExpires, zones, OnlyOutages, IInv, TypeOK
        <5>2. CASE expired[s] = issued[s]
          BY <5>1, <5>2, OutlastedNotHeld, CurrentToken DEF Current
        <5>3. CASE expired[s] # issued[s]
          <6>1. ~(expired'[s] > issued'[s])
            BY <1>1, <1>3, <5>1, <5>3, MaxGenAssumption
          <6>. QED
            BY <1>1, <2>1, <3>1, <5>1, <6>1 DEF Renewing
        <5>. QED
          BY <5>2, <5>3
      <4>. QED
        BY <1>5, <4>1, <4>2
    <3>5. Renewing(s)' => ~Held(s, Current(s))'
      BY <1>1, <2>4, <3>1, <3>4 DEF OneAccepted
    <3>. QED
      BY <1>1, <2>1, <2>4, <3>1, <3>2, <3>3, <3>5 DEF OneAccepted, Used
  <2>5. Alive(s)' => Alive(s)
    BY <2>1 DEF Alive
  <2>. QED
    BY <1>1, <1>2, <2>2, <2>3, <2>4, <2>5 DEF Lasting
<1>. QED
  BY <1>4, <1>5

\* A cached answer is dropped when nobody waits for it or has it validated.
LEMMA CacheExpiresLasts ==
    ASSUME IInv, NEW key \in Tokens, NEW s \in Sessions, Lasting(s), CacheExpires(key)
    PROVE  Lasting(s)'
<1>1. /\ UNCHANGED <<zones, handlers, op, loggedOut>>
      /\ Refreshing(s)' = Refreshing(s)
      /\ \A k \in TokensOf(s) : cache'[k] \in {cache[k], NoToken}
      /\ \A k \in TokensOf(s) \ {key} : cache'[k] = cache[k]
  BY AnswersType DEF CacheExpires, Refreshing, IInv, TypeOK
<1>2. \A q \in Refreshing(s) : handlers[q].pc \in {"waiting", "validateJwt"} =>
        /\ handlers[q].refreshToken # key
        /\ cache'[handlers[q].refreshToken] = cache[handlers[q].refreshToken]
  BY <1>1, RefreshingShape DEF CacheExpires, Key, CacheKey
<1>3. \A t \in TokensOf(s) : Held(s, t)' => Held(s, t)
  BY <1>1, TokenFacts DEF Held
<1>4. HeldIsFresh(s)' /\ CachedMeanwhile(s)' /\ (~provider'.slow => OneAtATime(s)')
  BY <1>1, <1>2, <1>3 DEF Lasting, HeldIsFresh, CachedMeanwhile, OneAtATime, op
<1>5. AllAccepted(s) => AllAccepted(s)'
  BY <1>1, <1>3 DEF AllAccepted, op, zones
<1>6. ASSUME OneAccepted(s) PROVE OneAccepted(s)'
  <2>1. Current(s)' = Current(s)
    BY <1>1 DEF Current, op
  <2>2. \A p \in Refreshing(s) :
          /\ OnItsWay(p, s) <=> OnItsWay(p, s)'
          /\ CarriesCurrent(p, s) <=> CarriesCurrent(p, s)'
    BY <1>1, <2>1 DEF OnItsWay, CarriesCurrent, Used, op
  <2>3. \A p \in Refreshing(s) : WaitsForCurrent(p, s) => WaitsForCurrent(p, s)'
    BY <1>1, <1>2, <2>2 DEF WaitsForCurrent, Used, op
  <2>4. Renewing(s)' => Renewing(s)
    BY <1>1, <2>1 DEF Renewing, zones, op
  <2>5. Renewing(s)' => ~Held(s, Current(s))'
    BY <1>3, <1>6, <2>1, <2>4, CurrentToken DEF OneAccepted
  <2>6. \A k \in TokensOf(s) : cache'[k] # NoToken =>
          Used(s, k)' /\ cache'[k] = Current(s)
    BY <1>1, <1>6 DEF OneAccepted, Used, op
  <2>. QED
    BY <1>1, <1>6, <2>1, <2>2, <2>3, <2>5, <2>6 DEF OneAccepted, Used, op, zones
<1>7. Alive(s)' => Alive(s)
  BY <1>1 DEF Alive, op
<1>. QED
  BY <1>1, <1>4, <1>5, <1>6, <1>7 DEF Lasting, op

\* The steps of a handler and what they leave of the other sessions.
LEMMA HandlerFrameOne ==
    ASSUME IInv, NEW q \in Requests, Pass(q) \/ OPAnswer(q) \/ Continue(q)
    PROVE  \A p \in Requests \ {q} : handlers'[p] = handlers[p]
<1>1. ASSUME NEW h, handlers' = [handlers EXCEPT ![q] = h]
      PROVE  \A p \in Requests \ {q} : handlers'[p] = handlers[p]
  BY <1>1 DEF IInv, TypeOK
<1>2. CASE Pass(q)
  BY <1>2 DEF Pass, CacheHit, Forward, ForwardAged, Go, IInv, TypeOK
<1>3. CASE OPAnswer(q)
  BY <1>3 DEF OPAnswer, OPIssue, OPRefuse, OPOutage, Answered, IInv, TypeOK
<1>4. CASE Continue(q)
  BY <1>1, <1>4 DEF Continue, TokensArrive, TokensRefused, IdTokenRejected, StoreTokens,
     RefreshFailed, Authorized, Ended, Go, IInv, TypeOK
<1>. QED
  BY <1>2, <1>3, <1>4

LEMMA HandlerFrameTwo ==
    ASSUME IInv, NEW q \in Requests, Pass(q) \/ OPAnswer(q) \/ Continue(q)
    PROVE  handlers'[q].pc = "idle" \/ handlers'[q].session = handlers[q].session
<1>1. CASE Pass(q) \/ OPAnswer(q) \/ TokensArrive(q)
  BY <1>1, MovesOn, MovedFields
<1>2. CASE TokensRefused(q) \/ IdTokenRejected(q)
  BY <1>2, EndedAs, EndedFields DEF TokensRefused, IdTokenRejected, RefreshFailed
<1>3. CASE StoreTokens(q)
  <2>. PICK s \in Sessions : s = handlers[q].session
    BY <1>3 DEF StoreTokens, IInv, HandlersShaped, Shaped
  <2>. PICK token \in TokensOf(s) : token = handlers[q].answer.tokens
    BY <1>3, AnswerStatus DEF StoreTokens, IInv, HandlersShaped, Shaped
  <2>1. CASE Authorized(q, s, token)
    <3>. PICK result : handlers' = [handlers EXCEPT ![q] = Done("access", s, result, s)]
      BY <2>1, AuthorizedAs
    <3>. QED
      BY DEF IInv, TypeOK, Done, Record
  <2>2. CASE Ended(q, "proxy", s, "proxied")
    BY <2>2, EndedAs, EndedFields
  <2>. QED
    BY <1>3, <2>1, <2>2 DEF StoreTokens
<1>. QED
  BY <1>1, <1>2, <1>3 DEF Continue

LEMMA HandlerFrame ==
    ASSUME IInv, NEW q \in Requests, NEW s \in Sessions, NEW r \in Sessions \ {s},
           \/ AccessRefresh(q, s) \/ ProxyRefresh(q, s)
           \/ /\ handlers[q].session = s
              /\ Pass(q) \/ OPAnswer(q) \/ Continue(q)
    PROVE  Untouched(r)
<1>1. CASE AccessRefresh(q, s) \/ ProxyRefresh(q, s)
  <2>. PICK kind : RefreshStarted(q, kind, s) /\ handlers[q].pc = "idle"
    BY <1>1 DEF AccessRefresh, ProxyRefresh
  <2>1. /\ \A p \in Requests \ {q} : handlers'[p] = handlers[p]
        /\ handlers'[q].session = s
    BY StartedAs, StartedFields DEF IInv, TypeOK
  <2>2. /\ Refreshing(r)' = Refreshing(r)
        /\ \A p \in Refreshing(r) : handlers'[p] = handlers[p]
    BY <2>1, OthersRefreshing
  <2>. QED
    BY <1>1, <2>2 DEF Untouched, AccessRefresh, ProxyRefresh, zones, op, IInv, TypeOK
<1>2. CASE handlers[q].session = s /\ (Pass(q) \/ OPAnswer(q) \/ Continue(q))
  <2>1. handlers[q].pc # "idle"
    BY <1>2 DEF Pass, CacheHit, Forward, ForwardAged, OPAnswer, OPIssue, OPRefuse, OPOutage,
       Continue, TokensArrive, TokensRefused, IdTokenRejected, StoreTokens
  <2>2. \A p \in Requests \ {q} : handlers'[p] = handlers[p]
    BY <1>2, HandlerFrameOne
  <2>3. handlers'[q].pc = "idle" \/ handlers'[q].session = s
    BY <1>2, <2>1, HandlerFrameTwo
  <2>4. /\ Refreshing(r)' = Refreshing(r)
        /\ \A p \in Refreshing(r) : handlers'[p] = handlers[p]
    BY <1>2, <2>2, <2>3, OthersRefreshing
  <2>5. /\ handlers[q].refreshToken \in TokensOf(s) /\ handlers[q].refreshToken.owner = s
        /\ \A key \in TokensOf(r) : key \in Tokens /\ key # handlers[q].refreshToken
    BY <1>2, <2>1, AnswersType DEF IInv, HandlersShaped, Shaped, TokensOf
  <2>6. /\ idTokens'[r] = idTokens[r] /\ accessTokens'[r] = accessTokens[r]
        /\ refreshTokens'[r] = refreshTokens[r]
        /\ UNCHANGED <<expired, loggedOut, provider>>
    BY <1>2 DEF Pass, CacheHit, Forward, ForwardAged, OPAnswer, OPIssue, OPRefuse, OPOutage,
       Continue, TokensArrive, TokensRefused, IdTokenRejected, StoreTokens, RefreshFailed,
       zones, op, IInv, TypeOK
  <2>7. issued'[r] = issued[r] /\ valid'[r] = valid[r]
    BY <1>2, <2>5 DEF Pass, CacheHit, Forward, ForwardAged, OPAnswer, OPIssue, OPRefuse,
       OPOutage, Continue, TokensArrive, TokensRefused, IdTokenRejected, StoreTokens,
       RefreshFailed, op, IInv, TypeOK
  <2>8. \A key \in TokensOf(r) : cache'[key] = cache[key]
    BY <1>2, <2>5 DEF Pass, CacheHit, Forward, ForwardAged, OPAnswer, OPIssue, OPRefuse,
       OPOutage, Continue, TokensArrive, TokensRefused, IdTokenRejected, StoreTokens,
       RefreshFailed, Key, CacheKey, IInv, TypeOK
  <2>. QED
    BY <2>4, <2>6, <2>7, <2>8 DEF Untouched
<1>. QED
  BY <1>1, <1>2

\* Every step keeps every session alive.
LEMMA NextSurvival ==
    ASSUME RetiringOPsAnswer, OnlyOutages, IInv, SurvivalInv, [Next]_vars
    PROVE  SurvivalInv'
<1>. SUFFICES ASSUME NEW r \in Sessions PROVE Lasting(r)'
  BY DEF SurvivalInv
<1>1. \A s \in Sessions : Lasting(s)
  BY DEF SurvivalInv
<1>2. provider.retires => provider.rotates /\ ~provider.slow /\ ~provider.loses
  BY OPsAssumption DEF RetiringOPsAnswer, IInv, TypeOK, OPKinds
<1>3. CASE \E q \in Requests : Request(q)
  <2>. PICK q \in Requests, s \in Sessions :
         \/ AccessByToken(q, s) \/ AccessRefresh(q, s) \/ AccessUnauthenticated(q, s)
         \/ ProxyByToken(q, s) \/ ProxyRefresh(q, s) \/ ProxyUnauthenticated(q, s)
    BY <1>3 DEF Request
  <2>1. CASE AccessRefresh(q, s) \/ ProxyRefresh(q, s)
    BY <1>1, <2>1, StartLasts, HandlerFrame, Frame
  <2>2. CASE AccessByToken(q, s) \/ AccessUnauthenticated(q, s)
               \/ ProxyByToken(q, s) \/ ProxyUnauthenticated(q, s)
    BY <1>1, <2>2, IdleEndLasts
  <2>. QED
    BY <2>1, <2>2
<1>4. CASE \E q \in Requests : Pass(q) \/ OPAnswer(q) \/ Continue(q)
  <2>. PICK q \in Requests : Pass(q) \/ OPAnswer(q) \/ Continue(q)
    BY <1>4
  <2>1. handlers[q].pc # "idle"
    BY DEF Pass, CacheHit, Forward, ForwardAged, OPAnswer, OPIssue, OPRefuse, OPOutage,
       Continue, TokensArrive, TokensRefused, IdTokenRejected, StoreTokens
  <2>. PICK s \in Sessions : s = handlers[q].session
    BY <2>1 DEF IInv, HandlersShaped, Shaped
  <2>2. CASE r # s
    <3>1. Untouched(r)
      BY <2>2, HandlerFrame
    <3>. QED
      BY <1>1, <3>1, Frame
  <2>3. CASE r = s
    <3>1. CASE Pass(q)
      BY <1>1, <1>2, <2>3, <3>1, ForwardLasts, CacheHitLasts DEF Pass
    <3>2. CASE OPAnswer(q)
      BY <1>1, <1>2, <2>3, <3>2, IssueLasts, NoTokensLast DEF OPAnswer
    <3>3. CASE Continue(q)
      <4>1. ~IdTokenRejected(q)
        BY <1>1, NoneRejected
      <4>. QED
        BY <1>1, <1>2, <2>3, <3>3, <4>1, ArriveLasts, RefusedLasts, StoreLasts DEF Continue
    <3>. QED
      BY <3>1, <3>2, <3>3
  <2>. QED
    BY <2>2, <2>3
<1>5. CASE \E s \in Sessions :
             Logout(s) \/ OPRevoke(s) \/ IdTokenExpires(s) \/ ZoneTimeout(s)
  <2>. PICK s \in Sessions :
         Logout(s) \/ OPRevoke(s) \/ IdTokenExpires(s) \/ ZoneTimeout(s)
    BY <1>5
  <2>1. CASE r = s
    BY <1>1, <2>1, EnvironmentLasts
  <2>2. CASE r # s
    <3>1. Untouched(r)
      BY <2>2 DEF Untouched, Logout, OPRevoke, IdTokenExpires, ZoneTimeout, zones, op,
         Refreshing, IInv, TypeOK
    <3>. QED
      BY <1>1, <3>1, Frame
  <2>. QED
    BY <2>1, <2>2
<1>6. CASE \E key \in Tokens : CacheExpires(key)
  BY <1>1, <1>6, CacheExpiresLasts
<1>7. CASE UNCHANGED vars
  <2>1. Untouched(r)
    BY <1>7 DEF Untouched, vars, Refreshing
  <2>. QED
    BY <1>1, <2>1, Frame
<1>. QED
  BY <1>3, <1>4, <1>5, <1>6, <1>7 DEF Next

\* As long as it is neither logged out nor revoked by the OP, a session holds a refresh
\* token that still leads to new tokens, however its requests race to refresh them and
\* how often the OP is out of order.  That nothing else goes wrong (OnlyOutages), and
\* that an OP that retires a used refresh token answers within the age of the lock and
\* loses no answer (RetiringOPsAnswer), is assumed: without it, the code loses sessions.
THEOREM SessionSurvivesHolds ==
    ASSUME RetiringOPsAnswer, OnlyOutages
    PROVE  Spec => []SessionSurvives
<1>1. Init => SurvivalInv
  BY InitSurvival
<1>2. IInv /\ SurvivalInv /\ [Next]_vars => SurvivalInv'
  BY NextSurvival
<1>3. IInv /\ SurvivalInv => SessionSurvives
  <2>. SUFFICES ASSUME IInv, NEW s \in Sessions, Lasting(s), loggedOut[s] = "no",
                       valid[s] # {}
                PROVE  refreshTokens[s] # NoToken /\ Usable(s, refreshTokens[s])
    BY DEF SessionSurvives, SurvivalInv
  <2>1. refreshTokens[s] # NoToken
    BY DEF Lasting, Alive, AllAccepted, OneAccepted
  <2>2. refreshTokens[s] \in TokensOf(s) /\ refreshTokens[s].owner = s
    BY <2>1 DEF IInv, TokensOwned, TokensOf
  <2>3. CASE refreshTokens[s].gen \in valid[s]
    BY <2>1, <2>2, <2>3 DEF Usable, OPAccepts
  <2>4. CASE refreshTokens[s].gen \notin valid[s]
    <3>1. OneAccepted(s) /\ refreshTokens[s] # Current(s)
      BY <2>4, CurrentToken DEF Lasting, Alive, AllAccepted, OneAccepted
    <3>. PICK q \in Refreshing(s) : CarriesCurrent(q, s) /\ Used(s, refreshTokens[s])
      BY <3>1 DEF OneAccepted
    <3>2. handlers[q].refreshToken = refreshTokens[s]
      BY <2>2, RefreshingShape, TokenFacts DEF CarriesCurrent, Used
    <3>. QED
      BY <2>1, <3>2, CurrentToken DEF Usable, CarriesCurrent
  <2>. QED
    BY <2>3, <2>4
<1>. QED
  BY <1>1, <1>2, <1>3, Invariant, PTL DEF Spec
====
