---- MODULE AccessTokens_proofs ----
(***************************************************************************)
(* Theorems about AccessTokens, for any tokens, requests and times that    *)
(* satisfy the assumptions of that module.                                 *)
(***************************************************************************)
EXTENDS AccessTokens, TLAPS

-----------------------------------------------------------------------------
(* The inductive invariant *)

\* The token is no good.
Over(token) == revoked[token] # None \/ expires[token] <= now

\* What an OP may say is not active.
Deniable(token) == Over(token) \/ Kind[token] = "foreign"

\* A token of the session that is passed on, or on its way to it, lives long enough to
\* be looked at, and at first to be stored.
OutlastsUse(h) ==
    /\ h.pc = "arriving" => h.since + Lifetime <= expires[h.token]
    /\ h.pc = "passed" => h.since + MaxDelay < expires[h.token]
    /\ h.pc \in {"arriving", "passed"} => Kind[h.token] = "session"

\* An introspection says that a token is active only if it was so when it was asked for,
\* and that it is not only if it is no good, or another client's.
AnsweredRight(h) == h.pc = "answering" =>
    /\ h.body = "active" /\ revoked[h.token] # None => h.since <= revoked[h.token]
    /\ h.body = "inactive" => Deniable(h.token)

\* Each kind of request goes its own way.
OnItsWay(q, h) ==
    /\ q \in Proxied => h.pc \in {"idle", "refreshing", "arriving", "passed"}
    /\ q \in Verified => h.pc \in {"idle", "introspecting", "answering"}
    /\ h.token = None <=> h.pc \in {"idle", "refreshing"}

\* Whoever waits is answered within MaxDelay.
InTime(h) == h.pc # "idle" => h.since <= now /\ now <= h.since + MaxDelay

Right(q, h) ==
    /\ OnItsWay(q, h) /\ InTime(h) /\ OutlastsUse(h) /\ AnsweredRight(h)
    /\ h.token # None => expires[h.token] # None
RequestsRight == \A q \in Requests : Right(q, requests[q])

\* The stored token can still be passed on and looked at before it expires, the cached
\* one can still be stored.
KeptFor(entry, time) == Live(entry) =>
    /\ entry.token # None /\ Kind[entry.token] = "session"
    /\ expires[entry.token] # None
    /\ now < entry.until
    /\ entry.until + time + MaxDelay <= expires[entry.token]
TokensOutlastUse == KeptFor(zone, 0) /\ KeptFor(tokenCache, ZoneTTL - 1)

\* An old answer that a token is active is not much older than its revocation.
CachedRight(token, entry) == entry # None =>
    /\ expires[token] # None
    /\ entry.until <= now + IntrospectionTTL
    /\ entry.body = "active" /\ revoked[token] # None =>
         entry.until <= revoked[token] + MaxDelay + IntrospectionTTL
    /\ entry.body = "inactive" => Deniable(token)
IntrospectionsRight == \A token \in Tokens : CachedRight(token, introspections[token])

TimesPast == \A token \in Tokens :
    /\ expires[token] # None => expires[token] <= now + Lifetime
    /\ revoked[token] # None => revoked[token] <= now

AnswerRight == ProxiedIsAccepted /\ AcceptedIsCurrent /\ RefusedIsOver

IInv ==
    /\ TypeOK /\ TimesPast
    /\ RequestsRight /\ TokensOutlastUse /\ IntrospectionsRight
    /\ AnswerRight

-----------------------------------------------------------------------------
(* Requests *)

\* A request as a record of all its fields.
Record(pc, token, since, body) == [pc |-> pc, token |-> token, since |-> since, body |-> body]

LEMMA IdleRecord == IdleRequest = Record("idle", None, 0, "inactive")
  BY DEF IdleRequest, Record

LEMMA TimeTypes ==
    /\ MaxTime \in Nat /\ Lifetime \in Nat /\ IntrospectionTTL \in Nat /\ MaxDelay \in Nat
    /\ CacheSize \in Nat
    /\ ZoneTTL \in Nat \ {0} /\ TokenCacheTTL \in Nat \ {0}
    /\ None \notin Tokens /\ None \notin Nat
    /\ ZoneTTL + TokenCacheTTL + 2 * MaxDelay - 2 < Lifetime
  BY TimesAssumption, NoneAssumption, LifetimeAssumption

LEMMA RecordType ==
    ASSUME TypeOK, NEW token \in Tokens \cup {None},
           NEW pc \in {"idle", "refreshing", "arriving", "passed", "introspecting", "answering"},
           NEW body \in Bodies, NEW since \in 0 .. MaxTime
    PROVE  Record(pc, token, since, body) \in Request
  BY DEF Record, Request

LEMMA MovedAs ==
    ASSUME NEW q, NEW pc, NEW token, Moved(q, pc, token)
    PROVE  requests' = [requests EXCEPT ![q] = Record(pc, token, now, "inactive")]
<1>. PICK h : h = [IdleRequest EXCEPT !.pc = pc, !.token = token, !.since = now]
  OBVIOUS
<1>1. h \in [pc : {pc}, token : {token}, since : {now}, body : {"inactive"}]
  BY IdleRecord DEF Record
<1>2. h = Record(pc, token, now, "inactive")
  BY <1>1 DEF Record
<1>. QED
  BY <1>2 DEF Moved

\* The last of two changes to a request is what stays of it.
LEMMA ChangedTwice ==
    ASSUME TypeOK, NEW q \in Requests, NEW g, NEW h,
           requests' = [[requests EXCEPT ![q] = g] EXCEPT ![q] = h]
    PROVE  requests' = [requests EXCEPT ![q] = h]
  BY DEF TypeOK

LEMMA IssuedAs ==
    ASSUME TypeOK, NEW q \in Requests, NEW token,
           requests' = [requests EXCEPT ![q].pc = "arriving", ![q].token = token]
    PROVE  requests' = [requests EXCEPT ![q] =
             Record("arriving", token, requests[q].since, requests[q].body)]
<1>. PICK g : g = [requests[q] EXCEPT !.pc = "arriving"]
  OBVIOUS
<1>. PICK h : h = [g EXCEPT !.token = token]
  OBVIOUS
<1>1. requests[q] \in Request
  BY DEF TypeOK
<1>2. g \in [pc : {"arriving"}, token : {requests[q].token}, since : {requests[q].since},
            body : {requests[q].body}]
  BY <1>1 DEF Request
<1>3. h \in [pc : {"arriving"}, token : {token}, since : {requests[q].since},
            body : {requests[q].body}]
  BY <1>2
<1>4. h = Record("arriving", token, requests[q].since, requests[q].body)
  BY <1>3 DEF Record
<1>5. requests' = [[requests EXCEPT ![q] = g] EXCEPT ![q] = h]
  BY DEF TypeOK
<1>. QED
  BY <1>4, <1>5, ChangedTwice

LEMMA IntrospectedAs ==
    ASSUME TypeOK, NEW q \in Requests, NEW body,
           requests' = [requests EXCEPT ![q].pc = "answering", ![q].body = body]
    PROVE  requests' = [requests EXCEPT ![q] =
             Record("answering", requests[q].token, requests[q].since, body)]
<1>. PICK g : g = [requests[q] EXCEPT !.pc = "answering"]
  OBVIOUS
<1>. PICK h : h = [g EXCEPT !.body = body]
  OBVIOUS
<1>1. requests[q] \in Request
  BY DEF TypeOK
<1>2. g \in [pc : {"answering"}, token : {requests[q].token}, since : {requests[q].since},
            body : {requests[q].body}]
  BY <1>1 DEF Request
<1>3. h \in [pc : {"answering"}, token : {requests[q].token}, since : {requests[q].since},
            body : {body}]
  BY <1>2
<1>4. h = Record("answering", requests[q].token, requests[q].since, body)
  BY <1>3 DEF Record
<1>5. requests' = [[requests EXCEPT ![q] = g] EXCEPT ![q] = h]
  BY DEF TypeOK
<1>. QED
  BY <1>4, <1>5, ChangedTwice

\* One request takes a step, the clock and the OP do not: the others stay right.
LEMMA RequestStep ==
    ASSUME IInv, UNCHANGED <<now, expires, revoked>>,
           NEW q \in Requests, NEW h \in Request, Right(q, h),
           requests' = [requests EXCEPT ![q] = h]
    PROVE  /\ requests' \in [Requests -> Request]
           /\ \A p \in Requests : requests'[p].token = None
                <=> requests'[p].pc \in {"idle", "refreshing"}
           /\ RequestsRight'
<1>1. /\ requests' \in [Requests -> Request]
      /\ requests'[q] = h
      /\ \A p \in Requests \ {q} : requests'[p] = requests[p]
  BY DEF IInv, TypeOK
<1>2. \A p \in Requests : Right(p, requests'[p])
  BY <1>1 DEF IInv, RequestsRight
<1>3. ASSUME NEW p \in Requests PROVE Right(p, requests[p])'
  <2>1. PICK g : g = requests'[p]
    OBVIOUS
  <2>2. Right(p, g)
    BY <1>2, <2>1
  <2>3. Right(p, g)'
    BY <2>2 DEF Right, OnItsWay, InTime, OutlastsUse, AnsweredRight, Deniable, Over
  <2>. QED
    BY <2>1, <2>3 DEF Right, OnItsWay, InTime, OutlastsUse, AnsweredRight, Deniable, Over
<1>. QED
  BY <1>1, <1>2, <1>3 DEF RequestsRight, Right, OnItsWay

LEMMA IdleRight ==
    ASSUME NEW q \in Requests
    PROVE  IdleRequest \in Request /\ Right(q, IdleRequest)
<1>1. IdleRequest \in Request
  BY TimeTypes DEF IdleRequest, Request, Bodies
<1>. QED
  BY <1>1, IdleRecord DEF Record, Right, OnItsWay, InTime, OutlastsUse, AnsweredRight

-----------------------------------------------------------------------------
(* The answers *)

\* A step that answers nothing cannot answer wrongly.
LEMMA NoAnswerRight ==
    ASSUME answer' = None
    PROVE  AnswerRight' /\ (answer \in Answer \cup {None})'
  BY DEF AnswerRight, ProxiedIsAccepted, AcceptedIsCurrent, RefusedIsOver

\* What verifyToken says of a token, by the introspection it got.
LEMMA StatusType ==
    ASSUME NEW token \in Tokens, NEW body \in Bodies
    PROVE  /\ VerifyStatus(token, body) \in {200, 401, 403, 500, 502}
           /\ VerifyStatus(token, body) = 200 =>
                /\ body = "active" /\ Kind[token] # "foreign"
                /\ ~ expires[token] < now
           /\ VerifyStatus(token, body) = 401 =>
                body \in {"inactive", "void", "bad_exp"} \/ expires[token] < now
  BY DEF VerifyStatus, IntrospectStatus, Bodies

\* What an answer has to satisfy, in terms of the state before it.
RightAnswer(q, token, status, body, stale) ==
    /\ status \in {200, 401, 403, 500, 502, 503} /\ stale \in BOOLEAN
    /\ body \in Bodies \cup {None}
    /\ q \in Proxied /\ token # None =>
         /\ now < expires[token]
         /\ status = 401 /\ body \in OPsWord => revoked[token] # None
    /\ q \in Verified /\ status = 200 =>
         /\ Kind[token] = "session"
         /\ now <= expires[token]
         /\ revoked[token] = None \/ stale \/ now <= revoked[token] + IntrospectionTTL + MaxDelay
    /\ q \in Verified /\ status = 401 =>
         \/ Over(token)
         \/ Kind[token] = "foreign" /\ body = "inactive"
         \/ body \in {"void", "bad_exp"}

\* A step that answers, rightly, keeps AnswerRight.
LEMMA AnsweredRightly ==
    ASSUME IInv, NEW q \in Requests, NEW token, token = requests[q].token,
           NEW status, NEW body, NEW stale,
           Answered(q, status, body, stale), UNCHANGED <<now, expires, revoked>>,
           RightAnswer(q, token, status, body, stale)
    PROVE  AnswerRight' /\ (answer \in Answer \cup {None})'
<1>1. answer' = [request |-> q, token |-> token, status |-> status, body |-> body,
                 stale |-> stale]
  BY DEF Answered
<1>2. token \in Tokens \cup {None}
  BY DEF IInv, TypeOK, Request
<1>3. (answer \in Answer)'
  BY <1>1, <1>2 DEF Answer, RightAnswer
<1>4. /\ answer'.request = q /\ answer'.token = token /\ answer'.status = status
      /\ answer'.body = body /\ answer'.stale = stale
  BY <1>1
<1>5. ProxiedIsAccepted'
  BY <1>4 DEF ProxiedIsAccepted, RightAnswer
<1>6. AcceptedIsCurrent' /\ RefusedIsOver'
  BY <1>4 DEF AcceptedIsCurrent, RefusedIsOver, RightAnswer, Over
<1>. QED
  BY <1>3, <1>5, <1>6 DEF AnswerRight

-----------------------------------------------------------------------------
(* The invariant is inductive. *)

LEMMA InitIInv == Init => IInv
<1>. SUFFICES ASSUME Init PROVE IInv
  OBVIOUS
<1>1. TypeOK
  BY TimeTypes, IdleRight, IdleRecord
  DEF Init, TypeOK, Times, Entry, NoEntry, Record, Introspection
<1>2. RequestsRight
  BY IdleRight DEF Init, RequestsRight
<1>3. TimesPast /\ TokensOutlastUse /\ IntrospectionsRight
  BY TimeTypes DEF Init, TimesPast, TokensOutlastUse, KeptFor, Live, IntrospectionsRight, CachedRight
<1>4. AnswerRight
  BY DEF Init, AnswerRight, ProxiedIsAccepted, AcceptedIsCurrent, RefusedIsOver
<1>. QED
  BY <1>1, <1>2, <1>3, <1>4 DEF IInv

\* A step between the zone, the caches and one request: what is to be shown of the caches.
LEMMA CachesStep ==
    ASSUME IInv, UNCHANGED <<now, opState>>,
           NEW q \in Requests, NEW h \in Request, Right(q, h),
           requests' = [requests EXCEPT ![q] = h],
           AnswerRight', (answer \in Answer \cup {None})',
           zone' \in Entry, tokenCache' \in Entry,
           introspections' \in [Tokens -> Introspection \cup {None}],
           TokensOutlastUse', IntrospectionsRight'
    PROVE  IInv'
<1>1. UNCHANGED <<now, expires, revoked>>
  BY DEF opState
<1>2. /\ requests' \in [Requests -> Request]
      /\ \A p \in Requests : requests'[p].token = None
           <=> requests'[p].pc \in {"idle", "refreshing"}
      /\ RequestsRight'
  BY <1>1, RequestStep
<1>3. TypeOK'
  BY <1>1, <1>2 DEF IInv, TypeOK
<1>4. TimesPast'
  BY <1>1 DEF IInv, TimesPast
<1>. QED
  BY <1>2, <1>3, <1>4 DEF IInv

\* Without a tick, what is kept stays good.
LEMMA CachesUnchanged ==
    ASSUME IInv, UNCHANGED <<now, opState, caches>>
    PROVE  /\ zone' \in Entry /\ tokenCache' \in Entry
           /\ introspections' \in [Tokens -> Introspection \cup {None}]
           /\ TokensOutlastUse' /\ IntrospectionsRight'
  BY DEF IInv, TypeOK, opState, caches, TokensOutlastUse, KeptFor, Live, IntrospectionsRight,
     CachedRight, Deniable, Over

\* A request begins or goes on, without more.
LEMMA MovedStep ==
    ASSUME IInv, UNCHANGED <<now, opState, caches>>, NEW q \in Requests,
           NEW pc \in {"refreshing", "passed", "introspecting"},
           NEW token \in Tokens \cup {None},
           Moved(q, pc, token), Right(q, Record(pc, token, now, "inactive"))
    PROVE  IInv'
<1>1. Record(pc, token, now, "inactive") \in Request
  BY RecordType DEF IInv, TypeOK, Bodies
<1>2. requests' = [requests EXCEPT ![q] = Record(pc, token, now, "inactive")]
  BY MovedAs
<1>3. AnswerRight' /\ (answer \in Answer \cup {None})'
  BY NoAnswerRight DEF Moved
<1>. QED
  BY <1>1, <1>2, <1>3, CachesStep, CachesUnchanged DEF caches

\* A request ends, without more.
LEMMA AnsweredStep ==
    ASSUME IInv, UNCHANGED <<now, opState, caches>>, NEW q \in Requests,
           NEW status, NEW body, NEW stale, Answered(q, status, body, stale),
           AnswerRight', (answer \in Answer \cup {None})'
    PROVE  IInv'
<1>1. requests' = [requests EXCEPT ![q] = IdleRequest]
  BY DEF Answered
<1>. QED
  BY <1>1, IdleRight, CachesStep, CachesUnchanged DEF caches

\* The same of an answer that is not out of the cache past its time.
LEMMA FreshAnswerStep ==
    ASSUME IInv, UNCHANGED <<now, opState, caches>>, NEW q \in Requests,
           NEW token, token = requests[q].token, NEW status, NEW body,
           Answered(q, status, body, FALSE), RightAnswer(q, token, status, body, FALSE)
    PROVE  IInv'
<1>1. UNCHANGED <<now, expires, revoked>>
  BY DEF opState
<1>2. AnswerRight' /\ (answer \in Answer \cup {None})'
  BY <1>1, AnsweredRightly
<1>. QED
  BY <1>2, AnsweredStep

LEMMA ProxyByTokenStep ==
    ASSUME IInv, NEW q \in Proxied, ProxyByToken(q)
    PROVE  IInv'
<1>1. q \in Requests /\ q \notin Verified
  BY RequestsAssumption DEF Requests
<1>2. /\ zone.token \in Tokens /\ Kind[zone.token] = "session"
      /\ expires[zone.token] # None
      /\ now + MaxDelay < expires[zone.token]
  <2>1. /\ zone.token # None /\ Kind[zone.token] = "session"
        /\ expires[zone.token] # None
        /\ now < zone.until
        /\ zone.until + 0 + MaxDelay <= expires[zone.token]
    BY DEF IInv, TokensOutlastUse, KeptFor, ProxyByToken
  <2>2. zone.token \in Tokens /\ zone.until \in Int /\ now \in Int
    BY <2>1, TimeTypes DEF IInv, TypeOK, Entry, Times
  <2>3. expires[zone.token] \in Int
    BY <2>1, <2>2, TimeTypes DEF IInv, TypeOK, Times
  <2>. QED
    BY <2>1, <2>2, <2>3, TimeTypes
<1>3. Right(q, Record("passed", zone.token, now, "inactive"))
  BY <1>1, <1>2, TimeTypes
  DEF Right, OnItsWay, InTime, OutlastsUse, AnsweredRight, Record, IInv, TypeOK
<1>4. Moved(q, "passed", zone.token) /\ UNCHANGED <<now, opState, caches>>
  BY DEF ProxyByToken
<1>. QED
  BY <1>1, <1>2, <1>3, <1>4, MovedStep

LEMMA ProxyRefreshStep ==
    ASSUME IInv, NEW q \in Proxied, ProxyRefresh(q)
    PROVE  IInv'
<1>1. q \in Requests /\ q \notin Verified
  BY RequestsAssumption DEF Requests
<1>2. Right(q, Record("refreshing", None, now, "inactive"))
  BY <1>1, TimeTypes
  DEF Right, OnItsWay, InTime, OutlastsUse, AnsweredRight, Record, IInv, TypeOK
<1>3. Moved(q, "refreshing", None) /\ UNCHANGED <<now, opState, caches>>
  BY DEF ProxyRefresh
<1>. QED
  BY <1>1, <1>2, <1>3, MovedStep

LEMMA VerifyStep ==
    ASSUME IInv, NEW q \in Verified, NEW token \in Tokens, Verify(q, token)
    PROVE  IInv'
<1>1. q \in Requests /\ q \notin Proxied
  BY RequestsAssumption DEF Requests
<1>2. Right(q, Record("introspecting", token, now, "inactive"))
  BY <1>1, TimeTypes
  DEF Verify, Right, OnItsWay, InTime, OutlastsUse, AnsweredRight, Record, IInv, TypeOK
<1>3. Moved(q, "introspecting", token) /\ UNCHANGED <<now, opState, caches>>
  BY DEF Verify
<1>. QED
  BY <1>1, <1>2, <1>3, MovedStep

\* The two steps that store a token: out of the token cache, and as the OP answers.
LEMMA TokenCacheHitStep ==
    ASSUME IInv, NEW q \in Proxied, TokenCacheHit(q)
    PROVE  IInv'
<1>. DEFINE token == tokenCache.token
<1>1. q \in Requests /\ q \notin Verified
  BY RequestsAssumption DEF Requests
<1>2. /\ token \in Tokens /\ Kind[token] = "session"
      /\ expires[token] # None
      /\ expires[token] \in Int
      /\ now + ZoneTTL + MaxDelay <= expires[token]
      /\ now \in 0 .. MaxTime
  <2>1. /\ token # None /\ Kind[token] = "session"
        /\ expires[token] # None
        /\ now < tokenCache.until
        /\ tokenCache.until + (ZoneTTL - 1) + MaxDelay <= expires[token]
    BY DEF IInv, TokensOutlastUse, KeptFor, TokenCacheHit
  <2>2. token \in Tokens /\ tokenCache.until \in Int /\ now \in 0 .. MaxTime
    BY <2>1, TimeTypes DEF IInv, TypeOK, Entry, Times
  <2>3. expires[token] \in Int
    BY <2>1, <2>2, TimeTypes DEF IInv, TypeOK, Times
  <2>. QED
    BY <2>1, <2>2, <2>3, TimeTypes
<1>3. Right(q, Record("passed", token, now, "inactive"))
  BY <1>1, <1>2, TimeTypes
  DEF Right, OnItsWay, InTime, OutlastsUse, AnsweredRight, Record
<1>4. /\ Moved(q, "passed", token)
      /\ zone' = [token |-> token, until |-> now + ZoneTTL]
      /\ UNCHANGED <<now, opState>> /\ UNCHANGED <<tokenCache, introspections>>
  BY DEF TokenCacheHit
<1>5. UNCHANGED <<now, expires, revoked>>
  BY <1>4 DEF opState
<1>6. KeptFor(zone, 0)'
  BY <1>2, <1>4, <1>5, TimeTypes DEF KeptFor
<1>7. TokensOutlastUse' /\ IntrospectionsRight'
  BY <1>4, <1>5, <1>6
  DEF IInv, TokensOutlastUse, KeptFor, Live, IntrospectionsRight, CachedRight, Deniable, Over
<1>8. zone' \in Entry /\ tokenCache' \in Entry
      /\ introspections' \in [Tokens -> Introspection \cup {None}]
  BY <1>2, <1>4, TimeTypes DEF IInv, TypeOK, Entry, Times
<1>9. Record("passed", token, now, "inactive") \in Request
  BY <1>2, RecordType DEF IInv, Bodies
<1>10. requests' = [requests EXCEPT ![q] = Record("passed", token, now, "inactive")]
  BY <1>4, MovedAs
<1>11. AnswerRight' /\ (answer \in Answer \cup {None})'
  BY <1>4, NoAnswerRight DEF Moved
<1>. HIDE DEF token
<1>. QED
  BY <1>1, <1>3, <1>4, <1>7, <1>8, <1>9, <1>10, <1>11, CachesStep

LEMMA TokensArriveStep ==
    ASSUME IInv, NEW q \in Proxied, TokensArrive(q)
    PROVE  IInv'
<1>. PICK token : token = requests[q].token
  OBVIOUS
<1>1. q \in Requests /\ q \notin Verified
  BY RequestsAssumption DEF Requests
<1>2. /\ token \in Tokens /\ Kind[token] = "session"
      /\ expires[token] # None
      /\ expires[token] \in Int
      /\ now + ZoneTTL + TokenCacheTTL + MaxDelay - 1 <= expires[token]
      /\ now \in 0 .. MaxTime
  <2>1. /\ requests[q].pc = "arriving" /\ Right(q, requests[q])
        /\ requests[q] \in Request
    BY <1>1 DEF IInv, RequestsRight, TokensArrive, TypeOK
  <2>2. /\ now <= requests[q].since + MaxDelay
        /\ requests[q].since + Lifetime <= expires[token]
        /\ token # None /\ expires[token] # None /\ Kind[token] = "session"
    BY <1>1, <2>1 DEF Right, OnItsWay, InTime, OutlastsUse
  <2>3. /\ token \in Tokens /\ requests[q].since \in Int /\ now \in 0 .. MaxTime
    BY <2>1, <2>2, TimeTypes DEF IInv, TypeOK, Request
  <2>4. expires[token] \in Int
    BY <2>2, <2>3, TimeTypes DEF IInv, TypeOK, Times
  <2>. QED
    BY <2>2, <2>3, <2>4, TimeTypes
<1>3. Right(q, Record("passed", token, now, "inactive"))
  BY <1>1, <1>2, TimeTypes
  DEF Right, OnItsWay, InTime, OutlastsUse, AnsweredRight, Record
<1>4. /\ Moved(q, "passed", token)
      /\ zone' = [token |-> token, until |-> now + ZoneTTL]
      /\ tokenCache' = [token |-> token, until |-> now + TokenCacheTTL]
      /\ UNCHANGED <<now, opState>> /\ UNCHANGED introspections
  BY DEF TokensArrive, TokenAnswerUntil
<1>5. UNCHANGED <<now, expires, revoked>>
  BY <1>4 DEF opState
<1>6. KeptFor(zone, 0)'
  BY <1>2, <1>4, <1>5, TimeTypes DEF KeptFor
<1>7. KeptFor(tokenCache, ZoneTTL - 1)'
  BY <1>2, <1>4, <1>5, TimeTypes DEF KeptFor
<1>8. TokensOutlastUse' /\ IntrospectionsRight'
  BY <1>4, <1>5, <1>6, <1>7 DEF IInv, TokensOutlastUse, IntrospectionsRight, CachedRight, Deniable, Over
<1>9. zone' \in Entry /\ tokenCache' \in Entry
      /\ introspections' \in [Tokens -> Introspection \cup {None}]
  BY <1>2, <1>4, TimeTypes DEF IInv, TypeOK, Entry, Times
<1>10. Record("passed", token, now, "inactive") \in Request
  BY <1>2, RecordType DEF IInv, Bodies
<1>11. requests' = [requests EXCEPT ![q] = Record("passed", token, now, "inactive")]
  BY <1>4, MovedAs
<1>12. AnswerRight' /\ (answer \in Answer \cup {None})'
  BY <1>4, NoAnswerRight DEF Moved
<1>. QED
  BY <1>1, <1>3, <1>4, <1>8, <1>9, <1>10, <1>11, <1>12, CachesStep

LEMMA RefreshFailsStep ==
    ASSUME IInv, NEW q \in Proxied, RefreshFails(q)
    PROVE  IInv'
<1>1. q \in Requests /\ q \notin Verified
  BY RequestsAssumption DEF Requests
<1>2. Answered(q, 502, None, FALSE) /\ UNCHANGED <<now, opState, caches>>
  BY DEF RefreshFails
<1>3. RightAnswer(q, requests[q].token, 502, None, FALSE)
  <2>1. requests[q].token = None
    BY <1>1 DEF IInv, TypeOK, RefreshFails
  <2>. QED
    BY <1>1, <2>1 DEF RightAnswer
<1>4. AnswerRight' /\ (answer \in Answer \cup {None})'
  BY <1>1, <1>2, <1>3, AnsweredRightly DEF opState
<1>. QED
  BY <1>1, <1>2, <1>4, AnsweredStep

LEMMA ResourceProviderStep ==
    ASSUME IInv, NEW q \in Proxied, ResourceProvider(q)
    PROVE  IInv'
<1>1. q \in Requests /\ q \notin Verified
  BY RequestsAssumption DEF Requests
<1>2. UNCHANGED <<now, opState, caches>> /\ requests[q].pc = "passed"
  BY DEF ResourceProvider
<1>3. /\ requests[q].token \in Tokens
      /\ expires[requests[q].token] # None
      /\ now < expires[requests[q].token]
  <2>1. Right(q, requests[q]) /\ requests[q] \in Request
    BY <1>1 DEF IInv, RequestsRight, TypeOK
  <2>2. /\ now <= requests[q].since + MaxDelay
        /\ requests[q].since + MaxDelay < expires[requests[q].token]
        /\ requests[q].token # None /\ expires[requests[q].token] # None
    BY <1>1, <1>2, <2>1 DEF Right, OnItsWay, InTime, OutlastsUse
  <2>3. /\ requests[q].token \in Tokens /\ requests[q].since \in Int /\ now \in Int
    BY <2>1, <2>2, TimeTypes DEF IInv, TypeOK, Request
  <2>4. expires[requests[q].token] \in Int
    BY <2>2, <2>3, TimeTypes DEF IInv, TypeOK, Times
  <2>. QED
    BY <2>2, <2>3, <2>4, TimeTypes
<1>. PICK token : token = requests[q].token
  OBVIOUS
<1>4. PICK status, body :
        /\ Answered(q, status, body, FALSE)
        /\ \/ body \in IntrospectBodies(token) /\ status \in ResourceProviderStatuses(body)
           \/ body = None /\ status \in {500, 503}
  BY Zenon DEF ResourceProvider
<1>5. RightAnswer(q, token, status, body, FALSE)
  <2>1. body \in Bodies \cup {None} /\ status \in {200, 401, 500, 503}
    BY <1>4 DEF ResourceProviderStatuses, IntrospectBodies, Bodies, OPsWord
  <2>2. Kind[token] = "session"
    BY <1>1, <1>2, <1>3 DEF IInv, RequestsRight, Right, OutlastsUse
  <2>3. status = 401 /\ body \in OPsWord => revoked[token] # None
    BY <1>3, <1>4, <2>1, <2>2
    DEF ResourceProviderStatuses, IntrospectBodies, Bodies, OPsWord, Active
  <2>. QED
    BY <1>1, <1>3, <2>1, <2>3 DEF RightAnswer
<1>6. Answered(q, status, body, FALSE)
  BY <1>4
<1>7. q \in Requests
  BY <1>1
<1>8. UNCHANGED <<now, opState, caches>>
  BY <1>2
<1>. QED
  BY <1>5, <1>6, <1>7, <1>8, FreshAnswerStep

\* The OP issues a token nobody has seen: whoever has one has another.
LEMMA OPIssueStep ==
    ASSUME IInv, NEW q \in Proxied, NEW token \in Tokens, OPIssue(q, token)
    PROVE  IInv'
<1>. PICK h : h = Record("arriving", token, requests[q].since, requests[q].body)
  OBVIOUS
<1>1. q \in Requests /\ q \notin Verified
  BY RequestsAssumption DEF Requests
<1>2. /\ expires[token] = None /\ Kind[token] = "session"
      /\ expires' = [expires EXCEPT ![token] = now + Lifetime]
      /\ requests' = [requests EXCEPT ![q].pc = "arriving", ![q].token = token]
      /\ answer' = None
      /\ UNCHANGED now /\ UNCHANGED revoked /\ UNCHANGED <<zone, tokenCache, introspections>>
      /\ requests[q].pc = "refreshing"
  BY DEF OPIssue, caches
<1>3. requests' = [requests EXCEPT ![q] = h]
  BY <1>1, <1>2, IssuedAs DEF IInv
<1>4. /\ requests[q] \in Request /\ now \in 0 .. MaxTime
      /\ requests[q].since \in 0 .. MaxTime /\ requests[q].body \in Bodies
      /\ requests[q].since <= now /\ now <= requests[q].since + MaxDelay
  BY <1>1, <1>2 DEF IInv, TypeOK, Request, RequestsRight, Right, InTime
<1>5. h \in Request
  BY <1>4, RecordType DEF IInv
<1>6. /\ expires' \in [Tokens -> Times \cup {None}]
      /\ expires'[token] = now + Lifetime
      /\ \A other \in Tokens \ {token} : expires'[other] = expires[other]
      /\ expires'[token] # None
  BY <1>2, <1>4, TimeTypes DEF IInv, TypeOK, Times
<1>7. /\ requests' \in [Requests -> Request]
      /\ requests'[q] = h
      /\ \A p \in Requests \ {q} : requests'[p] = requests[p]
  BY <1>1, <1>3, <1>5 DEF IInv, TypeOK
<1>8. Right(q, h)'
  BY <1>1, <1>2, <1>4, <1>6, TimeTypes
  DEF Right, OnItsWay, InTime, OutlastsUse, AnsweredRight, Record
<1>9. ASSUME NEW p \in Requests \ {q} PROVE Right(p, requests[p])'
  <2>. PICK g : g = requests[p]
    OBVIOUS
  <2>1. Right(p, g) /\ g \in Request
    BY DEF IInv, RequestsRight, TypeOK
  <2>2. g.token # None => g.token \in Tokens \ {token}
    BY <1>2, <2>1 DEF Right, Request
  <2>3. Right(p, g)'
    BY <1>2, <1>6, <2>1, <2>2 DEF Right, OnItsWay, InTime, OutlastsUse, AnsweredRight, Deniable, Over
  <2>. QED
    BY <1>7, <2>3 DEF Right, OnItsWay, InTime, OutlastsUse, AnsweredRight, Deniable, Over
<1>10. RequestsRight'
  <2>1. Right(q, requests[q])'
    BY <1>7, <1>8 DEF Right, OnItsWay, InTime, OutlastsUse, AnsweredRight, Deniable, Over
  <2>. QED
    BY <1>9, <2>1 DEF RequestsRight
<1>11. TypeOK'
  <2>1. \A p \in Requests : requests'[p].token = None
           <=> requests'[p].pc \in {"idle", "refreshing"}
    BY <1>10 DEF RequestsRight, Right, OnItsWay
  <2>. QED
    BY <1>2, <1>6, <1>7, <2>1 DEF IInv, TypeOK
<1>12. TokensOutlastUse'
  <2>1. /\ Live(zone) => zone.token \in Tokens \ {token}
        /\ Live(tokenCache) => tokenCache.token \in Tokens \ {token}
    BY <1>2 DEF IInv, TypeOK, Entry, TokensOutlastUse, KeptFor
  <2>. QED
    BY <1>2, <1>6, <2>1 DEF IInv, TokensOutlastUse, KeptFor, Live
<1>13. IntrospectionsRight'
  <2>1. ASSUME NEW t \in Tokens PROVE CachedRight(t, introspections[t])'
    <3>1. CachedRight(t, introspections[t]) /\ (introspections[t] # None => t # token)
      BY <1>2 DEF IInv, IntrospectionsRight, CachedRight
    <3>. QED
      BY <1>2, <1>6, <3>1 DEF CachedRight, Deniable, Over
  <2>. QED
    BY <2>1 DEF IntrospectionsRight
<1>14. TimesPast'
  BY <1>2, <1>4, <1>6, TimeTypes DEF IInv, TimesPast
<1>. QED
  BY <1>2, <1>10, <1>11, <1>12, <1>13, <1>14, NoAnswerRight DEF IInv

-----------------------------------------------------------------------------
(* verifyToken *)

\* Who verifies a token holds an issued one.
LEMMA VerifyingFacts ==
    ASSUME IInv, NEW q \in Verified, requests[q].pc # "idle"
    PROVE  /\ q \in Requests /\ q \notin Proxied
           /\ requests[q].token \in Tokens
           /\ expires[requests[q].token] \in Int /\ expires[requests[q].token] # None
           /\ requests[q].body \in Bodies
           /\ requests[q].since \in 0 .. MaxTime /\ now \in 0 .. MaxTime
           /\ requests[q].since <= now /\ now <= requests[q].since + MaxDelay
           /\ AnsweredRight(requests[q])
           /\ revoked[requests[q].token] # None =>
                revoked[requests[q].token] \in Int
<1>1. q \in Requests /\ q \notin Proxied
  BY RequestsAssumption DEF Requests
<1>2. Right(q, requests[q]) /\ requests[q] \in Request
  BY <1>1 DEF IInv, RequestsRight, TypeOK
<1>3. requests[q].token \in Tokens /\ expires[requests[q].token] # None
  BY <1>2 DEF Right, OnItsWay, Request
<1>4. /\ expires[requests[q].token] \in Int
      /\ revoked[requests[q].token] # None => revoked[requests[q].token] \in Int
  BY <1>3, TimeTypes DEF IInv, TypeOK, Times
<1>. QED
  BY <1>1, <1>2, <1>3, <1>4 DEF Right, InTime, Request, IInv, TypeOK

\* An old answer: it said the truth, and exp is looked at again.
LEMMA OldAnswerRight ==
    ASSUME IInv, NEW q \in Verified, requests[q].pc = "introspecting",
           NEW stale \in BOOLEAN, introspections[requests[q].token] # None,
           stale \/ Valid(introspections[requests[q].token]),
           VerifyAnswered(q, introspections[requests[q].token].body, stale),
           UNCHANGED <<now, opState, caches>>
    PROVE  IInv'
<1>. PICK token, entry : token = requests[q].token /\ entry = introspections[token]
  OBVIOUS
<1>. PICK status : status = VerifyStatus(token, entry.body)
  OBVIOUS
<1>1. /\ q \in Requests /\ q \notin Proxied /\ token \in Tokens
      /\ expires[token] \in Int /\ now \in 0 .. MaxTime
      /\ revoked[token] # None => revoked[token] \in Int
  BY VerifyingFacts
<1>2. entry \in Introspection /\ CachedRight(token, entry)
  BY <1>1 DEF IInv, TypeOK, IntrospectionsRight
<1>3. /\ entry.body \in Bodies /\ entry.until \in Int
  BY <1>2, TimeTypes DEF Introspection, Times
<1>4. /\ status \in {200, 401, 403, 500, 502}
      /\ status = 200 => /\ entry.body = "active" /\ Kind[token] # "foreign"
                         /\ ~ expires[token] < now
      /\ status = 401 =>
           entry.body \in {"inactive", "void", "bad_exp"} \/ expires[token] < now
  BY <1>1, <1>3, StatusType
<1>5. status = 401 =>
        \/ Over(token)
        \/ Kind[token] = "foreign" /\ entry.body = "inactive"
        \/ entry.body \in {"void", "bad_exp"}
  BY <1>1, <1>2, <1>4 DEF CachedRight, Deniable, Over
<1>6. status = 200 =>
        /\ Kind[token] = "session"
        /\ now <= expires[token]
        /\ revoked[token] = None \/ stale
             \/ now <= revoked[token] + IntrospectionTTL + MaxDelay
  <2>1. Kind[token] \in {"session", "foreign"}
    BY <1>1, KindAssumption DEF Kinds
  <2>2. stale \/ now < entry.until
    BY DEF Valid
  <2>. QED
    BY <1>1, <1>2, <1>3, <1>4, <2>1, <2>2, TimeTypes DEF CachedRight
<1>7. Answered(q, status, entry.body, stale)
  BY DEF VerifyAnswered
<1>8. RightAnswer(q, token, status, entry.body, stale)
  BY <1>1, <1>3, <1>4, <1>5, <1>6 DEF RightAnswer
<1>9. AnswerRight' /\ (answer \in Answer \cup {None})'
  BY <1>1, <1>7, <1>8, AnsweredRightly DEF opState
<1>. QED
  BY <1>1, <1>7, <1>9, AnsweredStep

LEMMA IntrospectionCachedStep ==
    ASSUME IInv, NEW q \in Verified, IntrospectionCached(q)
    PROVE  IInv'
  BY OldAnswerRight DEF IntrospectionCached, Valid

LEMMA IntrospectionStaleStep ==
    ASSUME IInv, NEW q \in Verified, IntrospectionStale(q)
    PROVE  IInv'
  BY OldAnswerRight DEF IntrospectionStale

LEMMA IntrospectionFailsStep ==
    ASSUME IInv, NEW q \in Verified, IntrospectionFails(q)
    PROVE  IInv'
<1>1. q \in Requests /\ q \notin Proxied /\ requests[q].pc # "idle"
  BY RequestsAssumption DEF Requests, IntrospectionFails
<1>. PICK token : token = requests[q].token
  OBVIOUS
<1>2. PICK status : (status = 500 \/ status = 502) /\ Answered(q, status, None, FALSE)
  BY Zenon DEF IntrospectionFails
<1>3. UNCHANGED <<now, opState, caches>>
  BY DEF IntrospectionFails
<1>4. RightAnswer(q, token, status, None, FALSE)
  BY <1>1, <1>2 DEF RightAnswer
<1>5. Answered(q, status, None, FALSE)
  BY <1>2
<1>6. q \in Requests
  BY <1>1
<1>. QED
  BY <1>3, <1>4, <1>5, <1>6, FreshAnswerStep

\* The OP says the truth, at a time between the beginning of the request and its end.
LEMMA IntrospectStep ==
    ASSUME IInv, NEW q \in Verified, Introspect(q)
    PROVE  IInv'
<1>. PICK token : token = requests[q].token
  OBVIOUS
<1>1. /\ q \in Requests /\ q \notin Proxied /\ token \in Tokens
      /\ requests[q].since \in 0 .. MaxTime /\ now \in 0 .. MaxTime
      /\ requests[q].since <= now /\ now <= requests[q].since + MaxDelay
      /\ expires[token] \in Int /\ expires[token] # None
  BY VerifyingFacts DEF Introspect
<1>2. PICK body \in IntrospectBodies(token) :
        requests' = [requests EXCEPT ![q].pc = "answering", ![q].body = body]
  BY DEF Introspect
<1>3. /\ UNCHANGED <<now, opState, caches>> /\ answer' = None
  BY DEF Introspect
<1>. PICK h : h = Record("answering", token, requests[q].since, body)
  OBVIOUS
<1>4. requests' = [requests EXCEPT ![q] = h]
  BY <1>1, <1>2, IntrospectedAs DEF IInv
<1>5. body \in Bodies /\ (body = "active" => Active(token)) /\ (body = "inactive" => ~Active(token) \/ Kind[token] = "foreign")
  BY <1>2 DEF IntrospectBodies, Bodies, OPsWord
<1>6. h \in Request
  BY <1>1, <1>5, RecordType DEF IInv
<1>8. Right(q, h)
  BY <1>1, <1>5, TimeTypes
  DEF Right, OnItsWay, InTime, OutlastsUse, AnsweredRight, Deniable, Over, Active, Record
<1>9. AnswerRight' /\ (answer \in Answer \cup {None})'
  BY <1>3, NoAnswerRight
<1>. QED
  BY <1>1, <1>3, <1>4, <1>6, <1>8, <1>9, CachesStep, CachesUnchanged DEF caches

LEMMA IntrospectionArrivesStep ==
    ASSUME IInv, NEW q \in Verified, IntrospectionArrives(q)
    PROVE  IInv'
<1>. PICK token, body : token = requests[q].token /\ body = requests[q].body
  OBVIOUS
<1>. PICK status : status = VerifyStatus(token, body)
  OBVIOUS
<1>. PICK entry : entry = [body |-> body, until |-> now + IntrospectionTTL]
  OBVIOUS
<1>1. /\ q \in Requests /\ q \notin Proxied /\ token \in Tokens /\ body \in Bodies
      /\ expires[token] \in Int /\ expires[token] # None
      /\ now \in 0 .. MaxTime /\ requests[q].since \in 0 .. MaxTime
      /\ requests[q].since <= now /\ now <= requests[q].since + MaxDelay
      /\ revoked[token] # None => revoked[token] \in Int
      /\ AnsweredRight(requests[q])
  BY VerifyingFacts DEF IntrospectionArrives
<1>2. /\ requests[q].pc = "answering"
      /\ introspections' \in {introspections, [introspections EXCEPT ![token] = entry]}
      /\ Answered(q, status, body, FALSE)
      /\ UNCHANGED <<now, opState>> /\ UNCHANGED <<zone, tokenCache>>
  BY DEF IntrospectionArrives, VerifyAnswered
<1>3. UNCHANGED <<now, expires, revoked>>
  BY <1>2 DEF opState
<1>4. /\ body = "active" /\ revoked[token] # None =>
           now <= revoked[token] + MaxDelay
      /\ body = "inactive" => Deniable(token)
  BY <1>1, <1>2, TimeTypes DEF AnsweredRight
<1>5. /\ status \in {200, 401, 403, 500, 502}
      /\ status = 200 => /\ body = "active" /\ Kind[token] # "foreign"
                         /\ ~ expires[token] < now
      /\ status = 401 =>
           body \in {"inactive", "void", "bad_exp"} \/ expires[token] < now
  BY <1>1, StatusType
<1>6. status = 401 =>
        \/ Over(token)
        \/ Kind[token] = "foreign" /\ body = "inactive"
        \/ body \in {"void", "bad_exp"}
  BY <1>1, <1>4, <1>5 DEF Deniable, Over
<1>7. status = 200 =>
        /\ Kind[token] = "session"
        /\ now <= expires[token]
        /\ revoked[token] = None
             \/ now <= revoked[token] + IntrospectionTTL + MaxDelay
  <2>1. Kind[token] \in {"session", "foreign"}
    BY <1>1, KindAssumption DEF Kinds
  <2>. QED
    BY <1>1, <1>4, <1>5, <2>1, TimeTypes
<1>8. AnswerRight' /\ (answer \in Answer \cup {None})'
  <2>1. RightAnswer(q, token, status, body, FALSE)
    BY <1>1, <1>5, <1>6, <1>7 DEF RightAnswer
  <2>. QED
    BY <1>1, <1>2, <1>3, <2>1, AnsweredRightly
<1>9. requests' = [requests EXCEPT ![q] = IdleRequest]
  BY <1>2 DEF Answered
<1>10. entry \in Introspection
  BY <1>1, TimeTypes DEF Introspection, Times
<1>11. introspections' \in [Tokens -> Introspection \cup {None}]
       /\ \A t \in Tokens : introspections'[t] = introspections[t]
                              \/ (t = token /\ introspections'[t] = entry)
  BY <1>2, <1>10 DEF IInv, TypeOK
<1>12. CachedRight(token, entry)'
  BY <1>1, <1>3, <1>4, TimeTypes DEF CachedRight, Deniable, Over
<1>13. IntrospectionsRight'
  <2>1. ASSUME NEW t \in Tokens PROVE CachedRight(t, introspections[t])'
    <3>1. CASE introspections'[t] = introspections[t]
      BY <1>3, <3>1 DEF IInv, IntrospectionsRight, CachedRight, Deniable, Over
    <3>2. CASE t = token /\ introspections'[t] = entry
      BY <3>2, <1>12 DEF CachedRight, Deniable, Over
    <3>. QED
      BY <1>11, <3>1, <3>2
  <2>. QED
    BY <2>1 DEF IntrospectionsRight
<1>14. TokensOutlastUse'
  BY <1>2, <1>3 DEF IInv, TokensOutlastUse, KeptFor, Live
<1>15. zone' \in Entry /\ tokenCache' \in Entry
  BY <1>2 DEF IInv, TypeOK
<1>. QED
  BY <1>1, <1>2, <1>8, <1>9, <1>11, <1>13, <1>14, <1>15, IdleRight, CachesStep

-----------------------------------------------------------------------------
(* The OP, the caches and the clock *)

LEMMA RevokeStep ==
    ASSUME IInv, NEW token \in Tokens, Revoke(token)
    PROVE  IInv'
<1>1. /\ revoked' = [revoked EXCEPT ![token] = now]
      /\ revoked[token] = None
      /\ answer' = None
      /\ UNCHANGED <<now, expires, requests>> /\ UNCHANGED <<zone, tokenCache, introspections>>
  BY DEF Revoke, caches
<1>2. now \in 0 .. MaxTime /\ now # None
  BY TimeTypes DEF IInv, TypeOK
<1>3. /\ revoked' \in [Tokens -> 0 .. MaxTime \cup {None}]
      /\ revoked'[token] = now
      /\ \A other \in Tokens \ {token} : revoked'[other] = revoked[other]
  BY <1>1, <1>2 DEF IInv, TypeOK
<1>4. TypeOK'
  BY <1>1, <1>3 DEF IInv, TypeOK
<1>5. TimesPast'
  BY <1>1, <1>2, <1>3 DEF IInv, TimesPast
<1>6. ASSUME NEW q \in Requests PROVE Right(q, requests[q])'
  <2>. PICK h : h = requests[q]
    OBVIOUS
  <2>1. Right(q, h) /\ h \in Request
    BY DEF IInv, RequestsRight, TypeOK
  <2>2. h.pc = "answering" => h.since <= now /\ h.token \in Tokens
    BY <2>1 DEF Right, OnItsWay, InTime, Request
  <2>3. AnsweredRight(h)'
    BY <1>1, <1>2, <1>3, <2>1, <2>2 DEF Right, AnsweredRight, Deniable, Over
  <2>4. Right(q, h)'
    BY <1>1, <2>1, <2>3 DEF Right, OnItsWay, InTime, OutlastsUse
  <2>. QED
    BY <1>1, <2>4 DEF Right, OnItsWay, InTime, OutlastsUse, AnsweredRight, Deniable, Over
<1>7. RequestsRight'
  BY <1>1, <1>6 DEF RequestsRight, Requests
<1>8. TokensOutlastUse'
  BY <1>1 DEF IInv, TokensOutlastUse, KeptFor, Live
<1>9. ASSUME NEW t \in Tokens PROVE CachedRight(t, introspections[t])'
  <2>. PICK entry : entry = introspections[t]
    OBVIOUS
  <2>1. CachedRight(t, entry) /\ entry \in Introspection \cup {None}
    BY DEF IInv, IntrospectionsRight, TypeOK
  <2>2. entry # None => entry.until \in Int /\ entry.until <= now + IntrospectionTTL
    BY <2>1, TimeTypes DEF Introspection, Times, CachedRight
  <2>3. CachedRight(t, entry)'
    BY <1>1, <1>2, <1>3, <2>1, <2>2, TimeTypes DEF CachedRight, Deniable, Over
  <2>. QED
    BY <1>1, <2>3 DEF CachedRight, Deniable, Over
<1>10. IntrospectionsRight'
  BY <1>9 DEF IntrospectionsRight
<1>. QED
  BY <1>1, <1>4, <1>5, <1>7, <1>8, <1>10, NoAnswerRight DEF IInv

LEMMA EvictStep ==
    ASSUME IInv, NEW token \in Tokens, Evict(token)
    PROVE  IInv'
<1>1. /\ introspections' = [introspections EXCEPT ![token] = None]
      /\ answer' = None
      /\ UNCHANGED <<now, expires, revoked>> /\ UNCHANGED <<zone, tokenCache, requests>>
  BY DEF Evict, opState
<1>2. /\ introspections' \in [Tokens -> Introspection \cup {None}]
      /\ \A t \in Tokens : introspections'[t] \in {introspections[t], None}
  BY <1>1 DEF IInv, TypeOK
<1>3. TypeOK' /\ TimesPast'
  BY <1>1, <1>2 DEF IInv, TypeOK, TimesPast
<1>4. RequestsRight' /\ TokensOutlastUse'
  BY <1>1 DEF IInv, RequestsRight, Right, OnItsWay, InTime, OutlastsUse, AnsweredRight, Deniable, Over,
     TokensOutlastUse, KeptFor, Live
<1>5. ASSUME NEW t \in Tokens PROVE CachedRight(t, introspections[t])'
  BY <1>1, <1>2 DEF IInv, IntrospectionsRight, CachedRight, Deniable, Over
<1>6. IntrospectionsRight'
  BY <1>5 DEF IntrospectionsRight
<1>. QED
  BY <1>1, <1>3, <1>4, <1>6, NoAnswerRight DEF IInv

\* A cached answer whose time is over: only whether it is valid changes.
LEMMA OutOfTime ==
    ASSUME NEW entry \in Introspection, NEW old, old = [entry EXCEPT !.until = 0]
    PROVE  old \in Introspection /\ old.body = entry.body /\ old.until = 0
  BY TimeTypes DEF Introspection, Times

\* The clock moves on: what is kept too long is dropped at the same step, and whoever
\* waits is answered first.
LEMMA TickStep ==
    ASSUME IInv, Tick
    PROVE  IInv'
<1>1. /\ now < MaxTime /\ now' = now + 1
      /\ answer' = None
      /\ UNCHANGED <<expires, revoked>> /\ UNCHANGED requests
      /\ zone' = IF now' < zone.until THEN zone ELSE NoEntry
      /\ tokenCache' = IF now' < tokenCache.until THEN tokenCache ELSE NoEntry
      /\ \A q \in Requests : requests[q].pc # "idle" => now - requests[q].since < MaxDelay
  BY DEF Tick, opState
<1>2. now \in Int /\ now' \in 0 .. MaxTime
  BY <1>1, TimeTypes DEF IInv, TypeOK
<1>3. NoEntry \in Entry
  BY TimeTypes DEF NoEntry, Entry, Times
<1>4. /\ introspections' \in [Tokens -> Introspection \cup {None}]
      /\ \A t \in Tokens :
           \/ introspections'[t] = introspections[t]
           \/ /\ introspections[t] # None
              /\ introspections'[t].body = introspections[t].body
              /\ introspections'[t].until = 0
  <2>1. ASSUME NEW t \in Tokens
        PROVE  /\ introspections'[t] \in Introspection \cup {None}
               /\ \/ introspections'[t] = introspections[t]
                  \/ /\ introspections[t] # None
                     /\ introspections'[t].body = introspections[t].body
                     /\ introspections'[t].until = 0
    <3>. PICK entry : entry = introspections[t]
      OBVIOUS
    <3>. PICK old : old = [entry EXCEPT !.until = 0]
      OBVIOUS
    <3>1. introspections'[t] \in {entry, old}
      BY DEF Tick
    <3>2. entry = None => introspections'[t] = entry
      BY DEF Tick
    <3>3. entry \in Introspection \cup {None}
      BY DEF IInv, TypeOK
    <3>4. entry # None => old \in Introspection /\ old.body = entry.body /\ old.until = 0
      BY <3>3, OutOfTime
    <3>. QED
      BY <3>1, <3>2, <3>3, <3>4
  <2>2. introspections' = [t \in Tokens |-> introspections'[t]]
    BY DEF Tick
  <2>. QED
    BY <2>1, <2>2
<1>5. TypeOK'
  BY <1>1, <1>2, <1>3, <1>4 DEF IInv, TypeOK
<1>6. TimesPast'
  <2>1. ASSUME NEW t \in Tokens
        PROVE  /\ expires[t] # None => expires[t] \in Int
               /\ revoked[t] # None => revoked[t] \in Int
    BY TimeTypes DEF IInv, TypeOK, Times
  <2>. QED
    BY <1>1, <1>2, <2>1, TimeTypes DEF IInv, TimesPast
<1>7. RequestsRight'
  <2>1. ASSUME NEW q \in Requests PROVE Right(q, requests[q])'
    <3>. PICK h : h = requests[q]
      OBVIOUS
    <3>1. Right(q, h) /\ h \in Request
      BY DEF IInv, RequestsRight, TypeOK
    <3>2. h.since \in Int
      BY <3>1, TimeTypes DEF Request
    <3>3. InTime(h)'
      BY <1>1, <1>2, <3>1, <3>2, TimeTypes DEF Right, InTime
    <3>4. AnsweredRight(h)'
      <4>1. h.token # None => expires[h.token] \in Int
        BY <3>1, TimeTypes DEF Right, Request, IInv, TypeOK, Times
      <4>2. h.pc = "answering" => h.token # None
        BY <3>1 DEF Right, OnItsWay
      <4>. QED
        BY <1>1, <1>2, <3>1, <4>1, <4>2 DEF Right, AnsweredRight, Deniable, Over
    <3>5. Right(q, h)'
      BY <1>1, <3>1, <3>3, <3>4 DEF Right, OnItsWay, OutlastsUse
    <3>. QED
      BY <1>1, <3>5 DEF Right, OnItsWay, InTime, OutlastsUse, AnsweredRight, Deniable, Over
  <2>. QED
    BY <2>1 DEF RequestsRight, Requests
<1>8. TokensOutlastUse'
  BY <1>1 DEF IInv, TokensOutlastUse, KeptFor, Live
<1>9. IntrospectionsRight'
  <2>1. ASSUME NEW t \in Tokens PROVE CachedRight(t, introspections[t])'
    <3>. PICK entry, new : entry = introspections[t] /\ new = introspections'[t]
      OBVIOUS
    <3>1. CachedRight(t, entry) /\ entry \in Introspection \cup {None}
      BY DEF IInv, IntrospectionsRight, TypeOK
    <3>2. new # None => /\ entry # None /\ new.body = entry.body
                        /\ (new.until = entry.until \/ new.until = 0)
      BY <1>4
    <3>3. /\ entry # None => entry.until \in Int
          /\ expires[t] # None => expires[t] \in Int
          /\ revoked[t] # None => revoked[t] \in Nat
      BY <3>1, TimeTypes DEF Introspection, IInv, TypeOK, Times
    <3>4. CachedRight(t, new)'
      BY <1>1, <1>2, <3>1, <3>2, <3>3, TimeTypes DEF CachedRight, Deniable, Over
    <3>. QED
      BY <3>4 DEF CachedRight, Deniable, Over
  <2>. QED
    BY <2>1 DEF IntrospectionsRight
<1>. QED
  BY <1>1, <1>5, <1>6, <1>7, <1>8, <1>9, NoAnswerRight DEF IInv

LEMMA NextIInv == IInv /\ [Next]_vars => IInv'
<1>. SUFFICES ASSUME IInv, [Next]_vars PROVE IInv'
  OBVIOUS
<1>1. ASSUME NEW q \in Proxied, ProxyByToken(q) \/ ProxyRefresh(q) \/ ProxyGoesOn(q)
      PROVE  IInv'
  BY <1>1, ProxyByTokenStep, ProxyRefreshStep, TokenCacheHitStep, RefreshFailsStep,
     TokensArriveStep, ResourceProviderStep, OPIssueStep DEF ProxyGoesOn
<1>2. ASSUME NEW q \in Verified, VerifyGoesOn(q) \/ \E token \in Tokens : Verify(q, token)
      PROVE  IInv'
  BY <1>2, VerifyStep, IntrospectionCachedStep, IntrospectStep, IntrospectionArrivesStep,
     IntrospectionStaleStep, IntrospectionFailsStep DEF VerifyGoesOn
<1>3. ASSUME NEW token \in Tokens, Revoke(token) \/ Evict(token)
      PROVE  IInv'
  BY <1>3, RevokeStep, EvictStep
<1>4. CASE Tick
  BY <1>4, TickStep
<1>5. CASE UNCHANGED vars
  BY <1>5 DEF vars, IInv, TypeOK, TimesPast, RequestsRight, Right, OnItsWay, InTime,
     OutlastsUse, AnsweredRight, Deniable, Over, TokensOutlastUse, KeptFor, Live, IntrospectionsRight,
     CachedRight, AnswerRight, ProxiedIsAccepted, AcceptedIsCurrent, RefusedIsOver
<1>. QED
  BY <1>1, <1>2, <1>3, <1>4, <1>5 DEF Next

\* IInv is an invariant: every property below follows from it.
LEMMA Invariant == Spec => []IInv
  BY InitIInv, NextIInv, PTL DEF Spec

-----------------------------------------------------------------------------
(* Theorems *)

\* The state is well-typed: in particular, the times the OP and the caches compute stay
\* within what MaxTime and the lifetimes bound.
THEOREM TypeCorrect == Spec => []TypeOK
<1>1. IInv => TypeOK
  BY DEF IInv
<1>. QED
  BY <1>1, Invariant, PTL

\* What auth_proxy passes on is not expired when the resource provider looks at it, although
\* auth_proxy never looks: for all lifetimes and delays of LifetimeAssumption.  By the OP's
\* word it is refused only if it was revoked.
THEOREM ProxiedIsAcceptedHolds == Spec => []ProxiedIsAccepted
<1>1. IInv => ProxiedIsAccepted
  BY DEF IInv, AnswerRight
<1>. QED
  BY <1>1, Invariant, PTL

\* However old the cached introspection answer is, verifyToken accepts no expired token,
\* none of another client, and a revoked one only within the time the answer is kept for.
THEOREM AcceptedIsCurrentHolds == Spec => []AcceptedIsCurrent
<1>1. IInv => AcceptedIsCurrent
  BY DEF IInv, AnswerRight
<1>. QED
  BY <1>1, Invariant, PTL

\* verifyToken answers 401 only for tokens that are expired, revoked or another client's, or for
\* the two kinds of a broken answer that the code takes for a refusal: never for any other
\* failure, and however old the introspection is.
THEOREM RefusedIsOverHolds == Spec => []RefusedIsOver
<1>1. IInv => RefusedIsOver
  BY DEF IInv, AnswerRight
<1>. QED
  BY <1>1, Invariant, PTL

====
