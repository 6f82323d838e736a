---- MODULE AuthCodeFlow_refinement ----
(***************************************************************************)
(* The authorization code flow implements LoginAttempts, for any number of *)
(* browsers, requests, codes and pages: under the refinement mapping of    *)
(* AuthCodeFlow (AttemptOf), every step of the flow is a step of one login *)
(* attempt or leaves all of them as they are.                              *)
(***************************************************************************)
EXTENDS AuthCodeFlow_proofs

-----------------------------------------------------------------------------
(* What the flow looks like as login attempts *)

\* The callbacks that use, or have used, the state of login r.
Users(r) == Redeeming(r) \cup SignedIn(r)

\* Of a login that began, only its own browser can be the redeemer; of one that
\* did not, nobody.  As long as its state is stored nobody has used it.
AttemptsSeen == \A r \in RequestIds :
    /\ ~Began(r) => AttemptOf(r) = Attempts!Unused /\ Users(r) = {}
    /\ Began(r) => AttemptOf(r) =
         [phase |-> Phase(r), browser |-> handlers[r].browser,
          url |-> handlers[r].state.url,
          redeemer |-> IF Users(r) = {} THEN None ELSE handlers[r].browser]
    /\ authStates[r] # NoAuthState => Began(r) /\ Users(r) = {}
    /\ \A q \in Users(r) : Consumed(q) /\ handlers[q].stateId = r

LEMMA InvariantSeen == IInv => AttemptsSeen
<1>. SUFFICES ASSUME IInv, NEW r \in RequestIds
     PROVE /\ ~Began(r) => AttemptOf(r) = Attempts!Unused /\ Users(r) = {}
           /\ Began(r) => AttemptOf(r) =
                [phase |-> Phase(r), browser |-> handlers[r].browser,
                 url |-> handlers[r].state.url,
                 redeemer |-> IF Users(r) = {} THEN None ELSE handlers[r].browser]
           /\ authStates[r] # NoAuthState => Began(r) /\ Users(r) = {}
           /\ \A q \in Users(r) : Consumed(q) /\ handlers[q].stateId = r
  BY DEF AttemptsSeen
<1>1. ASSUME NEW q \in Users(r)
      PROVE  /\ Consumed(q) /\ handlers[q].stateId = r
             /\ Began(r) /\ authStates[r] = NoAuthState
             /\ handlers[q].browser = handlers[r].browser
  <2>1. q \in RequestIds /\ Consumed(q) /\ handlers[q].stateId = r
    BY <1>1 DEF Users, Redeeming, SignedIn
  <2>. QED
    BY <2>1 DEF IInv, ConsumedGone, LoginOf, Began, Consumed
<1>2. ~Began(r) => Users(r) = {}
  BY <1>1
<1>3. authStates[r] # NoAuthState => Began(r) /\ Users(r) = {}
  BY <1>1 DEF IInv, LoginsRecorded, Began
<1>4. Redeemer(r) = IF Users(r) = {} THEN None ELSE handlers[r].browser
  BY <1>1 DEF Redeemer, Users
<1>. QED
  BY <1>1, <1>2, <1>3, <1>4 DEF AttemptOf, Phase, Attempts!Unused

LEMMA InvariantSeenNext == IInv' => AttemptsSeen'
  BY InvariantSeen, PTL

\* A login that a step does not touch, and whose users it leaves as they were,
\* looks the same afterwards.
LEMMA AttemptKept ==
    ASSUME AttemptsSeen, AttemptsSeen', NEW r \in RequestIds,
           Began(r)' <=> Began(r),
           Began(r) => /\ handlers'[r].browser = handlers[r].browser
                       /\ handlers'[r].state = handlers[r].state,
           authStates'[r] = NoAuthState <=> authStates[r] = NoAuthState,
           Redeeming(r)' = Redeeming(r), SignedIn(r)' = SignedIn(r)
    PROVE  AttemptOf(r)' = AttemptOf(r)
<1>1. Users(r)' = Users(r)
  BY DEF Users
<1>2. Phase(r)' = Phase(r)
  BY DEF Phase
<1>3. CASE Began(r)
  BY <1>1, <1>2, <1>3 DEF AttemptsSeen
<1>4. CASE ~Began(r)
  BY <1>4 DEF AttemptsSeen, Attempts!Unused
<1>. QED
  BY <1>3, <1>4

\* A step of one handler p, which uses login r neither before nor after it, leaves
\* the users of r as they were.
LEMMA UsersKept ==
    ASSUME NEW r \in RequestIds, NEW p \in RequestIds, UNCHANGED sessions,
           \A q \in RequestIds \ {p} : handlers'[q] = handlers[q],
           ~(Consumed(p) /\ handlers[p].stateId = r),
           ~(Consumed(p)' /\ handlers'[p].stateId = r)
    PROVE  Redeeming(r)' = Redeeming(r) /\ SignedIn(r)' = SignedIn(r)
  BY DEF Redeeming, SignedIn, Consumed

-----------------------------------------------------------------------------
(* Every step of the flow is a step of an attempt, or of none *)

\* The abstract state: the attempts as LoginAttempts is instantiated with them.
Seen == [r \in RequestIds |-> AttemptOf(r)]

\* A step that changes one attempt only, by a Move of LoginAttempts.
LEMMA MoveSeen ==
    ASSUME NEW s \in RequestIds, NEW from, NEW to, NEW b, NEW url,
           NEW old, NEW new,
           \A r \in RequestIds \ {s} : AttemptOf(r)' = AttemptOf(r),
           AttemptOf(s) =
             [phase |-> from, browser |-> b, url |-> url, redeemer |-> old],
           AttemptOf(s)' =
             [phase |-> to, browser |-> b, url |-> url, redeemer |-> new]
    PROVE  Attempts!Move(s, from, to, new)
<1>1. Seen \in [RequestIds -> {AttemptOf(r) : r \in RequestIds}]
  BY DEF Seen
<1>2. Seen[s] = [phase |-> from, browser |-> b, url |-> url, redeemer |-> old]
  BY DEF Seen
<1>3. Seen' = [Seen EXCEPT ![s] =
                 [phase |-> to, browser |-> b, url |-> url, redeemer |-> new]]
  BY DEF Seen
<1>. DEFINE between == [phase |-> to, browser |-> b, url |-> url, redeemer |-> old]
            after == [phase |-> to, browser |-> b, url |-> url, redeemer |-> new]
<1>4. [Seen EXCEPT ![s].phase = to] = [Seen EXCEPT ![s] = between]
  <2>1. [Seen[s] EXCEPT !.phase = to] = between
    BY <1>2
  <2>. QED
    BY <1>1, <2>1
<1>5. [[Seen EXCEPT ![s] = between] EXCEPT ![s].redeemer = new] =
        [Seen EXCEPT ![s] = after]
  <2>1. [between EXCEPT !.redeemer = new] = after
    OBVIOUS
  <2>. QED
    BY <1>1, <2>1
<1>6. Seen' = [Seen EXCEPT ![s].phase = to, ![s].redeemer = new]
  BY <1>1, <1>3, <1>4, <1>5
<1>. QED
  BY <1>2, <1>6 DEF Attempts!Move, Seen

LEMMA StutterSeen ==
    ASSUME \A r \in RequestIds : AttemptOf(r)' = AttemptOf(r)
    PROVE  Seen' = Seen
  BY DEF Seen

\* A login request begins an attempt, or (405) none.
LEMMA LoginSeen ==
    ASSUME IInv, IInv', AttemptsSeen, AttemptsSeen', NEW r \in RequestIds,
           StartLogin(r)
    PROVE  Attempts!LoginAttemptsNext \/ Seen' = Seen
<1>1. PICK b \in Browsers, request \in LoginRequests :
        Login(r, b, request) \/ LoginNotAllowed(r, b, request)
  BY DEF StartLogin
<1>2. /\ handlers[r].pc = "free" /\ handlers'[r].op = "login"
      /\ handlers'[r].browser = b
      /\ authStates'[r] = handlers'[r].state
      /\ \A p \in RequestIds \ {r} :
           handlers'[p] = handlers[p] /\ authStates'[p] = authStates[p]
      /\ UNCHANGED sessions
  BY <1>1, LoginStep
<1>3. handlers[r].op = "none" /\ ~Consumed(r) /\ ~Consumed(r)' /\ ~Began(r)
  BY <1>2, FreeRequest DEF Consumed, Began
<1>4. \A p \in RequestIds \ {r} : AttemptOf(p)' = AttemptOf(p)
  BY <1>2, <1>3, UsersKept, AttemptKept DEF Began
<1>5. AttemptOf(r) = Attempts!Unused
  BY <1>3 DEF AttemptsSeen
<1>6. CASE Login(r, b, request)
  <2>1. /\ authStates'[r] = NewAuthState(r, request)
        /\ NewAuthState(r, request) # NoAuthState
        /\ OriginalUri(request) \in Urls
    <3>1. authStates'[r] = NewAuthState(r, request)
      BY <1>6 DEF Login, IInv, TypeOK
    <3>2. NewAuthState(r, request).nonce # NoAuthState.nonce
      BY NoneAssumption DEF NewAuthState, NoAuthState, Nonce
    <3>3. OriginalUri(request) \in Urls
      BY RootAssumption DEF OriginalUri, LoginRequests
    <3>. QED
      BY <3>1, <3>2, <3>3
  <2>2. Began(r)' /\ Users(r)' = {} /\ Phase(r)' = "open"
    BY <1>2, <2>1 DEF AttemptsSeen, Phase
  <2>3. AttemptOf(r)' = [phase |-> "open", browser |-> b,
                         url |-> OriginalUri(request), redeemer |-> None]
    <3>1. handlers'[r].state.url = OriginalUri(request)
      BY <1>2, <2>1 DEF NewAuthState
    <3>. QED
      BY <1>2, <2>2, <3>1 DEF AttemptsSeen
  <2>4. Attempts!Begin(r, b, OriginalUri(request))
    BY <1>4, <1>5, <2>3 DEF Attempts!Begin, Attempts!Unused
  <2>. QED
    BY <2>1, <2>4 DEF Attempts!LoginAttemptsNext
<1>7. CASE LoginNotAllowed(r, b, request)
  <2>1. handlers'[r].state = NoAuthState
    BY <1>7 DEF LoginNotAllowed, LoginHandler, IInv, TypeOK
  <2>2. AttemptOf(r)' = AttemptOf(r)
    BY <1>5, <2>1 DEF AttemptsSeen, Began, Attempts!Unused
  <2>. QED
    BY <1>4, <2>2, StutterSeen
<1>. QED
  BY <1>1, <1>6, <1>7

\* A callback that takes the state of login s redeems the attempt, by the browser
\* that began it, or closes it; one that is refused leaves all attempts alone.
LEMMA StartCallbackSeen ==
    ASSUME IInv, IInv', AttemptsSeen, AttemptsSeen', NEW q \in RequestIds,
           StartCallback(q)
    PROVE  Attempts!LoginAttemptsNext \/ Seen' = Seen
<1>1. /\ handlers[q].pc = "free" /\ handlers'[q].op = "callback"
      /\ handlers'[q].pc \in {"requestToken", "reply"}
      /\ \A p \in RequestIds \ {q} : handlers'[p] = handlers[p]
      /\ UNCHANGED sessions
  BY StartCallbackStep
<1>2. /\ ~Consumed(q) /\ ~Began(q) /\ ~Began(q)' /\ sessions[q] = NoIdToken
  BY <1>1, FreeRequest DEF Consumed, Began
<1>3. ASSUME NEW r \in RequestIds, authStates'[r] = authStates[r],
             ~(Consumed(q)' /\ handlers'[q].stateId = r)
      PROVE  AttemptOf(r)' = AttemptOf(r)
  BY <1>1, <1>2, <1>3, UsersKept, AttemptKept DEF Began
<1>4. CASE handlers'[q].state = NoAuthState /\ UNCHANGED authStates
  BY <1>3, <1>4, StutterSeen DEF Consumed
<1>5. ASSUME NEW b \in Browsers, NEW s \in RequestIds, TakesState(q, b, s)
      PROVE  Attempts!LoginAttemptsNext
  <2>1. /\ s # q /\ handlers'[s] = handlers[s]
        /\ authStates[s] # NoAuthState /\ authStates'[s] = NoAuthState
        /\ \A r \in RequestIds \ {s} : authStates'[r] = authStates[r]
        /\ Consumed(q)' /\ handlers'[q].stateId = s
    BY <1>1, <1>5 DEF TakesState, Consumed, AuthState, NoAuthState, IInv, TypeOK
  <2>2. \A r \in RequestIds \ {s} : AttemptOf(r)' = AttemptOf(r)
    BY <1>3, <2>1
  <2>3. Began(s) /\ Began(s)' /\ Users(s) = {} /\ Phase(s) = "open"
    BY <2>1 DEF AttemptsSeen, Began, Phase
  <2>4. AttemptOf(s) = [phase |-> "open", browser |-> handlers[s].browser,
                        url |-> handlers[s].state.url, redeemer |-> None]
    BY <2>3 DEF AttemptsSeen
  <2>5. CASE handlers'[q].pc = "requestToken"
    <3>1. Redeeming(s)' # {} /\ Users(s)' # {}
      BY <2>1, <2>5 DEF Redeeming, Users
    <3>2. Phase(s)' = "redeeming"
      BY <2>1, <2>3, <3>1 DEF Phase
    <3>3. AttemptOf(s)' = [phase |-> "redeeming", browser |-> handlers[s].browser,
                         url |-> handlers[s].state.url,
                         redeemer |-> handlers[s].browser]
      BY <2>1, <2>3, <2>4, <3>1, <3>2 DEF AttemptsSeen
    <3>4. Attempts!Move(s, "open", "redeeming", handlers[s].browser)
      BY <2>2, <2>4, <3>3, MoveSeen
    <3>. QED
      BY <2>4, <3>4 DEF Attempts!LoginAttemptsNext, Attempts!Redeem
  <2>6. CASE handlers'[q].pc = "reply"
    <3>1. ASSUME NEW p \in Users(s)' PROVE FALSE
      <4>1. p \in RequestIds /\ Consumed(p)' /\ handlers'[p].stateId = s
        BY <3>1 DEF Users, Redeeming, SignedIn
      <4>2. p = q
        BY <2>1, <4>1 DEF IInv, SingleUse
      <4>. QED
        BY <1>1, <1>2, <2>6, <3>1, <4>2 DEF Users, Redeeming, SignedIn
    <3>2. Phase(s)' = "over" /\ Users(s)' = {}
      BY <2>1, <2>3, <3>1 DEF Phase, Users
    <3>3. AttemptOf(s)' = [phase |-> "over", browser |-> handlers[s].browser,
                         url |-> handlers[s].state.url,
                         redeemer |-> None]
      BY <2>1, <2>3, <2>4, <3>2 DEF AttemptsSeen
    <3>4. Attempts!Move(s, "open", "over", None)
      BY <2>2, <2>4, <3>3, MoveSeen
    <3>. QED
      BY <3>4 DEF Attempts!LoginAttemptsNext, Attempts!Close
  <2>. QED
    BY <1>1, <2>5, <2>6
<1>. QED
  BY <1>4, <1>5, StartCallbackStep

\* A resumed callback waits on, turns the attempt it redeems into a session, or
\* fails it.
LEMMA ResumeSeen ==
    ASSUME IInv, IInv', AttemptsSeen, AttemptsSeen', NEW q \in RequestIds,
           Resume(q)
    PROVE  Attempts!LoginAttemptsNext \/ Seen' = Seen
<1>a. handlers[q].pc \in {"requestToken", "validateJwt"}
  BY DEF Resume, TokensReceived, TokensRefused, IdTokenRejected, CreateSession
<1>. PICK s \in RequestIds : s = handlers[q].stateId
  BY <1>a DEF IInv, HandlersShaped
<1>1. /\ Consumed(q) /\ Consumed(q)'
      /\ handlers[q].stateId = s /\ handlers'[q].stateId = s
      /\ sessions[q] = NoIdToken
      /\ \A p \in RequestIds \ {q} : handlers'[p] = handlers[p]
      /\ UNCHANGED authStates
  BY ResumeStep DEF Consumed
<1>2. /\ s # q /\ handlers'[s] = handlers[s] /\ Began(s)
      /\ authStates[s] = NoAuthState
  BY <1>1 DEF IInv, ConsumedGone, LoginOf, Began, Consumed
<1>3. Redeeming(s) = {q} /\ SignedIn(s) = {} /\ Phase(s) = "redeeming"
  <2>1. \A p \in RequestIds : Consumed(p) /\ handlers[p].stateId = s => p = q
    BY <1>1 DEF IInv, SingleUse
  <2>2. Redeeming(s) = {q} /\ SignedIn(s) = {}
    BY <1>a, <1>1, <2>1 DEF Redeeming, SignedIn
  <2>. QED
    BY <1>2, <2>2 DEF Phase
<1>4. AttemptOf(s) = [phase |-> "redeeming", browser |-> handlers[s].browser,
                      url |-> handlers[s].state.url,
                      redeemer |-> handlers[s].browser]
  BY <1>1, <1>2, <1>3 DEF AttemptsSeen, Users
<1>5. \A r \in RequestIds \ {s} : AttemptOf(r)' = AttemptOf(r)
  <2>. SUFFICES ASSUME NEW r \in RequestIds \ {s} PROVE AttemptOf(r)' = AttemptOf(r)
    OBVIOUS
  <2>1. \A p \in RequestIds : sessions'[p] = sessions[p] \/ p = q
    BY ResumeStep DEF IInv, TypeOK
  <2>2. Redeeming(r)' = Redeeming(r) /\ SignedIn(r)' = SignedIn(r)
    BY <1>1, <2>1 DEF Redeeming, SignedIn, Consumed
  <2>3. /\ Began(r)' <=> Began(r)
        /\ Began(r) => handlers'[r] = handlers[r]
    BY <1>1 DEF Began, Consumed
  <2>. QED
    BY <1>1, <2>2, <2>3, AttemptKept
<1>6. \A p \in RequestIds : Consumed(p)' /\ handlers'[p].stateId = s => p = q
  BY <1>1 DEF IInv, SingleUse
<1>7. Began(s)'
  BY <1>2 DEF Began
<1>8. CASE handlers'[q].pc = "validateJwt" /\ UNCHANGED sessions
  <2>1. Redeeming(s)' = {q} /\ SignedIn(s)' = {}
    BY <1>1, <1>6, <1>8 DEF Redeeming, SignedIn
  <2>2. AttemptOf(s)' = AttemptOf(s)
    BY <1>1, <1>2, <1>3, <1>7, <2>1, AttemptKept
  <2>. QED
    BY <1>5, <2>2, StutterSeen
<1>9. CASE handlers'[q].pc = "reply" /\ UNCHANGED sessions
  <2>1. Redeeming(s)' = {} /\ SignedIn(s)' = {}
    BY <1>1, <1>6, <1>9 DEF Redeeming, SignedIn
  <2>2. Phase(s)' = "over" /\ Users(s)' = {}
    BY <1>1, <1>2, <1>7, <2>1 DEF Phase, Users
  <2>3. AttemptOf(s)' = [phase |-> "over", browser |-> handlers[s].browser,
                         url |-> handlers[s].state.url,
                         redeemer |-> None]
    BY <1>1, <1>2, <1>4, <1>7, <2>2 DEF AttemptsSeen
  <2>4. Attempts!Move(s, "redeeming", "over", None)
    BY <1>1, <1>4, <1>5, <2>3, MoveSeen
  <2>. QED
    BY <2>4 DEF Attempts!LoginAttemptsNext, Attempts!Fail
<1>10. CASE /\ handlers'[q].pc = "reply"
            /\ sessions' = [sessions EXCEPT ![q] = handlers[q].idToken]
            /\ handlers[q].idToken.signed
  <2>1. sessions'[q] # NoIdToken
    BY <1>10 DEF NoIdToken, IInv, TypeOK
  <2>2. Redeeming(s)' = {} /\ SignedIn(s)' = {q}
    BY <1>1, <1>6, <1>10, <2>1 DEF Redeeming, SignedIn
  <2>3. Phase(s)' = "signedIn" /\ Users(s)' = {q}
    BY <1>1, <1>2, <1>7, <2>2 DEF Phase, Users
  <2>4. AttemptOf(s)' = [phase |-> "signedIn", browser |-> handlers[s].browser,
                         url |-> handlers[s].state.url,
                         redeemer |-> handlers[s].browser]
    BY <1>1, <1>2, <1>4, <1>7, <2>3 DEF AttemptsSeen
  <2>5. Attempts!Move(s, "redeeming", "signedIn", handlers[s].browser)
    BY <1>1, <1>4, <1>5, <2>4, MoveSeen
  <2>. QED
    BY <1>4, <2>5 DEF Attempts!LoginAttemptsNext, Attempts!SignIn
<1>. QED
  BY <1>8, <1>9, <1>10, ResumeStep

\* What happens to an answer, to cookies and codes and to the clock is no step of
\* an attempt; the zone may close one.
LEMMA DeliverSeen ==
    ASSUME IInv, IInv', AttemptsSeen, AttemptsSeen', NEW r \in RequestIds,
           Deliver(r) \/ LoseReply(r)
    PROVE  Seen' = Seen
<1>1. /\ handlers[r].pc = "reply" /\ UNCHANGED <<authStates, sessions>>
      /\ handlers' = [handlers EXCEPT ![r].pc = "done", ![r].reply = NoReply]
  BY DEF Deliver, LoseReply
<1>2. /\ handlers'[r].pc = "done"
      /\ \A p \in RequestIds \ {r} : handlers'[p] = handlers[p]
      /\ \A p \in RequestIds :
           /\ handlers'[p].op = handlers[p].op
           /\ handlers'[p].browser = handlers[p].browser
           /\ handlers'[p].stateId = handlers[p].stateId
           /\ handlers'[p].state = handlers[p].state
  BY <1>1 DEF IInv, TypeOK, Handler
<1>3. \A p \in RequestIds :
        Redeeming(p)' = Redeeming(p) /\ SignedIn(p)' = SignedIn(p)
  <2>1. \A q \in RequestIds :
          /\ Consumed(q)' <=> Consumed(q)
          /\ handlers'[q].pc \in {"requestToken", "validateJwt"} <=>
               handlers[q].pc \in {"requestToken", "validateJwt"}
    BY <1>1, <1>2 DEF Consumed
  <2>. QED
    BY <1>1, <1>2, <2>1 DEF Redeeming, SignedIn
<1>4. \A p \in RequestIds : AttemptOf(p)' = AttemptOf(p)
  BY <1>1, <1>2, <1>3, AttemptKept DEF Began
<1>. QED
  BY <1>4, StutterSeen

LEMMA EnvironmentSeen ==
    ASSUME IInv, IInv', AttemptsSeen, AttemptsSeen', Environment
    PROVE  Attempts!LoginAttemptsNext \/ Seen' = Seen
<1>1. UNCHANGED <<handlers, sessions>>
  BY DEF Environment, EvictState, DropStateCookie, OPIssueCode, OPRefuse, Tick
<1>2. \A p \in RequestIds :
        /\ Redeeming(p)' = Redeeming(p) /\ SignedIn(p)' = SignedIn(p)
        /\ Began(p)' <=> Began(p)
  BY <1>1 DEF Redeeming, SignedIn, Consumed, Began
<1>3. ASSUME NEW p \in RequestIds, authStates'[p] = authStates[p]
      PROVE  AttemptOf(p)' = AttemptOf(p)
  BY <1>1, <1>2, <1>3, AttemptKept
<1>4. ASSUME NEW s \in RequestIds, EvictState(s)
      PROVE  Attempts!LoginAttemptsNext
  <2>1. /\ authStates[s] # NoAuthState /\ authStates'[s] = NoAuthState
        /\ \A p \in RequestIds \ {s} : authStates'[p] = authStates[p]
    BY <1>4 DEF EvictState, IInv, TypeOK
  <2>2. /\ Began(s) /\ Users(s) = {} /\ Users(s)' = {}
        /\ Phase(s) = "open" /\ Phase(s)' = "over"
    BY <1>2, <2>1 DEF AttemptsSeen, Phase, Users
  <2>3. /\ AttemptOf(s) = [phase |-> "open", browser |-> handlers[s].browser,
                           url |-> handlers[s].state.url, redeemer |-> None]
        /\ AttemptOf(s)' = [phase |-> "over", browser |-> handlers[s].browser,
                         url |-> handlers[s].state.url,
                         redeemer |-> None]
    BY <1>1, <1>2, <2>2 DEF AttemptsSeen
  <2>4. Attempts!Move(s, "open", "over", None)
    BY <1>3, <2>1, <2>3, MoveSeen
  <2>. QED
    BY <2>4 DEF Attempts!LoginAttemptsNext, Attempts!Close
<1>5. CASE UNCHANGED authStates
  BY <1>3, <1>5, StutterSeen
<1>. QED
  BY <1>4, <1>5 DEF Environment, DropStateCookie, OPIssueCode, OPRefuse, Tick

-----------------------------------------------------------------------------
(* The theorem *)

LEMMA NextSeen ==
    ASSUME IInv, IInv', AttemptsSeen, AttemptsSeen', [Next]_vars
    PROVE  Attempts!LoginAttemptsNext \/ Seen' = Seen
<1>1. CASE UNCHANGED vars
  BY <1>1 DEF vars, Seen, AttemptOf, Phase, Redeemer, Redeeming, SignedIn,
     Consumed, Began
<1>. QED
  BY <1>1, LoginSeen, StartCallbackSeen, ResumeSeen, DeliverSeen,
     EnvironmentSeen DEF Next

\* Nothing has begun.
LEMMA InitSeen == Init => Seen = [r \in RequestIds |-> Attempts!Unused]
<1>. SUFFICES ASSUME Init PROVE Seen = [r \in RequestIds |-> Attempts!Unused]
  OBVIOUS
<1>1. AttemptsSeen
  BY InitIInv, InvariantSeen
<1>2. \A r \in RequestIds : ~Began(r)
  BY DEF Init, FreeHandler, Began
<1>. QED
  BY <1>1, <1>2 DEF AttemptsSeen, Seen

\* The login and callback handlers, the zones, the browsers and the OP together do
\* what LoginAttempts promises: each login is redeemed at most once, by the browser
\* that began it, and ends in at most one session or for good (login.ts,
\* callback.ts).
THEOREM Refinement == Spec => ImplementsLoginAttempts
<1>1. Init => Attempts!LoginAttemptsInit
  BY InitSeen DEF Attempts!LoginAttemptsInit, Seen
<1>2. IInv /\ IInv' /\ AttemptsSeen /\ AttemptsSeen' /\ [Next]_vars =>
        [Attempts!LoginAttemptsNext]_[r \in RequestIds |-> AttemptOf(r)]
  BY NextSeen DEF Seen
<1>. QED
  BY <1>1, <1>2, Invariant, InvariantSeen, PTL
  DEF Spec, ImplementsLoginAttempts, Attempts!LoginAttemptsSpec

====
