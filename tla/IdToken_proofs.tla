---- MODULE IdToken_proofs ----
(***************************************************************************)
(* Theorems about IdToken, for any issuers, clients and payloads, and      *)
(* however long a token is kept.                                           *)
(***************************************************************************)
EXTENDS IdToken, TLAPS

-----------------------------------------------------------------------------
(* The decision *)

\* The checks are complete and exclude each other; which one fails first decides.
LEMMA StatusAs ==
    ASSUME NEW token, NEW time
    PROVE  /\ IdTokenStatus(token, time) \in {500, 401, Proceed}
           /\ IdTokenStatus(token, time) = 401
                <=> ~Malformed(token) /\ Refused(token, time)
           /\ IdTokenStatus(token, time) = Proceed
                <=> ~Malformed(token) /\ ~Refused(token, time) /\ ~LacksIdentity(token)
  BY DEF IdTokenStatus, Proceed

\* A complete token has all the claims of OpenID Connect Core, and a time of issue.
LEMMA CompleteAs ==
    ASSUME NEW token, ~Malformed(token)
    PROVE  /\ token.wellFormed
           /\ token.iss # Missing /\ token.sub # Missing /\ token.aud # Missing
           /\ token.iat # Missing /\ token.exp # Missing
           /\ IsPositiveInteger(token.iat)
  BY DEF Malformed

\* Time only takes away: a token that is refused is refused ever after.
LEMMA RefusedLater ==
    ASSUME NEW token, NEW time \in Int, NEW later \in Int, time <= later,
           Refused(token, time)
    PROVE  Refused(token, later)
  BY DEF Refused, IsExpired, IsPositiveInteger

\* Nothing but the time of a check can turn its answer.
LEMMA StatusLater ==
    ASSUME NEW token, NEW time \in Int, NEW later \in Int, time <= later
    PROVE  /\ IdTokenStatus(token, time) = Proceed
                => IdTokenStatus(token, later) \in {Proceed, 401}
           /\ IdTokenStatus(token, time) # Proceed
                => IdTokenStatus(token, later) # Proceed
<1>1. CASE Refused(token, later)
  BY <1>1, StatusAs
<1>2. CASE ~Refused(token, later)
  <2>1. ~Refused(token, time)
    BY <1>2, RefusedLater
  <2>. QED
    BY <1>2, <2>1, StatusAs
<1>. QED
  BY <1>1, <1>2

-----------------------------------------------------------------------------
(* Theorems *)

\* What the clock needs: it shows whole seconds, and goes forward only.
LEMMA Clock == Spec => [](now \in Nat)
<1>1. Init => now \in Nat
  BY DEF Init
<1>2. now \in Nat /\ [Next]_vars => (now \in Nat)'
  BY DEF Next, Tick, vars
<1>. QED
  BY <1>1, <1>2, PTL DEF Spec

\* A token that passes the checks of jwt.ts is one of the configured OP for this client, with a
\* subject and a user, and not expired, at any time.
THEOREM AcceptedIsSoundHolds == Spec => []AcceptedIsSound
<1>1. now \in Nat => AcceptedIsSound
  <2>. SUFFICES ASSUME now \in Nat, IdTokenStatus(jwt, now) = Proceed
                PROVE  /\ jwt.wellFormed /\ jwt.sub # Missing
                       /\ jwt.iss = Issuer /\ ClientId \in jwt.aud
                       /\ IsPositiveInteger(jwt.iat) /\ IsPositiveInteger(jwt.exp)
                       /\ now < jwt.exp
                       /\ jwt.username = "name" /\ (UseRoles => jwt.roles = "array")
    BY DEF AcceptedIsSound
  <2>1. ~Malformed(jwt) /\ ~Refused(jwt, now) /\ ~LacksIdentity(jwt)
    BY StatusAs
  <2>2. jwt.wellFormed /\ jwt.sub # Missing /\ IsPositiveInteger(jwt.iat)
    BY <2>1, CompleteAs
  <2>3. jwt.iss = Issuer /\ ClientId \in jwt.aud /\ IsPositiveInteger(jwt.exp)
    BY <2>1 DEF Refused, IsExpired
  <2>4. now < jwt.exp
    BY <2>1 DEF Refused, IsExpired, IsPositiveInteger
  <2>. QED
    BY <2>1, <2>2, <2>3, <2>4 DEF LacksIdentity
<1>. QED
  BY <1>1, Clock, PTL

\* A 401 of decodeAndValidateIdToken, which costs a session its refresh token, is the answer to a
\* decodable token with all required claims and a time of issue, that is of another OP, for
\* another client, expired, or has an exp that is no positive integer; never to another one.
THEOREM RefusedIsCompleteHolds == Spec => []RefusedIsComplete
<1>1. RefusedIsComplete
  <2>. SUFFICES ASSUME IdTokenStatus(jwt, now) = 401
                PROVE  /\ jwt.wellFormed
                       /\ Missing \notin {jwt.iss, jwt.sub, jwt.aud, jwt.iat, jwt.exp}
                       /\ IsPositiveInteger(jwt.iat)
                       /\ \/ jwt.iss # Issuer
                          \/ ClientId \notin jwt.aud
                          \/ IsPositiveInteger(jwt.exp) => jwt.exp <= now
    BY DEF RefusedIsComplete
  <2>1. ~Malformed(jwt) /\ Refused(jwt, now)
    BY StatusAs
  <2>2. \/ jwt.iss # Issuer
        \/ ClientId \notin jwt.aud
        \/ IsPositiveInteger(jwt.exp) => jwt.exp <= now
    BY <2>1 DEF Refused, IsExpired
  <2>. QED
    BY <2>1, <2>2, CompleteAs
<1>. QED
  BY <1>1, PTL

\* A token in the store can only expire: its answer turns once, from accepted to 401, and no
\* token that failed passes later.
THEOREM OnlyExpiresHolds == Spec => OnlyExpires
<1>1. ASSUME now \in Nat, [Next]_vars
      PROVE  /\ IdTokenStatus(jwt, now) = Proceed
                  => IdTokenStatus(jwt', now') \in {Proceed, 401}
             /\ IdTokenStatus(jwt, now) # Proceed
                  => IdTokenStatus(jwt', now') # Proceed
  <2>1. jwt' = jwt /\ now' \in Nat /\ now <= now'
    BY <1>1 DEF Next, Tick, vars
  <2>. QED
    BY <1>1, <2>1, StatusLater
<1>2. now \in Nat /\ [Next]_vars =>
        [/\ IdTokenStatus(jwt, now) = Proceed
              => IdTokenStatus(jwt', now') \in {Proceed, 401}
         /\ IdTokenStatus(jwt, now) # Proceed
              => IdTokenStatus(jwt', now') # Proceed]_vars
  BY <1>1
<1>. QED
  BY <1>2, Clock, PTL DEF Spec, OnlyExpires
====
