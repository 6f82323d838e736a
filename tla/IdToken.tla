---- MODULE IdToken ----
(***************************************************************************)
(* Decoding and validating an ID token (jwt.ts): which status the checks   *)
(* end with, for any payload the OP may sign, and how that status changes  *)
(* as time goes by.  The signature is auth_jwt's business.                 *)
(*                                                                         *)
(* The order of the checks matters to the callers: 401 lets refreshTokens  *)
(* drop the refresh token and auth_access send the user to the login, 500  *)
(* is an error page that keeps it.                                         *)
(***************************************************************************)
EXTENDS Integers, Subrequests

CONSTANTS
    Issuers,   \* issuers, among them conf.issuer
    Issuer,
    Clients,   \* client ids, among them conf.clientId
    ClientId,
    UseRoles,  \* whether conf.claimRoles is set
    MaxTime,   \* bound of the clock
    Missing,   \* an absent claim, or a falsy one: '', 0, null
    Other      \* a claim of a type or value nothing accepts

ASSUME IssuerAssumption == Issuer \in Issuers
ASSUME ClientAssumption == ClientId \in Clients
ASSUME UseRolesAssumption == UseRoles \in BOOLEAN
ASSUME MaxTimeAssumption == MaxTime \in Nat
ASSUME KindsAssumption ==
    /\ Missing # Other
    /\ {Missing, Other} \cap (Issuers \cup Int) = {}

\* A timestamp claim; numeric strings count as numbers, zero as missing.
Timestamps == (-1 .. MaxTime + 1) \ {0}
NumericClaims == Timestamps \cup {Missing, Other}

\* wellFormed: three parts, the second one the base64url of a JSON object.  An
\* audience given as a string is the set of it.  What is in the name and the
\* roles does not matter, only whether they are there and of the right type.
Jwts == [wellFormed : BOOLEAN,
         iss : Issuers \cup {Missing},
         sub : {"subject", Missing},
         aud : SUBSET Clients \cup {Missing},
         iat : NumericClaims,
         exp : NumericClaims,
         username : {"name", Missing, Other},
         roles : {"array", Missing, Other}]

\* isPositiveInteger (utils.ts).
IsPositiveInteger(claim) == claim \in Int /\ claim > 0

\* 500: the token cannot be decoded, lacks a required claim, or has no time of
\* issue.
Malformed(token) ==
    \/ ~token.wellFormed
    \/ \E claim \in {"iss", "sub", "aud", "iat", "exp"} : token[claim] = Missing
    \/ ~IsPositiveInteger(token.iat)

\* Mutants: a token outlives the second its exp names; the comparison turned.
IsExpired_LastSecond(token, time) ==
    ~IsPositiveInteger(token.exp) \/ token.exp < time
IsExpired_Turned(token, time) ==
    ~IsPositiveInteger(token.exp) \/ token.exp > time

\* A token is expired in the second its exp names.
IsExpired(token, time) == ~IsPositiveInteger(token.exp) \/ token.exp <= time

\* 401: not for this client, or no longer.
Refused(token, time) ==
    \/ token.iss # Issuer
    \/ ClientId \notin token.aud
    \/ IsExpired(token, time)

\* 500: the claims the configuration names.
LacksIdentity(token) ==
    \/ token.username # "name"
    \/ UseRoles /\ token.roles # "array"

\* Mutant: the expiration is looked at first.
IdTokenStatus_ExpirationFirst(token, time) ==
    CASE IsExpired(token, time) -> 401
      [] ~IsExpired(token, time) /\ (Malformed(token) \/ LacksIdentity(token)) -> 500
      [] ~IsExpired(token, time) /\ ~Malformed(token) /\ ~LacksIdentity(token) ->
           IF Refused(token, time) THEN 401 ELSE Proceed

\* decodeAndValidateIdToken: the status it throws, or Proceed.
IdTokenStatus(token, time) ==
    CASE Malformed(token) -> 500
      [] ~Malformed(token) /\ Refused(token, time) -> 401
      [] ~Malformed(token) /\ ~Refused(token, time) /\ LacksIdentity(token) -> 500
      [] OTHER -> Proceed

-----------------------------------------------------------------------------
\* A token in the store, read by requests at different times.
VARIABLES jwt, now

vars == <<jwt, now>>

Init == jwt \in Jwts /\ now = 0

Tick == now < MaxTime /\ now' = now + 1 /\ UNCHANGED jwt

Next == Tick

Spec == Init /\ [][Next]_vars

-----------------------------------------------------------------------------
(* Properties *)

\* A token that passes was issued by the configured OP for this client, names
\* a subject and a user, and its exp is still to come: not even the second it
\* names is left (jwt.ts compares with <=).
AcceptedIsSound == IdTokenStatus(jwt, now) = Proceed =>
    /\ jwt.wellFormed /\ jwt.sub # Missing
    /\ jwt.iss = Issuer /\ ClientId \in jwt.aud
    /\ IsPositiveInteger(jwt.iat) /\ IsPositiveInteger(jwt.exp)
    /\ now < jwt.exp
    /\ jwt.username = "name" /\ (UseRoles => jwt.roles = "array")

\* The 401 that costs a session its refresh token is the answer to a token that
\* can be decoded, has all required claims and a time of issue, and is of another
\* OP, for another client, or over; every other defect is a 500, which keeps the
\* refresh token.  One defect counts as being over: an exp that is there but is
\* no positive integer (jwt.ts:129), while such an iat is a 500 (jwt.ts:113).
RefusedIsComplete == IdTokenStatus(jwt, now) = 401 =>
    /\ jwt.wellFormed
    /\ Missing \notin {jwt.iss, jwt.sub, jwt.aud, jwt.iat, jwt.exp}
    /\ IsPositiveInteger(jwt.iat)
    /\ \/ jwt.iss # Issuer
       \/ ClientId \notin jwt.aud
       \/ IsPositiveInteger(jwt.exp) => jwt.exp <= now

\* A token that was accepted, and so stored, stays accepted until it expires,
\* fails by 401 from then on and never passes again; a token that fails never
\* passes later.  (SessionTokens relies on it: see Fresh there.)
OnlyExpires == [][
    /\ IdTokenStatus(jwt, now) = Proceed
         => IdTokenStatus(jwt', now') \in {Proceed, 401}
    /\ IdTokenStatus(jwt, now) # Proceed
         => IdTokenStatus(jwt', now') # Proceed]_vars

====
