# Formal models of nginx-oidc-njs

nginx-oidc-njs is an OpenID Connect relying party that runs inside nginx, as
njs handlers plus a few locations and keyval zones. This directory models its
core in TLA+: the authorization code flow, the life of a session's tokens behind
`auth_request`, the way of a request through nginx with its error pages and a faulty
configuration, the validation of ID tokens, access tokens and their introspection,
the resolution of static pages and their access rules, glob matching. TLC checks the models on small instances; TLAPS
proves every safety property the passing runs check, and the refinement of the abstract
specification, for all values of the constants: any number of browsers, requests, sessions,
tokens and sites, any lifetimes, configurations and access rules, globs, texts and paths of
any length.

Paths below are relative to the repository; `src/login.ts` and the like stand
for files of its `src/` and `src/handlers/`.

## 1. The system

### Components

| Component | Source | State it keeps | Operations |
|---|---|---|---|
| login handler | `handlers/login.ts` | none of its own; writes an auth state | store a state under the request id, set the state cookie, redirect to the OP; 405 |
| callback handler | `handlers/callback.ts` | none of its own; takes an auth state, writes a session | check state, consume it, token request, signature check, claims, nonce, create the session |
| auth states | `oauth.ts` (`AuthState`), `conf/http.conf` | keyval zone `oidc_auth_states` by state id | store, read, clear, expire (`exp` inside, zone timeout outside) |
| sessions | `conf/http.conf`, `context.ts` (`vars`) | three keyval zones (ID, access, refresh token) by session id | written by callback and refresh, cleared by logout and failed refresh, dropped by the zones |
| token endpoint client | `oauth.ts` (`requestToken`, `refreshTokens`) | the refresh token it read, then the tokens in hand | subrequests to `/-/internal/request-token` and `/-/internal/validate-jwt` |
| cache and lock of the token endpoint | `conf/server.conf` | nginx proxy cache, its locks | one upstream request per refresh token within the lock's age, answers replayed 30 s |
| `auth_access`, `auth_proxy`, `auth_pages` | `handlers/auth-*.ts` | none; read and refresh the session | let in, 401 (to login), 403, errors |
| logout handler | `handlers/logout.ts` | none; clears the session | clear the zones and cookies, redirect |
| access rules | `access.ts` | none | `isAllowed`, `isAnonymousAllowed` |
| ID token validation | `jwt.ts` | none | `validateJwtSign`, `decodeAndValidateIdToken` |
| pages | `pages.ts`, `handlers/pages-document-uri.ts` | the file system; a cached variable per request | find the site, split branch and page, choose the rule |
| glob matching | `utils.ts` (`globMatch`) | the positions of its loop | match |
| introspection | `oauth.ts` (`verifyToken`), `conf/server.conf` | nginx cache of answers | verify a token; not used by a handler |
| errors | `context.ts` (`fail`), `handlers/error.ts`, `conf/auth-*.conf` | none | status, `X-Error`, error page, template |
| configuration reader | `config-reader.ts`, `config.ts` | the options read so far, per request | read an option, fall back to its default, throw |
| client authorization | `handlers/client-authorization.ts` | none | the header for the token endpoint |
| cookies, logger | `cookie.ts`, `logger.ts` | none | parsing, formatting, output |

### How they interact, and what is hard

All handlers run in one nginx; njs runs a handler without interruption up to
its next `await`, and only subrequests make it wait. What the handlers share is
in keyval zones, in nginx's cache, and in the cookies of the browsers. So:

* between the two subrequests of a callback or a refresh, every other handler
  may run: other tabs' logins and callbacks, other requests that refresh the
  same token, a logout;
* one state cookie per browser serves the logins of all its tabs; answers reach
  the browser late, in another order, or never; callback URLs are reloaded;
* a token request can fail, time out, be refused, or bring tokens that do not
  validate, at either subrequest and after state has been used up;
* an OP may rotate refresh tokens, so that a second use of one is refused, and a
  401 makes the code clear the zone's refresh token;
* keyval zones drop entries on their own clock, tokens expire on theirs, and
  the caches replay answers for 30 s (tokens) and 10 min (introspection);
* behind `auth_request` a handler can only say 2xx, 401 or 403: its errors travel in
  a header, through `error_page`, to another handler, and error pages may themselves be
  refused;
* options are read when they are used, so that a mistake in the configuration throws
  in the middle of a handler.

What makes each component correct is stated as the properties of section 3; the
list of hazards with their lines is in `PROJECT.json`.

## 2. The modules

| Module | Models | Depends on |
|---|---|---|
| `Subrequests` | `requestToken` and `validateJwtSign` as a function from the subrequest's answer to the status they end with | |
| `LoginAttempts` | abstract specification: an attempt is begun by one browser, redeemed at most once, by it, signed in or over | |
| `AuthCodeFlow` | login, callback, auth states, sessions, browsers, OP | `Subrequests`, `LoginAttempts` (INSTANCE) |
| `AuthCodeFlow_proofs` | theorems about it | `AuthCodeFlow`, `TLAPS` |
| `AuthCodeFlow_refinement` | that it implements `LoginAttempts`, step by step | `AuthCodeFlow_proofs` |
| `AccessRules` | `isAllowed`, `isAnonymousAllowed` | |
| `SessionTokens` | auth handlers, `refreshTokens`, logout, token zones, cache and lock, OP with rotation | `Subrequests`, `AccessRules` |
| `SessionTokens_proofs` | theorems about it | `SessionTokens`, `TLAPS` |
| `Configuration` | options: required, defaulted, parsed; when reading one throws | |
| `Gateway` | a request in nginx: `auth_request`, `error_page`, `X-Error`, the error, login and logout handlers, mistakes in the configuration | `Subrequests`, `AccessRules`, `Configuration` |
| `Gateway_proofs` | theorems about it | `Gateway`, `TLAPS` |
| `AccessTokens` | access tokens and clocks: zone, token cache, introspection and its cache, the resource provider | |
| `AccessTokens_proofs` | theorems about it | `AccessTokens`, `TLAPS` |
| `IdToken` | `decodeAndValidateIdToken` over classes of claim values, and a clock | |
| `IdToken_proofs` | theorems about it | `IdToken`, `TLAPS` |
| `Glob` | `globMatch` as a state machine, one action per way through its loop | |
| `Glob_proofs` | theorems about it | `Glob`, `SequenceTheorems`, `TLAPS` |
| `Pages` | `findSiteRootUri`, `splitUriToBranchAndPagePath`, `resolveAccessRule`, the two page handlers and sites that come and go | `AccessRules` |
| `Pages_proofs` | theorems about it | `Pages`, theorems of the library, `TLAPS` |
| `MC*` | instances for TLC: symmetry, principals, rules, sites | |

### AuthCodeFlow

| Variable or action | Code |
|---|---|
| `authStates[r]` | zone `oidc_auth_states`, key = `$request_id` of the login = value of the state cookie |
| `sessions[q]` | the token zones, key = `$request_id` of the callback = value of the session cookie |
| `handlers[q]` | the request: `pc` is the await it is at, the rest its locals, its answer and a record of what it did |
| `cookies`, `authorizing`, `callbackUrls`, `codes` | what browsers hold, what the OP was asked and has issued |
| `Login`, `LoginNotAllowed` | `login` as a whole |
| `CallbackIncomplete`, `CallbackInvalidState`, `CallbackExpired`, `CallbackDenied`, `CallbackRequestToken` | `callback` up to its first await, one action per way out |
| `TokensReceived`, `TokensRefused` | after `requestToken` |
| `IdTokenRejected`, `CreateSession` | after `validateJwtSign`, through the claims and the nonce |
| `Deliver`, `LoseReply`, `OPIssueCode`, `OPRefuse`, `EvictState`, `DropStateCookie`, `Tick` | browser, OP, zones, time (external) |

Browsers may follow any callback URL any browser was sent to, more than once,
with whatever cookies they hold: reloads, several tabs, links passed on. The
OP may issue a code with the tokens of its login, tokens whose signature or
claims do not validate, or without a nonce.

### SessionTokens

| Variable or action | Code |
|---|---|
| `idTokens`, `accessTokens`, `refreshTokens` | the three zones, by session id |
| `AccessByToken`, `AccessRefresh`, `AccessUnauthenticated` | `auth_access` up to its await (and `auth_pages`, which shares these steps line by line, with the rule of the page) |
| `ProxyByToken`, `ProxyRefresh`, `ProxyUnauthenticated` | `auth_proxy` |
| `CacheHit`, `Forward`, `ForwardAged`, `CacheExpires` | `proxy_cache`, its lock, its lock age, its validity |
| `TokensArrive`, `TokensRefused`, `IdTokenRejected`, `StoreTokens` | `refreshTokens` and the handler after it |
| `Logout` | `logout`, as far as the session is concerned |
| `OPIssue`, `OPRefuse`, `OPOutage`, `OPRevoke` | the token endpoint (external) |
| `IdTokenExpires`, `ZoneTimeout` | time and the zones' timeouts |

A token is `[owner, gen]`: the session it was issued for and the number of its
token set. A behaviour has one of the `OPs` (`provider`): whether it issues a new
refresh token at each use, retires the used one, is slower than the lock's age, loses
answers after it has acted, revokes refresh tokens, and how many token sets it issues. Further faults are
switched on by `Faults`, so that each run says under which circumstances its properties
hold. `claims` is the user a page is told of (`exposeClaims`).

Abstractions: one nginx with one cache zone; the lock's timeout and age (both
let a waiting request pass) are one action; the callback's first token set is
the initial state; ID tokens live longer than the 30 s cache unless
`"short_lived"` is among the faults; the local signature check is not held up
longer than that either.

### Gateway and Configuration

| Variable or action | Code |
|---|---|
| `session` | the session's entries in the zones |
| `grant` | its refresh token at the OP and in the cache: whether it is revoked, or retired for the one in an answer; that answer, if cached; and, as history, by what mistake such an answer was given up |
| `request` | the client's request: where nginx is with it (`location`, `phase`), the error page it has been sent to, the error in `X-Error`, the answer |
| `AccessByToken` ... `ProxyUnauthenticated`, `NoSite` | `auth_access`, `auth_pages`, `auth_proxy` up to their first await |
| `TokensReceived`, `TokensRefused`, `IdTokenRejected`, `StoreTokens` | `refreshTokens`, with the listener of the test OP (`oauth-server.ts`) that looks at the client first |
| `TokensReplayed`, `AnswerExpires` | the 30 s cache of token answers (`server.conf:62-65`), whose key is the refresh token and no client |
| `AuthCrash`, `ContentCrash` | the log level does not parse: an exception outside `invokeHandler`'s `try` |
| `AuthRequest`, `Refuse` | `auth_request` and `error_page` of the snippets |
| `Login`, `Logout`, `NotAllowed`, `Error` | the content handlers |
| `Serve`, `ServeFails` | the site itself (external) |

One request at a time: the races are the subject of `SessionTokens`. The OP may retire a refresh
token when it answers, and sign by a key the proxy does not know yet. ID tokens
outlive the cached answer here; `SessionTokens` has those that do not. A configuration says of
each option whether it is unset, right or wrong; `Throws` is the getter of
`createConfigReader`. Each request brings the configuration it is served under. Error pages
are applied once (`recursive_error_pages` is off), and only to answers without a body;
directives of the server context are inherited by locations without their own.

### AccessTokens

A clock in ticks. `zone`, `tokenCache` and `introspections` hold what was stored and until
when. A proxied request takes the token from the zone or a refresh (out of the cache or
from the OP) to the resource provider of the integration tests, which introspects it
itself; a verifying one asks the introspection endpoint through nginx, which answers
out of its cache, also with an entry of the past while the endpoint is down. An
answer is on its way for `MaxDelay` at most. The OP says of a token whether it is active
(`OPsWord`; of another client's it may always say that it is not), or gives an answer that
says nothing: JSON without `active`, an `active` that is neither true nor false, no `client_id` or
`exp`, an `exp` that is no number, no JSON at all. What each becomes is
`IntrospectStatus` and `VerifyStatus` for the proxy, `ResourceProviderStatuses` for the resource
provider, which looks at `active` before the status of the answer. `LifetimeAssumption` is what an operator
has to see to: nothing in `auth_proxy` looks at a token's expiry, so the zone must drop it in
time, counted from when it was last stored, which may be the age of a cached answer later than
when it was issued. The bound is exact: with one tick more `ProxiedIsAccepted` fails.

### IdToken

`jwt.ts` runs a fixed order of checks. A payload is a record of the classes of
values the checks tell apart (a missing, ill-typed, zero or positive timestamp;
an issuer; a set of audiences; a name or no name). The state machine is one token in
a store and a clock.

### Glob

A variable for each local of `globMatch` (`gi`, `ti`, `gibak`, `tibak`) and an
action for each way through a turn of the loop: `Star`, `Match`, `Backtrack`, and
the ends `Finish` and `Fail`. A glob is a sequence of tokens: a literal
(escaped or not), `?`, `*`, a character class. Positions count tokens; the scan of a
class is one step, and malformed globs (an unterminated class, a final
backslash) are left out. What a glob *means* is stated without an algorithm: the text
can be cut into one piece per token (`Cuts`).

### Pages

| Variable or operator | Code |
|---|---|
| `sites` | the disk: `.site.json` by directory |
| `server` | the server's settings: `$oidc_pages_min_depth`, and whether `js_var` declares `$pages_site_root_uri` |
| `request` | `$request_uri`: its segments, and whether it has arguments |
| `siteVar` | `$pages_site_root_uri`, by which `pages_document_uri` tells `auth_pages` the site, where it is declared |
| `FindSiteRootUri`, `SplitUri`, `ResolveAccessRule` | the three functions of `pages.ts` |
| `MapDocument` | `pages_document_uri` |
| `AuthorizeNoSite`, `AuthorizePage` | `auth_pages` up to its first await |
| `Decide`, `DecideAnonymous` | its end, for a user the ID token or the refresh made known, or none |
| `Publish` | sites appear, change and vanish (external) |

A URI is the sequence of its segments, so that "/a//b" and a final slash are
visible. The arguments of a request belong to its last segment, as in the code: such
a segment names no directory. A rule carries the sets of branches and pages its
patterns match; the matching itself is the subject of `Glob`. Segments "." and ".." and
slashes within arguments are left out, and so is a directory whose name ends with
`__ROOT__` without being it. `DirOf` says which name of a path is its directory's nth by counting, which can be
reasoned about; `MCPages` has TLC evaluate that this is the path without its empty segments. The order of the handlers is the one the comment in
`auth-pages.ts` presupposes: the document is mapped first, or not at all. Sites are published
and withdrawn in between; a document's bytes, read by nginx afterwards, are not modelled.


## 3. Runs

| Run | What is checked | Bounds |
|---|---|---|
| `flow_two` | `TypeOK`; `SingleUse`: a stored state is consumed once; `RedeemsOwnCode`: only a code of the same login is exchanged; `SessionFromOwnLogin`: a session stems from the same browser's login and a valid token with its nonce; `SessionIffSignedIn`: tokens stored exactly for the callbacks that answer with a session cookie; `ImplementsLoginAttempts`: the refinement | 2 browsers, 3 requests, 2 codes, a zone that may drop states |
| `flow_one` | `StateKeptUntilUsed`: other tabs' callbacks leave a login's state alone; `NoLateRedemption`: no code of an expired login is exchanged; `ConsumedIsAnswered`: a callback that used up a login answers | 1 browser, 3 requests, clock 0..2, state valid 1, a zone that may drop a state |
| `tokens_race` | `TypeOK`; `SessionSurvives`: racing refreshes never cost a user the session; `TokensOfOneSet`; `QuietLogoutSticks`; `RequestsAnswered`: every request that waits for a refresh is answered | 1 session, 3 requests, 2 generations; an OP that retires refresh tokens within the lock's age, or a slow one that loses answers and keeps them valid; outages |
| `tokens_sharing` | `NoCrossSession`: the shared cache mixes up neither tokens nor claims; `GrantedOnFreshToken`: no one is let in on an expired token; `DeadTokenMeansLogin`: a refresh token that has become useless costs a login, not an error | 2 sessions, 2 requests, 1 generation; a slow OP that loses answers and retires refresh tokens, or one that revokes them; invalid and short-lived ID tokens |
| `logout_refresh` | finding: `LogoutSticks` is violated | 1 session, 1 request |
| `anonymous_outage` | finding: `AnonymousPagesOpen` is violated | 1 session, 1 request |
| `requests` | `TypeOK`; `FailClosed`: nothing that fails lets anyone in; `ErrorReachesClient`: an error behind `auth_request` arrives with its own status and title; `UnauthenticatedReachLogin`; `OnlySomeMistakesCost`: which mistakes cost a session its refresh token, and that no other mistake and no outage does; `LogoutIsWhole`; `RequestsAnswered`: every request gets an answer | 6 locations (three rules, each snippet, none), login and logout; every configuration with up to two mistakes or options; 2 templates, one unreadable |
| `server_scope` | finding: `UnauthenticatedReachLogin` is violated | 1 location, the right configuration |
| `access_tokens` | `TypeOK`; `ProxiedIsAccepted`: what `auth_proxy` passes on has not expired, and is refused by the OP's word only if revoked; `AcceptedIsCurrent`: who `verifyToken` accepts holds a current token of this client; `RefusedIsOver`: of which tokens and which ill-formed answers it says 401 | 2 proxied requests and 1 verifying, a token of the session and a foreign one, clock 0..6, lifetime 4, zone 2, caches 1 and 2, delay 1, one cached introspection, one revocation |
| `id_token` | `AcceptedIsSound`; `RefusedIsComplete`: a 401 is for complete payloads of another OP, for another client, or over (or with an `exp` that is no positive integer); `OnlyExpires` | every payload over 2 issuers, 2 clients, 3 seconds |
| `glob` | `MatchesAreReal`, `NoneMissed`; `NeverRepeats`: no position of the loop comes back; `Terminates` | globs of 0..4 of 6 tokens, texts of 0..4 of 3 characters |
| `pages` | `TypeOK`; `ServedUnderItsRule`: a page is served under the rule of its own site, branch and path; `SplitLosesNothing`; `ServedByARule`: with policy `DENY` the first rule about a page, in the first entry for its branch, decides, and what no rule is about is for nobody; `DepthsRespected`: no site outside the depths is found, each empty segment counted as a level | paths of 1..3 of 6 segments, 5 site directories up to level 4, maximal depth 3, minimal depth 0 with the variable declared and 1 without, 2 configurations, 2 users |

Why the bounds suffice. In the flow, a mix-up needs a login whose state is in the store and
two callbacks (a replay), or two logins and a callback between them: three requests. Two
codes let the tabs' answers be swapped; the theorems cover any number. Races over
a refresh token need two holders of the lock and one
that comes later: three requests; two generations of tokens let an older set meet
a newer one. More sessions matter for the shared cache alone, where two
suffice. Two mistakes in the configuration are enough for one to hide the other.
The clock of `access_tokens` reaches past the expiry of a token that was issued late, and
holds every sum of delay, cache and zone that the assumption is about; answers about
different tokens do not touch each other, so one cached introspection is enough; a second token of the
session would only take the first one's place, and every property is about one token. Whether
the variable of `pages` is declared and which minimal depth applies concern different steps, so
two of their four combinations do; the theorem has all.
Four tokens hold two stars with something after each, or a star, a literal and
a trailing slash; three segments hold a site, a branch and a page, or a root site
below a directory. Deadlock checking is off in the runs whose systems may stop: all request ids
are used up, the bound of the clock or of the generations is reached, nobody asks
for anything.

### Fairness

Only what nginx and njs guarantee: a handler whose subrequest was answered is
resumed; every subrequest is answered, if only by the 504 after
`proxy_read_timeout`; a request that waits for the cache lock passes when the
lock is released, its age is over or its own timeout is. These are `WF` of
`Resume` in `AuthCodeFlow`, of `OPAnswer` and `Continue` in
`SessionTokens`, of the steps of a request in `Gateway`. `Pass` has `SF`: other requests may
take the lock again and again, but the timeout of nginx's `proxy_cache_lock` lets
each pass in the end. `AccessTokens` has no liveness property and states no fairness. Nothing makes a browser, a user, the OP's user interface or the
clock move.

### Mutants

Each property has a mutated definition beside the one it mutates
(`ConsumeState_Kept` beside `ConsumeState`): a plausible slip in that code, under
which TLC finds the property violated.

## 4. Findings

* **A logout does not end a refresh in flight** (`logout_refresh`). A handler that
  read the refresh token before the logout stores a new token set under the
  session id when it resumes (`oauth.ts:193`); the browser's cookie is gone, the
  session is not. `QuietLogoutSticks` shows that this is the only way: after a
  logout that found no refresh running, nothing brings tokens back.
* **Pages for anyone depend on the OP for users with an old session**
  (`anonymous_outage`). `auth_access` refreshes before it looks at the rule and
  rethrows all errors but 401, so such a user gets an error during an outage while
  everyone else is let in.
* **`auth-access.conf` in the server context breaks the login** (`server_scope`).
  README.adoc:148 allows it, but the locations of `server.conf` then inherit its
  `auth_request` and `error_page`: the 401 of the subrequest is turned into the login's
  redirect, which `auth_request` takes for a failure, and the error handler is refused too.
  A user who is not signed in gets nginx's bare 500.

Read in the code, or seen while a property was worked out:

* What costs a session its refresh token is more than a refusal by the OP (`oauth.ts:201-206`
  clears it on any 401). `OnlySomeMistakesCost` lists it. Among the mistakes of a configuration it
  is a wrong issuer at once (`jwt.ts:118`); a wrong client id, which the OP would
  refuse without harm, if the answer comes out of the cache, whose key has no client
  (`server.conf:65`, `jwt.ts:124`); and, with an OP that retires refresh tokens, a key file that
  cannot be read, an issuer that is not set or a wrong `claimUsername`: these only fail with
  500, but the tokens are given up, and when the cached answer is gone the old refresh token
  is refused.
* auth-pages.ts:27 says that `pages_document_uri` sets `$pages_site_root_uri`; it does so only
  where `js_var` declares the variable (`pages-document-uri.ts:28-32`), and none of the snippets
  does (`auth-access.conf:2-3` declares the variables of its handler). `auth_pages` then
  searches the site again, and if another one has been published since, the document is served
  under the rules of that one. `ServedUnderItsRule` says what is left: with the variable
  declared, or as long as the search leads to the same document, it cannot happen.
* An `iat` that is no positive integer is a malformed token, a 500 (`jwt.ts:113`); such an
  `exp` is an expired token, a 401 (`jwt.ts:129`), and costs the refresh token.
  `RefusedIsComplete` says so.
* `verifyToken` answers 401 for an `active` that is neither true nor false but falsy
  (`oauth.ts:221`) and for an `exp` that is no number (`oauth.ts:243`), although other
  ill-formed answers are a 500 or 502. `RefusedIsOver` says so.
* The resource provider of the tests looks at `active` before the status
  (`resource-provider.ts:46-52`): an OP that answers by an error makes it refuse a good
  token by 401 instead of 503. `ProxiedIsAccepted` excepts it.
* The introspection location ignores Set-Cookie only (`server.conf:98-100`): an OP's
  Cache-Control may keep an answer for longer than the 10 min the model knows.
* A trailing slash in a glob stands for everything below (`utils.ts:147`), but not after a
  star: `*a/` does not match `a/b`, because the mismatch behind the slash first goes back to
  the star (`utils.ts:141`), and the position behind the slash is lost.
* The path of an access rule includes its subpages only if it ends with a slash,
  although `pages.ts:27` says they are implicitly included: `resolveAccessRule`
  matches the page by `globMatch` alone (`pages.ts:135`), and what a glob describes is
  what `NoneMissed` and `MatchesAreReal` say.
* The minimal depth counts empty segments (`pages.ts:68-72`): with a minimum of 2 the
  request `/a/` finds the site config of `/a`, at level 1. `DepthsRespected` says that this is
  all there is to it.
* A minimal depth that is no number is `NaN` (`config-reader.ts:96`), with which every
  comparison is false: every page answers "Site Not Found", and no error names the mistake.
* Since the arguments stay in the last segment, `/site?x` finds no site where `/site`
  does.
* The log level defaults to `error` (`config.ts:33`), README.adoc says `info`; the
  README's example sets `$oidc_access`, the code reads `$oidc_allow`.
* The README's example gives the zone of auth states 60 s, while a state is valid for 120 s
  (`login.ts:37`): the login is over when the zone drops it.
* In the second a token's `exp` names, the OP of the tests calls it inactive
  (`oauth-server.ts:224`), `verifyToken` accepts it (`oauth.ts:243`), and an ID token
  is refused (`jwt.ts:129`).
* A 200 with a body that is no JSON is cached like any other: for 30 s at the token endpoint,
  10 min at the introspection endpoint.
* Cookie attributes that do not parse throw after the login has stored its state
  and after the logout has cleared the session (`logout.ts:69`): the user sees
  an error, and the session is over all the same.

What the runs leave out on purpose: with rotation *and* an OP slower than `proxy_cache_lock_age` (or a zone
that drops the refresh token, or a lost answer) a session can be lost to a race,
and `SessionSurvives` is therefore claimed for rotation with an OP within the
lock's age, and for a slow OP without rotation.

## 5. Proofs

Every invariant and every action property of a passing run has a theorem of the form
`Spec => []Inv`, or `Spec => [][A]_vars`, for all values of the constants; so has the
refinement. The theorems rest on the assumptions the modules declare under names, which TLC
evaluates in every run, and on nothing else; where a theorem needs more it says so as a
hypothesis. In each module of proofs the properties of interest are drawn from one inductive invariant
`IInv`, with `InitIInv` and `NextIInv` (one step per action, one per conjunct the action
can disturb); what the actions do to a record is stated once in lemmas, and cited.

### AuthCodeFlow_proofs

| Theorem | States |
|---|---|
| `TypeCorrect` | `Spec => []TypeOK` |
| `SingleUseHolds`, `RedeemsOwnCodeHolds`, `SessionFromOwnLoginHolds`, `SessionIffSignedInHolds` | the invariants of `flow_two` |
| `StateKeptUntilUsedHolds`, `NoLateRedemptionHolds` | the invariant and the action property of `flow_one` |

Assumptions: `RootAssumption`, `EvictableAssumption`, `TimeAssumption`, `ErrorsAssumption`,
`NoneAssumption`: `/` is a page, times are natural numbers, the OP's errors are
those the callback tells apart, and "undefined" is not an id. Sha-256 is an injective term and a nonce is a term of its login's id,
which is the usual idealisation of hash and random bits; no other assumption about
cryptography is made.

None of the properties is inductive: whether a callback may redeem a
code depends on the cookie it read, which may have been set by an answer that
travelled for a long time. The invariant is

    IInv == TypeOK /\ HandlersShaped /\ LoginsRecorded /\ StateCookiesOwn
            /\ ConsumedGone /\ SingleUse /\ CodesBound /\ RedeemsOwnCode
            /\ SessionsSound

* `HandlersShaped`: which locals a handler has at which await; without it
  `TypeOK` is not inductive.
* `LoginsRecorded`: a stored state, an authorization URL and a login's answer in
  flight all belong to the login whose id they carry and carry its nonce.
* `StateCookiesOwn`: a state cookie, held or on its way, names a login of that browser.
* `ConsumedGone`: a consumed state is not in the store. With it `SingleUse` is
  inductive: to consume, a callback must find the state.
* `CodesBound`: callback URLs pair a state's digest only with codes issued for that
  login's nonce. With the digest's injectivity it gives `RedeemsOwnCode`.
* `SessionsSound`: sessions, the answers that announce them and session cookies.

Two lemmas
about requests that were free (`FreeRequest`) and handlers that do not change
(`HandlersUnchanged`) carry most steps. `StateKeptUntilUsed` gets a second
induction on top of `IInv` (`StateKeptStep`), the action property follows from
`IInv` and the guards of the step (`InTimeStep`).

### AuthCodeFlow_refinement

`Refinement` proves `Spec => ImplementsLoginAttempts`. The mapping `AttemptOf` chooses the
redeemer of an attempt among the callbacks that use its state (`Users`); `AttemptsSeen`, an
invariant on top of `IInv`, says what the mapping amounts to, so that the choice has not to be
looked at again: a login that has not begun is unused, a begun one is in the phase its own record
says, redeemed by its own browser or by nobody, and one whose state is still stored has no
users. Then every step is shown to be one step of one attempt (begin, redeem, sign in, be
over), or to leave all attempts as they are: each callback touches one login alone, by
`SingleUse` and `RedeemsOwnCode`.

### SessionTokens_proofs

| Theorem | States |
|---|---|
| `TypeCorrect`, `NoCrossSessionHolds`, `TokensOfOneSetHolds`, `QuietLogoutSticksHolds` | the invariants, for every OP and every fault |
| `GrantedOnFreshTokenHolds`, `DeadTokenMeansLoginHolds` | the action properties, for every OP and every fault |
| `SessionSurvivesHolds` | under `RetiringOPsAnswer` and `OnlyOutages` |

Assumptions: `RuleAssumption`, `UserAssumption`, `OPsAssumption`, `FaultsAssumption`,
`MaxGenAssumption`, `NoTokenAssumption`, `NoSessionAssumption`: all of them types. For the first six

    IInv == TypeOK /\ HandlersShaped /\ TokensOwned /\ TokensOfOneSet /\ QuietMeansQuiet

`TokensOwned` keys the shared cache by owner (an entry belongs to the session of the refresh
token that is its key), which makes `NoCrossSession` inductive; `QuietMeansQuiet` adds to
`QuietLogoutSticks` that nobody is refreshing, without which the tokens could come back.

`SessionSurvives` needs to know where the one refresh token the OP still accepts may be. Its
hypotheses are those under which the claim is made (section 4): an OP that retires used refresh tokens
answers within the lock's age and loses no answer (`RetiringOPsAnswer`), and nothing
fails but the OP (`OnlyOutages`). `tokens_race` is an instance of both. `SurvivalInv` is a
second invariant on top of `IInv`. For an OP that retires nothing (`AllAccepted`) every
refresh token stored, in use or on its way is accepted. For one that does (`OneAccepted`) the OP
accepts exactly the current one; the zone holds it, or the one before it while some handler
carries the current set to the zone; every other refreshing handler is on its way to the OP with
the current token, carries the current set, or waits for it to come out of the cache; and as soon as the
current token is used itself, nobody holds anything of its set any more, in hand or in the cache, so that
a handler that resumes late cannot put the older set back.

### AccessTokens_proofs

`TypeCorrect`, `ProxiedIsAcceptedHolds`, `AcceptedIsCurrentHolds`, `RefusedIsOverHolds`: the
invariants of `access_tokens`, for all lifetimes, validities and delays of
`LifetimeAssumption`, which is exact (section 2), and `KindAssumption`, `RequestsAssumption`,
`NoneAssumption`, `TimesAssumption`. The properties speak about one answer; the invariant has
to say how long what is stored or on its way will still be good:
`KeptFor` (a stored token outlives its zone by the delay, a cached one its cache by zone and delay),
`OutlastsUse` (the same for a token in hand), `CachedRight` (an old "active" answer is at most the
cache's validity and a delay older than the revocation). TLC confirmed that `IInv` holds in the
reachable states before it was proved. The proof is where
`TimesAssumption` got its present form: with a token cache of validity 0 the sum of
`LifetimeAssumption` counts one tick too little, and TLC finds a proxied token
refused (lifetime 3); nginx has no such validity for the answers it caches.

### Gateway_proofs

`TypeCorrect`, `FailClosedHolds`, `OnlySomeMistakesCostHolds`, `LogoutIsWholeHolds` for every
configuration, every set of locations and templates, and every way to include the snippets;
`ErrorReachesClientHolds` and `UnauthenticatedReachLoginHolds` for those without a snippet in
the server context. That hypothesis is necessary: `server_scope` shows what happens otherwise.
Assumptions: `LocationsAssumption`, `SnippetAssumption`, `RuleAssumption`,
`ConfigsAssumption`, `TemplatesAssumption`.
`IInv` is about the request alone, but for types: `Placed` (where it may be), `Informed` (what a
waiting handler has got past), `LetIn` (who is at the content was let in), and, without a
snippet in the server context, `Detoured`: a refused request is at the location its
verdict leads to, and its context can be made there. `OnlySomeMistakesCost` needs a second
invariant, `Explained`: tokens for which the OP has retired the old one are either being
validated, straight from the OP, or have been given up by a mistake on record, which is never the
client id (the OP gives tokens to the right client only).

### IdToken_proofs

`AcceptedIsSoundHolds`, `RefusedIsCompleteHolds`, `OnlyExpiresHolds`, over any issuers,
clients and times: the three outcomes of the checks exclude each other (`StatusAs`), and only
the comparison with `exp` depends on the clock (`StatusLater`). Nothing is inductive but
that the clock is a number.

### Pages_proofs

`TypeCorrect`, `ServedUnderItsRuleHolds`, `SplitLosesNothingHolds`, `ServedByARuleHolds`,
`DepthsRespectedHolds`: the invariants of `pages`, for paths of any length, any sites, depths,
rules and patterns, whatever is published and withdrawn between the handlers.
Assumptions: `SegmentsAssumption`, `BranchAssumption`, `DepthAssumption`, `DirsAssumption`,
`PrincipalsAssumption`, `PolicyAssumption`, `ConfigsAssumption`.

    IInv == Typed /\ Mapped /\ Answered

says that the site `auth_pages` judges by is one the search may have found (`Located`),
the same the document is from if it was mapped (`Judged`), that branch, page and rule are those of the three functions
for it (`Chosen`), and that who was let in is let in by that rule (`LetIn`). The rest is about
the functions. Where they search, the library's induction is out of reach; `LeastNat` gets
the least element of a set of numbers from the well-foundedness of strict inclusion among finite
sets instead (`FoundLocated`, `RuleFound`, `AroundFirst`). Names are
counted through the empty segments (`CountStep`, `NthElement`, `CountMore`), which relates
the depth of a directory to the segments of the request (`LevelNames`), and a request is cut behind its first
k segments (`SiteParts`, `SplitDivides`).

### Glob_proofs

| Theorem | States |
|---|---|
| `TypeCorrect` | the loop's positions stay inside the glob and the text |
| `MatchesAreRealHolds` | no wrong match |
| `NoneMissedHolds` | no text the glob describes is missed; without a star, none below it either |
| `NeverRepeatsHolds` | no position comes back: the ranking that ends the loop |

Assumptions: `TextAssumption`, `ClassesAssumption` and `BoundsAssumption` (the
wildcards and class names are not characters of the text). For soundness, `IInv` says
that what the loop has behind it, and what it would go back to, are described by the
glob's first tokens; `Extend`, `Stretch` and `StarsFollow` build the cut for the next
position. For completeness, `CInv` adds `NotPassed`: if the glob describes the text,
some exact cut is *ahead* of the loop, that is, its last star takes as many
characters as the loop's or more, and in the latter case no slash lies between. A new
star keeps it, because the pieces since the last star have the same lengths in both;
going back keeps it, because the mismatch rules out a cut that is not strictly ahead
(`MismatchAhead`), and then the next character is not a slash, so that the loop
never gives up too early. This is why one backup position is enough. The ranking is
lexicographic in the last star's place, its end in the text, and the place in the glob; that a
new star is behind the last one needs `gibak <= gi`.

### Model-checked only

* Liveness: `ConsumedIsAnswered`, both `RequestsAnswered` and `Terminates` need fairness and
  ENABLED, which are out of the prover's reach. What ends the loop of `globMatch` is proved all the
  same: `NeverRepeatsHolds`, and `TypeCorrect` bounds the positions.
* The findings: the runs that expect a violation exhibit one behaviour each.


## 6. Not modelled, and why

* The logger's output, the rendering of templates and messages: pure formatting.
* Attributes and syntax of cookies: a cookie is what the browser keeps; that its attributes
  may not parse is an option that throws, in `Gateway`.
* The conversion of numeric options: see section 4.
* The type declarations of njs; the HTTP servers, fixtures and hooks of the
  integration tests (the token, introspection and bearer checks of their OP and resource
  provider are in `Gateway` and `AccessTokens`).

## 7. Plan

1. (done) The authorization code flow, its abstract specification, its proof.
2. (done) The tokens of a session, ID tokens, access rules.
3. (done) Glob matching; pages, sites and branches.
4. (done) Requests through nginx: error pages, configuration, login, logout; access
   tokens and introspection.
5. (done) Proofs: every safety property of the passing runs, the refinement
   `AuthCodeFlow` => `LoginAttempts`.
   Revised since: the cached token answer and rotation in `Gateway`, ill-formed introspections in
   `AccessTokens`, `exp` in `IdToken`, the undeclared variable in `Pages`.
6. Proofs about several modules: an abstract specification of a session's tokens (one current
   set, used up at most once) that `SessionTokens` implements under the hypotheses of
   `SessionSurvivesHolds`; `globMatch` as the matching that `ResolveAccessRule` of `Pages` uses.
