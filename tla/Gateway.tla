---- MODULE Gateway ----
(***************************************************************************)
(* A client's requests on their way through nginx: the auth_request of a   *)
(* location's snippet (conf/auth-*.conf), the detour of its errors through *)
(* the X-Error header, error_page and the error handler, the login and     *)
(* logout handlers behind their locations (conf/server.conf), and what a   *)
(* mistake in the configuration does to each of them.                      *)
(*                                                                         *)
(* One request at a time; SessionTokens has the races of several.  Each    *)
(* request has a configuration of its own: nginx may have been reloaded    *)
(* since the last one, and a reload while a request waits for the OP       *)
(* leaves it to its old worker.                                            *)
(***************************************************************************)
EXTENDS Integers, FiniteSets, Subrequests, AccessRules, Configuration

CONSTANTS
    Locations,      \* the site's own locations
    Snippet,        \* the snippet each of them includes, or "none"
    ServerSnippet,  \* the one included in the server context, or "none"
    Names, User,    \* user names and roles; the client's user
    Rule,           \* the access rule of each location
    Configs,        \* the configurations to consider
    Templates,      \* error page templates: 403 is "403.html", 4 is "4xx.html"
    Unreadable      \* those of them that cannot be read

Snippets == {"auth-access", "auth-pages", "auth-proxy"}
OidcLocations == {"login", "logout", "error"}

ASSUME LocationsAssumption == Locations \cap OidcLocations = {}
ASSUME SnippetAssumption ==
    /\ Snippet \in [Locations -> Snippets \cup {"none"}]
    /\ ServerSnippet \in Snippets \cup {"none"}
ASSUME RuleAssumption ==
    Rule \in [Locations -> AccessRule(Names)] /\ User \in Principal(Names)
ASSUME ConfigsAssumption == Configs \subseteq Configurations /\ Configs # {}
ASSUME TemplatesAssumption == Unreadable \subseteq Templates /\ Templates \subseteq Nat \ {0}

\* A location without directives of its own inherits those of the server.
SnippetOf(location) ==
    IF location \in Locations /\ Snippet[location] # "none"
    THEN Snippet[location] ELSE ServerSnippet
RuleOf(location) ==
    IF location \in Locations THEN Rule[location]
    ELSE [allow |-> {"AUTHENTICATED"}, deny |-> {}]

-----------------------------------------------------------------------------
(* Data *)

\* The session's variables as the handlers see them: an ID token may be stale.
Session == [idToken : {"none", "fresh", "stale"}, accessToken : BOOLEAN,
            refreshToken : BOOLEAN]
NoSession == [idToken |-> "none", accessToken |-> FALSE, refreshToken |-> FALSE]

\* X-Error: the status of an error a handler failed with, 0 if there is none.
\* (Its title goes with it.)
Statuses == {400, 401, 403, 404, 500, 502}

\* What a client gets: the page, the proxied resource, a redirect to the OP's
\* authorization endpoint, an error with a body of this module's (title: whose),
\* nginx's own error page, or one of the logout's answers.
ReplyKinds == {"none", "page", "proxied", "login", "error", "bare",
               "opLogout", "next", "goodbye"}
Reply == [kind : ReplyKinds, status : {0, 200, 204, 303, 405} \cup Statuses,
          title : {"none", "default", "handler"}, template : Templates \cup {0},
          hint : {"none", "fresh", "stale"}]
NoReply == [kind |-> "none", status |-> 0, title |-> "none", template |-> 0, hint |-> "none"]

\* verdict: what the handler behind auth_request found, for the location asked for.
Verdicts == {"none", "user", "anonymous", "token", "unauthenticated", "failed", "crashed"}
Phases == {"idle", "access", "refreshing", "validating", "content", "answered"}

\* The refresh token in the zone, as the OP and the cache of token answers see it:
\* revoked; rotated, its successor on the way in an answer; the answer cached for it;
\* and (history) by what such an answer with a successor was given up.
Grant == [revoked : BOOLEAN, rotated : BOOLEAN, cached : {"none", "good", "forged"},
          wastedBy : {"none", "signature", "issuer", "clientId", "claimUsername"}]
NewGrant == [revoked |-> FALSE, rotated |-> FALSE, cached |-> "none", wastedBy |-> "none"]

VARIABLES
    session,   \* the client's session in the keyval zones
    grant,     \* the session's refresh token
    request    \* the client's request

vars == <<session, grant, request>>

Request == [asked : Locations \cup OidcLocations, method : {"GET", "POST"},
            html : BOOLEAN, site : BOOLEAN, conf : Configs,
            location : Locations \cup OidcLocations, phase : Phases,
            errorPage : {0, 401, 403, 500}, xError : Statuses \cup {0},
            verdict : Verdicts, tokens : {"none", "good", "forged"},
            replayed : BOOLEAN, \* are its tokens out of the cache
            reply : Reply]

NewRequest(asked, method, html, site, conf) ==
    [asked |-> asked, method |-> method, html |-> html, site |-> site, conf |-> conf,
     location |-> asked,
     phase |-> IF SnippetOf(asked) = "none" THEN "content" ELSE "access",
     errorPage |-> 0, xError |-> 0, verdict |-> "none", tokens |-> "none",
     replayed |-> FALSE, reply |-> NoReply]

Idle == [NewRequest("login", "GET", TRUE, TRUE, CHOOSE conf \in Configs : TRUE)
           EXCEPT !.phase = "idle"]

TypeOK ==
    /\ session \in Session
    /\ grant \in Grant
    /\ request \in Request
    /\ request.phase = "answered" <=> request.reply # NoReply
    /\ request.reply.status = 0 <=> request.reply = NoReply
    /\ request.phase = "validating" <=> request.tokens # "none"

Init ==
    /\ session = NoSession
    /\ grant = NewGrant
    /\ request = Idle

Goto(next) == request' = next
Answered(r, reply) ==
    [r EXCEPT !.phase = "answered", !.tokens = "none", !.reply = reply]
Bare(r, status) == Answered(r, [NoReply EXCEPT !.kind = "bare", !.status = status])

-----------------------------------------------------------------------------
(* error_page and auth_request *)

\* The statuses a snippet has an error page for: the login for 401, the error
\* handler for the others.
ErrorPages(snippet) ==
    CASE snippet = "none" -> {}
      [] snippet = "auth-proxy" -> {403, 500}
      [] snippet \in {"auth-access", "auth-pages"} -> {401, 403, 500}

\* The main request is refused: error_page, once only (recursive_error_pages is
\* off), is an internal redirect that starts over in its location.
Refuse(r, status) ==
    LET page == IF status = 401 THEN "login" ELSE "error"
    IN  IF r.errorPage # 0 \/ status \notin ErrorPages(SnippetOf(r.location))
        THEN Bare(r, status)
        ELSE [r EXCEPT !.location = page, !.errorPage = status, !.tokens = "none",
                       !.phase = IF SnippetOf(page) = "none" THEN "content" ELSE "access"]

\* A status that a handler or auth_jwt leaves to nginx in an internal location; an
\* error page inherited from the server is applied there too, and the login then
\* answers the subrequest by a redirect.
InternalStatus(status) ==
    IF status \in {401} \cap ErrorPages(ServerSnippet) THEN 303 ELSE status

\* auth_request: any status but 2xx, 401 and 403 is an error.
AuthRequest(r, status) ==
    CASE status \in 200 .. 299 -> [r EXCEPT !.phase = "content", !.tokens = "none"]
      [] status \in {401, 403} -> Refuse(r, status)
      [] OTHER -> Refuse(r, 500)

Allowed(r, verdict) == AuthRequest([r EXCEPT !.verdict = verdict], 204)
LoginRequired(r) ==
    AuthRequest([r EXCEPT !.verdict = "unauthenticated", !.xError = 0], InternalStatus(401))

\* fail: behind auth_request it sends 403 and the error in X-Error.
Failed(r, status) == AuthRequest([r EXCEPT !.verdict = "failed", !.xError = status], 403)

\* An exception outside the reach of fail.
Crashed(r) == AuthRequest([r EXCEPT !.verdict = "crashed", !.xError = 0], 500)

-----------------------------------------------------------------------------
(* auth_access, auth_pages, auth_proxy *)

\* decodeAndValidateIdToken of a token from the right OP: 500 also stands for a
\* plain Error of the configuration.
ClaimsStatus(c) ==
    CASE Throws(c, "issuer") -> 500
      [] c["issuer"] = "wrong" -> 401
      [] c["issuer"] = "right" /\ Throws(c, "clientId") -> 500
      [] c["issuer"] = "right" /\ c["clientId"] = "wrong" -> 401
      [] OTHER -> IF c["claimUsername"] = "wrong" THEN 500 ELSE Proceed

Authorized(r) ==
    IF IsAllowed(User, RuleOf(r.location)) THEN Allowed(r, "user") ELSE Failed(r, 403)
Unauthenticated(r) ==
    IF IsAnonymousAllowed(RuleOf(r.location)) THEN Allowed(r, "anonymous")
    ELSE LoginRequired(r)

\* createContext reads the log level before anything can be caught.
ContextThrows(r) == Throws(r.conf, "logLevel")

AuthCrash ==
    /\ request.phase = "access"
    /\ ContextThrows(request)
    /\ Goto(Crashed(request))
    /\ UNCHANGED <<session, grant>>

NoSite ==
    /\ request.phase = "access"
    /\ ~ContextThrows(request)
    /\ SnippetOf(request.location) = "auth-pages"
    /\ ~request.site
    /\ Goto(Failed(request, 404))
    /\ UNCHANGED <<session, grant>>

\* The handler of a page has come as far as the ID token.
AtIdToken ==
    /\ request.phase = "access"
    /\ ~ContextThrows(request)
    /\ \/ SnippetOf(request.location) = "auth-access"
       \/ SnippetOf(request.location) = "auth-pages" /\ request.site

\* Mutant: a token in the zone was validated when it was stored.
AcceptsIdToken_Stored == session.idToken = "fresh"

AcceptsIdToken == session.idToken = "fresh" /\ ClaimsStatus(request.conf) = Proceed

AccessByToken ==
    /\ AtIdToken
    /\ AcceptsIdToken
    /\ Goto(Authorized(request))
    /\ UNCHANGED <<session, grant>>

AccessRefresh ==
    /\ AtIdToken
    /\ ~AcceptsIdToken
    /\ session.refreshToken
    /\ session' = [session EXCEPT !.idToken = "none"]
    /\ Goto([request EXCEPT !.phase = "refreshing"])
    /\ UNCHANGED grant

AccessUnauthenticated ==
    /\ AtIdToken
    /\ ~AcceptsIdToken
    /\ ~session.refreshToken
    /\ session' = [session EXCEPT !.idToken = "none"]
    /\ Goto(Unauthenticated(request))
    /\ UNCHANGED grant

AtProxy ==
    /\ request.phase = "access"
    /\ ~ContextThrows(request)
    /\ SnippetOf(request.location) = "auth-proxy"

ProxyByToken ==
    /\ AtProxy
    /\ session.accessToken
    /\ Goto(Allowed(request, "token"))
    /\ UNCHANGED <<session, grant>>

ProxyRefresh ==
    /\ AtProxy
    /\ ~session.accessToken
    /\ session.refreshToken
    /\ Goto([request EXCEPT !.phase = "refreshing"])
    /\ UNCHANGED <<session, grant>>

ProxyUnauthenticated ==
    /\ AtProxy
    /\ ~session.accessToken
    /\ ~session.refreshToken
    /\ Goto(LoginRequired(request))
    /\ UNCHANGED <<session, grant>>

-----------------------------------------------------------------------------
(* refreshTokens *)

\* client_authorization is a js_set variable: when it throws, nginx sends no
\* Authorization header.
ClientAuthorization(c) ==
    IF \E option \in {"logLevel", "clientId", "clientSecret"} : Throws(c, option)
    THEN "missing"
    ELSE IF c["clientId"] = "right" /\ c["clientSecret"] = "right" THEN "right" ELSE "wrong"

\* The token endpoint of the OP, which looks at the client first.
TokenAnswer(c) ==
    IF ClientAuthorization(c) # "right" THEN [status |-> 401, body |-> "other_error"]
    ELSE IF ~grant.revoked /\ ~grant.rotated THEN [status |-> 200, body |-> "tokens"]
    ELSE [status |-> 400, body |-> "invalid_grant"]
Outage == [status |-> 502, body |-> "malformed"]

\* Mutants: any failed refresh costs the refresh token; an error but 401 is never
\* passed on.
ClearsRefreshToken_Always(status) == TRUE
FailedRequest_Only401(r, status) ==
    IF status = 401 THEN Unauthenticated(r) ELSE r

ClearsRefreshToken(status) == status = 401

\* The handler after a failed refresh: auth_proxy passes any error on.
FailedRequest(r, status) ==
    IF status = 401 /\ SnippetOf(r.location) # "auth-proxy"
    THEN Unauthenticated(r) ELSE Failed(r, status)

RefreshFailed(status) ==
    /\ session' = [session EXCEPT !.refreshToken = @ /\ ~ClearsRefreshToken(status)]
    /\ Goto(FailedRequest(request, status))

\* Nothing is cached, so the OP is asked.  It may retire the refresh token it is
\* shown, for the one in its answer, and sign by a key that the proxy's key file does
\* not have yet.  nginx keeps its answer for 30 s.
TokensReceived ==
    /\ request.phase = "refreshing"
    /\ grant.cached = "none"
    /\ RequestTokenStatus(TokenAnswer(request.conf)) = Proceed
    /\ \E tokens \in {"good", "forged"}, rotated \in BOOLEAN :
         /\ Goto([request EXCEPT !.phase = "validating", !.tokens = tokens,
                                 !.replayed = FALSE])
         /\ grant' = [grant EXCEPT !.rotated = rotated, !.cached = tokens]
    /\ UNCHANGED session

\* The cached answer, for whatever client: the key holds the refresh token only.  (Its
\* ID token has not expired: SessionTokens has shorter lives.)
TokensReplayed ==
    /\ request.phase = "refreshing"
    /\ grant.cached # "none"
    /\ Goto([request EXCEPT !.phase = "validating", !.tokens = grant.cached,
                            !.replayed = TRUE])
    /\ UNCHANGED <<session, grant>>

TokensRefused ==
    /\ request.phase = "refreshing"
    /\ grant.cached = "none"
    /\ \E answer \in {TokenAnswer(request.conf), Outage} :
         /\ RequestTokenStatus(answer) # Proceed
         /\ RefreshFailed(RequestTokenStatus(answer))
    /\ UNCHANGED grant

\* validateJwtSign: 500 when the key file cannot be read.
SignatureStatuses ==
    {ValidateJwtStatus(InternalStatus(answer)) :
       answer \in {500, IF request.tokens = "good" THEN 204 ELSE 401}}

\* The option that ClaimsStatus fails by.
Culprit(c) == CASE c["issuer"] # "right" -> "issuer"
                [] c["issuer"] = "right" /\ c["clientId"] # "right" -> "clientId"
                [] OTHER -> "claimUsername"

\* The tokens are given up; if the OP has retired the old refresh token for them, the
\* zone is left with a dead one.
GiveUp(culprit) ==
    grant' = IF grant.rotated /\ grant.wastedBy = "none"
             THEN [grant EXCEPT !.wastedBy = culprit] ELSE grant

IdTokenRejected ==
    /\ request.phase = "validating"
    /\ \/ \E status \in SignatureStatuses \ {Proceed} :
            RefreshFailed(status) /\ GiveUp("signature")
       \/ /\ Proceed \in SignatureStatuses
          /\ ClaimsStatus(request.conf) # Proceed
          /\ RefreshFailed(ClaimsStatus(request.conf))
          /\ GiveUp(Culprit(request.conf))

\* A new refresh token has no cached answer yet.
StoreTokens ==
    /\ request.phase = "validating"
    /\ Proceed \in SignatureStatuses
    /\ ClaimsStatus(request.conf) = Proceed
    /\ session' = [idToken |-> "fresh", accessToken |-> TRUE,
                   refreshToken |-> session.refreshToken \/ grant.rotated]
    /\ grant' = IF grant.rotated THEN [NewGrant EXCEPT !.revoked = grant.revoked] ELSE grant
    /\ Goto(IF SnippetOf(request.location) = "auth-proxy" THEN Allowed(request, "token")
            ELSE Authorized(request))

-----------------------------------------------------------------------------
(* The content handlers *)

\* fail and send with a body: nginx applies no error page to them.
ErrorAnswer(r, status, title, template) ==
    Answered(r, [NoReply EXCEPT !.kind = "error", !.status = status, !.title = title,
                                !.template = template])
HandlerError(r) == ErrorAnswer(r, 500, "handler", 0)

Serve ==
    /\ request.phase = "content"
    /\ request.location \in Locations
    /\ Goto(Answered(request, [NoReply EXCEPT !.status = 200,
              !.kind = IF Snippet[request.location] = "auth-proxy" THEN "proxied" ELSE "page"]))
    /\ UNCHANGED <<session, grant>>

\* A page that is not there or must not be read: nginx's refusal takes the same
\* detour, without an X-Error.
ServeFails ==
    /\ request.phase = "content"
    /\ request.location \in Locations
    /\ \E status \in {403, 404} : Goto(Refuse(request, status))
    /\ UNCHANGED <<session, grant>>

ContentCrash ==
    /\ request.phase = "content"
    /\ request.location \in OidcLocations
    /\ ContextThrows(request)
    /\ Goto(Refuse(request, 500))
    /\ UNCHANGED <<session, grant>>

AtContent(location) ==
    /\ request.phase = "content"
    /\ request.location = location
    /\ ~ContextThrows(request)

\* Mutant: redirected requests must be POST too.
IsRewritten_Never(r) == FALSE

\* isUriRewritten: the login as an error page of another location.
IsRewritten(r) == r.asked # r.location

\* A direct GET of the login or logout: 405, without a body.
NotAllowed ==
    /\ \/ AtContent("login") \/ AtContent("logout")
    /\ ~IsRewritten(request)
    /\ request.method = "GET"
    /\ Goto(Refuse(request, 405))
    /\ UNCHANGED <<session, grant>>

\* login: the endpoint and client are read before the state is stored, the cookie's
\* attributes after it.  The state itself is the subject of AuthCodeFlow.
Login ==
    /\ AtContent("login")
    /\ IsRewritten(request) \/ request.method = "POST"
    /\ Goto(IF \E option \in {"authorizationEndpoint", "clientId", "cookieAttrs"} :
                 Throws(request.conf, option)
            THEN HandlerError(request)
            ELSE Answered(request, [NoReply EXCEPT !.kind = "login", !.status = 303]))
    /\ UNCHANGED <<session, grant>>

\* The end of logout, with where it sends the user; the client may bring a nextUri.
Goodbyes(r) ==
    LET next == {[NoReply EXCEPT !.kind = "next", !.status = 303]}
    IN  CASE IsSet(r.conf, "endSessionEndpoint") ->
               {[NoReply EXCEPT !.kind = "opLogout", !.status = 303, !.hint = session.idToken]}
          [] ~IsSet(r.conf, "endSessionEndpoint") /\ IsSet(r.conf, "postLogoutRedirectUri") ->
               next
          [] OTHER -> next \cup
               {[NoReply EXCEPT !.kind = "goodbye", !.status = IF r.html THEN 200 ELSE 204]}

\* Mutant: the session is cleared before the configuration is looked at.
Logout_ClearsFirst ==
    /\ AtContent("logout")
    /\ request.method = "POST"
    /\ session' = NoSession
    /\ \E reply \in Goodbyes(request) :
         Goto(IF \E option \in {"clientId", "cookieAttrs"} : Throws(request.conf, option)
              THEN HandlerError(request) ELSE Answered(request, reply))
    /\ UNCHANGED grant

\* logout: for the end session endpoint the client id is read before the session is
\* cleared; the attributes of the cookies are, for all, only afterwards.
Logout ==
    /\ AtContent("logout")
    /\ request.method = "POST"
    /\ LET c == request.conf
           fails == IsSet(c, "endSessionEndpoint") /\ Throws(c, "clientId")
       IN  /\ session' = IF fails THEN session ELSE NoSession
           /\ \E reply \in Goodbyes(request) :
                Goto(IF fails \/ Throws(c, "cookieAttrs")
                     THEN HandlerError(request) ELSE Answered(request, reply))
    /\ UNCHANGED grant

\* Mutants: the code of the error page takes precedence; it is not looked at.
ErrorStatus_CodeFirst(r) == r.errorPage
ErrorStatus_NoCode(r) == r.xError

\* error: parseInt(err.status) || parseInt(err.code), from the error page's URI.
ErrorStatus(r) == IF r.xError # 0 THEN r.xError ELSE r.errorPage

\* findErrorPageTemplate: exact, by class (toFixed rounds), or the default page.
Template(r, status) ==
    LET class == (status + 50) \div 100
    IN  IF ~r.html \/ ~IsSet(r.conf, "errorPagesDir") THEN 0
        ELSE IF status \in Templates THEN status
        ELSE IF class \in Templates THEN class ELSE 0

\* A template that cannot be read replaces the error by one of the handler.
Error ==
    LET status == ErrorStatus(request)
        template == Template(request, status)
    IN  /\ AtContent("error")
        /\ Goto(IF template \in Unreadable THEN HandlerError(request)
                ELSE ErrorAnswer(request, status,
                       IF request.xError # 0 THEN "handler" ELSE "default", template))
        /\ UNCHANGED <<session, grant>>

-----------------------------------------------------------------------------
(* The client, the OP, the zones *)

\* The error handler is internal; pages are asked for by GET.  Only auth_pages looks for
\* a site.
Arrive ==
    /\ request.phase = "idle"
    /\ \E html \in BOOLEAN, conf \in Configs :
         \/ \E asked \in Locations, site \in BOOLEAN :
              /\ site \/ SnippetOf(asked) = "auth-pages"
              /\ request' = NewRequest(asked, "GET", html, site, conf)
         \/ \E asked \in {"login", "logout"}, method \in {"GET", "POST"} :
              request' = NewRequest(asked, method, html, TRUE, conf)
    /\ UNCHANGED <<session, grant>>

Deliver ==
    /\ request.phase = "answered"
    /\ request' = Idle
    /\ UNCHANGED <<session, grant>>

\* The callback of a login creates a session; not every OP gives refresh tokens.
SignIn ==
    /\ request.phase = "answered"
    /\ request.reply.kind = "login"
    /\ \E refreshToken \in BOOLEAN :
         session' = [idToken |-> "fresh", accessToken |-> TRUE, refreshToken |-> refreshToken]
    /\ grant' = NewGrant
    /\ request' = Idle

OPRevoke ==
    /\ grant' = [grant EXCEPT !.revoked = TRUE]
    /\ UNCHANGED <<session, request>>

\* The 30 s of a cached answer are over.
AnswerExpires ==
    /\ grant' = [grant EXCEPT !.cached = "none"]
    /\ UNCHANGED <<session, request>>

IdTokenExpires ==
    /\ session.idToken = "fresh"
    /\ session' = [session EXCEPT !.idToken = "stale"]
    /\ UNCHANGED <<grant, request>>

ZoneTimeout ==
    /\ \/ session' = [session EXCEPT !.idToken = "none"]
       \/ session' = [session EXCEPT !.accessToken = FALSE]
    /\ UNCHANGED <<grant, request>>

-----------------------------------------------------------------------------
Authorize ==
    \/ AuthCrash \/ NoSite
    \/ AccessByToken \/ AccessRefresh \/ AccessUnauthenticated
    \/ ProxyByToken \/ ProxyRefresh \/ ProxyUnauthenticated
Refresh ==
    TokensReceived \/ TokensReplayed \/ TokensRefused \/ IdTokenRejected \/ StoreTokens
Content == Serve \/ ServeFails \/ ContentCrash \/ NotAllowed \/ Login \/ Logout \/ Error

Next ==
    \/ Authorize \/ Refresh \/ Content
    \/ Arrive \/ Deliver \/ SignIn
    \/ OPRevoke \/ AnswerExpires \/ IdTokenExpires \/ ZoneTimeout

\* nginx goes on with a request, and has an answer for every subrequest.
Fairness == WF_vars(Authorize \/ Refresh \/ Content)

Spec == Init /\ [][Next]_vars /\ Fairness

-----------------------------------------------------------------------------
(* Properties *)

\* Whatever fails on the way, the handler, the OP or the configuration, a protected
\* location answers only those its snippet has let in: users of the right OP whom the
\* rule allows, anyone where ANONYMOUS may in, holders of an access token.
FailClosed == request.reply.kind \in {"page", "proxied"} =>
    LET rule == RuleOf(request.asked)
    IN  CASE SnippetOf(request.asked) = "none" -> TRUE
          [] SnippetOf(request.asked) = "auth-proxy" -> request.verdict = "token"
          [] OTHER -> \/ /\ request.verdict = "user"
                         /\ IsAllowed(User, rule) /\ request.conf["issuer"] = "right"
                      \/ request.verdict = "anonymous" /\ IsAnonymousAllowed(rule)

\* An error of a handler behind auth_request reaches the client with its own status
\* and title, although auth_request knows only 403; unless a template for it cannot
\* be read, which is an error of its own.
ErrorReachesClient ==
    request.phase = "answered" /\ request.verdict = "failed" =>
        /\ request.reply.kind = "error"
        /\ request.reply.title = "handler"
        /\ \/ request.reply.status = request.xError
           \/ request.reply.status = 500 /\ request.html
                /\ Template(request, request.xError) \in Unreadable

\* A user who is not signed in and asks for a page that needs it is sent to the OP
\* ("performs user access authorization using the OpenID Connect Authorization Code
\* flow", README.adoc), or told that the login is not configured.
UnauthenticatedReachLogin ==
    request.phase = "answered" /\ request.verdict = "unauthenticated"
      /\ SnippetOf(request.asked) # "auth-proxy"
    => \/ request.reply.kind = "login"
       \/ request.reply.kind = "error" /\ request.reply.status = 500
            /\ \E option \in Options : Throws(request.conf, option)

\* What costs a session its refresh token, but for logouts and logins, and with it the
\* mistakes in the configuration that do: the OP's word that the grant is revoked; the
\* OP's word that the token is used up, when the tokens that replace it were given up
\* before, because their signature could not be checked, the issuer was not right or
\* claimUsername was wrong, and can no longer be had from the cache; a wrong signature;
\* a wrong issuer; and a wrong client id, if the tokens are out of the cache.  No
\* outage costs one, and no other option, client secret and log level among them.
OnlySomeMistakesCost == [][session.refreshToken /\ ~session'.refreshToken =>
    \/ request.location = "logout"
    \/ request.reply.kind = "login"
    \/ /\ request.phase = "refreshing"
       /\ ClientAuthorization(request.conf) = "right" /\ grant.cached = "none"
       /\ grant.revoked \/ grant.wastedBy \in {"signature", "issuer", "claimUsername"}
    \/ /\ request.phase = "validating"
       /\ \/ request.tokens = "forged"
          \/ request.conf["issuer"] = "wrong"
          \/ request.conf["clientId"] = "wrong" /\ request.replayed]_vars

\* A logout ends the session as a whole, and the OP is told of the ID token that
\* the session had until then; when it fails, the session is untouched (except when
\* the cookies could not be cleared: then it is over, and only the zones know).
LogoutIsWhole == [][
    request.phase = "content" /\ request.location = "logout" /\ request'.phase = "answered"
    => /\ session' \in {session, NoSession}
       /\ request'.reply.kind \in {"opLogout", "next", "goodbye"} => session' = NoSession
       /\ request'.reply.kind = "opLogout" => request'.reply.hint = session.idToken
       /\ request'.reply.kind = "error" /\ ~Throws(request.conf, "cookieAttrs")
            => session' = session]_vars

\* Every request is answered: error pages of error pages come to an end.
RequestsAnswered ==
    request.phase \notin {"idle", "answered"} ~> request.phase = "answered"

====
