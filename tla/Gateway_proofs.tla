---- MODULE Gateway_proofs ----
(***************************************************************************)
(* Theorems about Gateway, for any locations, snippets, access rules,      *)
(* configurations and error page templates.                                *)
(***************************************************************************)
EXTENDS Gateway, TLAPS

-----------------------------------------------------------------------------
(* The inductive invariant: all of it is about the request. *)

\* The request waits for the handler behind auth_request.
Authorizing(r) == r.phase \in {"access", "refreshing", "validating"}

\* TypeOK, as far as it is about the request.
WellTyped(r) ==
    /\ r \in Request
    /\ r.phase = "answered" <=> r.reply # NoReply
    /\ r.reply.status = 0 <=> r.reply = NoReply
    /\ r.phase = "validating" <=> r.tokens # "none"

\* Only what was asked for is a location of the site, and only error_page leads to the
\* error handler.
Placed(r) ==
    /\ r.location \in Locations => r.location = r.asked /\ r.errorPage = 0
    /\ r.location = "error" => r.errorPage # 0

\* What a handler knows when it waits: it is behind auth_request, its context was made,
\* and the OP has accepted the client, unless it was not asked.
Informed(r) ==
    /\ Authorizing(r) => SnippetOf(r.location) # "none"
    /\ r.phase \in {"refreshing", "validating"} => ~ContextThrows(r)
    /\ r.phase = "validating" => r.replayed \/ ClientAuthorization(r.conf) = "right"

\* The handler's verdict lets the request in: what FailClosed says of an answer.
Admitted(r) ==
    LET rule == RuleOf(r.asked)
    IN  CASE SnippetOf(r.asked) = "none" -> TRUE
          [] SnippetOf(r.asked) = "auth-proxy" -> r.verdict = "token"
          [] OTHER -> \/ /\ r.verdict = "user"
                         /\ IsAllowed(User, rule) /\ r.conf["issuer"] = "right"
                      \/ r.verdict = "anonymous" /\ IsAnonymousAllowed(rule)
LetIn(r) ==
    (r.phase = "content" /\ r.location \in Locations) \/ r.reply.kind \in {"page", "proxied"}
      => Admitted(r)

\* What ErrorReachesClient and UnauthenticatedReachLogin say of an answer.
ErrorReaches(r) ==
    /\ r.reply.kind = "error"
    /\ r.reply.title = "handler"
    /\ \/ r.reply.status = r.xError
       \/ r.reply.status = 500 /\ r.html /\ Template(r, r.xError) \in Unreadable
LoginReached(r) ==
    \/ r.reply.kind = "login"
    \/ r.reply.kind = "error" /\ r.reply.status = 500
         /\ \E option \in Options : Throws(r.conf, option)

\* A refused request is on its way to the error handler, or to the login.
IsFailed(r) == r.verdict = "failed"
IsUnauthenticated(r) == r.verdict = "unauthenticated" /\ SnippetOf(r.asked) # "auth-proxy"
Detoured(r) ==
    /\ Authorizing(r) => r.location \in Locations /\ r.verdict = "none"
    /\ IsFailed(r) =>
         /\ r.xError # 0 /\ ~ContextThrows(r)
         /\ r.phase = "content" => r.location = "error"
         /\ r.phase = "answered" => ErrorReaches(r)
    /\ IsUnauthenticated(r) =>
         /\ ~ContextThrows(r)
         /\ r.phase = "content" => r.location = "login" /\ r.asked # "login"
         /\ r.phase = "answered" => LoginReached(r)

\* Without a snippet in the server context nothing is authorized twice.
Shaped(r) ==
    /\ WellTyped(r) /\ Placed(r) /\ Informed(r) /\ LetIn(r)
    /\ ServerSnippet = "none" => Detoured(r)

IInv ==
    /\ session \in Session
    /\ grant \in Grant
    /\ Shaped(request)

-----------------------------------------------------------------------------
(* Requests and replies *)

\* The request that keeps of r what was asked for, and is otherwise as told.
Onward(r, location, phase, errorPage, xError, verdict, tokens, reply) ==
    [asked |-> r.asked, method |-> r.method, html |-> r.html, site |-> r.site, conf |-> r.conf,
     location |-> location, phase |-> phase, errorPage |-> errorPage, xError |-> xError,
     verdict |-> verdict, tokens |-> tokens, replayed |-> r.replayed, reply |-> reply]

LEMMA OnwardAs ==
    ASSUME NEW r, NEW location, NEW phase, NEW errorPage, NEW xError, NEW verdict, NEW tokens,
           NEW reply,
           NEW s, s = Onward(r, location, phase, errorPage, xError, verdict, tokens, reply)
    PROVE  /\ s.asked = r.asked /\ s.method = r.method /\ s.html = r.html
           /\ s.site = r.site /\ s.conf = r.conf /\ s.replayed = r.replayed
           /\ s.location = location /\ s.phase = phase /\ s.errorPage = errorPage
           /\ s.xError = xError /\ s.verdict = verdict /\ s.tokens = tokens
           /\ s.reply = reply
  BY DEF Onward

LEMMA NoReplyAs ==
    /\ NoReply.kind = "none" /\ NoReply.status = 0 /\ NoReply.title = "none"
    /\ NoReply.template = 0 /\ NoReply.hint = "none"
    /\ NoReply \in Reply
  BY DEF NoReply, Reply, ReplyKinds

LEMMA AnsweredAs ==
    ASSUME NEW r \in Request, NEW reply, NEW s, s = Answered(r, reply)
    PROVE  s = Onward(r, r.location, "answered", r.errorPage, r.xError, r.verdict, "none", reply)
  BY Zenon DEF Answered, Request, Onward

LEMMA BareAs ==
    ASSUME NEW r \in Request, NEW status, NEW s, s = Bare(r, status)
    PROVE  \E reply : /\ reply \in [kind : {"bare"}, status : {status}, title : {"none"},
                                    template : {0}, hint : {"none"}]
                      /\ s = Onward(r, r.location, "answered", r.errorPage, r.xError,
                                      r.verdict, "none", reply)
<1>1. PICK reply : reply = [NoReply EXCEPT !.kind = "bare", !.status = status]
                     /\ s = Answered(r, reply)
  BY DEF Bare
<1>2. reply \in [kind : {"bare"}, status : {status}, title : {"none"},
                template : {0}, hint : {"none"}]
  BY <1>1 DEF NoReply
<1>. QED
  BY <1>1, <1>2, AnsweredAs

\* Answered, and not by a page.
LEMMA AnsweredShaped ==
    ASSUME NEW r \in Request, Placed(r), NEW reply \in Reply,
           reply.kind \notin {"none", "page", "proxied"}, reply.status # 0,
           NEW s, s = Onward(r, r.location, "answered", r.errorPage, r.xError, r.verdict,
                            "none", reply),
           ServerSnippet = "none" =>
             /\ IsFailed(r) => r.xError # 0 /\ ~ContextThrows(r) /\ ErrorReaches(s)
             /\ IsUnauthenticated(r) => ~ContextThrows(r) /\ LoginReached(s)
    PROVE  Shaped(s)
<1>1. WellTyped(s)
  BY NoReplyAs DEF WellTyped, Onward, Request, Phases
<1>2. Placed(s) /\ Informed(s) /\ LetIn(s)
  BY DEF Placed, Informed, Authorizing, LetIn, Onward
<1>3. ASSUME ServerSnippet = "none" PROVE Detoured(s)
  <2>1. /\ s.phase = "answered" /\ s.asked = r.asked /\ s.conf = r.conf
        /\ s.verdict = r.verdict /\ s.xError = r.xError
    BY OnwardAs
  <2>. QED
    BY <1>3, <2>1 DEF Detoured, Authorizing, IsFailed, IsUnauthenticated, ContextThrows
<1>. QED
  BY <1>1, <1>2, <1>3 DEF Shaped

LEMMA RedirectedAs ==
    ASSUME NEW r \in Request, NEW page, NEW status, NEW phase, NEW s,
           s = [r EXCEPT !.location = page, !.errorPage = status, !.tokens = "none",
                         !.phase = phase]
    PROVE  s = Onward(r, page, phase, status, r.xError, r.verdict, "none", r.reply)
  BY Zenon DEF Request, Onward

\* Where a refusal leads: to an error page, unless the request is on one already.
LEMMA RefuseAs ==
    ASSUME NEW r \in Request, NEW status, NEW s, s = Refuse(r, status),
           NEW page, page = IF status = 401 THEN "login" ELSE "error",
           NEW phase, phase = IF SnippetOf(page) = "none" THEN "content" ELSE "access"
    PROVE  IF r.errorPage # 0 \/ status \notin ErrorPages(SnippetOf(r.location))
           THEN s = Bare(r, status)
           ELSE s = Onward(r, page, phase, status, r.xError, r.verdict, "none", r.reply)
<1>1. CASE r.errorPage # 0 \/ status \notin ErrorPages(SnippetOf(r.location))
  BY <1>1 DEF Refuse
<1>2. CASE ~(r.errorPage # 0 \/ status \notin ErrorPages(SnippetOf(r.location)))
  <2>1. PICK to, next :
          /\ to = (IF status = 401 THEN "login" ELSE "error")
          /\ next = (IF SnippetOf(to) = "none" THEN "content" ELSE "access")
          /\ s = [r EXCEPT !.location = to, !.errorPage = status, !.tokens = "none",
                           !.phase = next]
    BY <1>2 DEF Refuse
  <2>2. to = page /\ next = phase
    BY <2>1
  <2>3. s = Onward(r, to, next, status, r.xError, r.verdict, "none", r.reply)
    <3>1. s = [r EXCEPT !.location = to, !.errorPage = status, !.tokens = "none", !.phase = next]
      BY <2>1
    <3>. QED
      BY <3>1, RedirectedAs, Zenon
  <2>. QED
    BY <1>2, <2>2, <2>3
<1>. QED
  BY <1>1, <1>2

LEMMA SnippetTypes ==
    /\ \A location : SnippetOf(location) \in Snippets \cup {"none"}
    /\ Locations \cap OidcLocations = {}
    /\ \A location : location \notin Locations => SnippetOf(location) = ServerSnippet
  BY SnippetAssumption, LocationsAssumption DEF SnippetOf

\* A request is refused: it is answered, or goes on as the error page.
LEMMA RefuseShaped ==
    ASSUME NEW r \in Request, Placed(r), r.reply = NoReply,
           NEW status \in Statuses \cup {405}, NEW s, s = Refuse(r, status),
           ServerSnippet = "none" =>
             /\ IsFailed(r) =>
                  /\ status = 403 /\ r.xError # 0 /\ ~ContextThrows(r)
                  /\ r.errorPage = 0 /\ SnippetOf(r.location) # "none"
             /\ IsUnauthenticated(r) =>
                  /\ status = 401 /\ ~ContextThrows(r) /\ r.asked # "login"
                  /\ r.errorPage = 0 /\ SnippetOf(r.location) \notin {"none", "auth-proxy"}
    PROVE  Shaped(s)
<1>. PICK page : page = IF status = 401 THEN "login" ELSE "error"
  OBVIOUS
<1>. PICK phase : phase = IF SnippetOf(page) = "none" THEN "content" ELSE "access"
  OBVIOUS
<1>1. CASE r.errorPage # 0 \/ status \notin ErrorPages(SnippetOf(r.location))
  <2>1. s = Bare(r, status)
    BY <1>1, RefuseAs
  <2>2. PICK reply : /\ reply \in [kind : {"bare"}, status : {status}, title : {"none"},
                                   template : {0}, hint : {"none"}]
                     /\ s = Onward(r, r.location, "answered", r.errorPage, r.xError,
                                     r.verdict, "none", reply)
    BY <2>1, BareAs
  <2>3. reply \in Reply /\ reply.kind = "bare" /\ reply.status # 0
    BY <2>2 DEF Reply, ReplyKinds, Statuses
  <2>4. ServerSnippet = "none" => ~IsFailed(r) /\ ~IsUnauthenticated(r)
    BY <1>1, SnippetTypes DEF ErrorPages, Snippets
  <2>. QED
    BY <2>2, <2>3, <2>4, AnsweredShaped
<1>2. CASE r.errorPage = 0 /\ status \in ErrorPages(SnippetOf(r.location))
  <2>1. s = Onward(r, page, phase, status, r.xError, r.verdict, "none", r.reply)
    BY <1>2, RefuseAs
  <2>2. status \in {401, 403, 500}
    BY <1>2, SnippetTypes DEF ErrorPages, Snippets
  <2>3. page \in OidcLocations /\ page \notin Locations /\ phase \in {"content", "access"}
    BY SnippetTypes DEF OidcLocations
  <2>4. WellTyped(s)
    BY <2>1, <2>2, <2>3, NoReplyAs DEF WellTyped, Onward, Request, Phases
  <2>5. Placed(s) /\ Informed(s) /\ LetIn(s)
    BY <2>1, <2>2, <2>3, NoReplyAs DEF Placed, Informed, Authorizing, LetIn, Onward
  <2>6. ServerSnippet = "none" => Detoured(s)
    BY <2>1, <2>3, SnippetTypes
    DEF Detoured, Authorizing, Onward, IsFailed, IsUnauthenticated, ContextThrows
  <2>. QED
    BY <2>4, <2>5, <2>6 DEF Shaped
<1>. QED
  BY <1>1, <1>2

-----------------------------------------------------------------------------
(* What becomes of a request that waits for its verdict *)

Judge(r, verdict, xError) == [r EXCEPT !.verdict = verdict, !.xError = xError]

LEMMA VerdictAs ==
    ASSUME NEW r \in Request, NEW verdict, NEW xError, NEW s, s = Judge(r, verdict, xError)
    PROVE  s = Onward(r, r.location, r.phase, r.errorPage, xError, verdict, r.tokens, r.reply)
  BY Zenon DEF Judge, Request, Onward

\* The request with its verdict, and what Shaped says of one that waits.
LEMMA Judged ==
    ASSUME NEW r, Shaped(r), Authorizing(r),
           NEW verdict \in Verdicts, NEW xError \in Statuses \cup {0}, NEW s,
           s = Judge(r, verdict, xError)
    PROVE  /\ s \in Request /\ Placed(s) /\ s.reply = NoReply
           /\ s.verdict = verdict /\ s.xError = xError
           /\ s.location = r.location /\ s.conf = r.conf /\ s.asked = r.asked
           /\ s.errorPage = r.errorPage
           /\ SnippetOf(s.location) # "none"
           /\ ServerSnippet = "none" =>
                /\ s.location \in Locations /\ s.errorPage = 0
                /\ s.asked = s.location /\ s.asked # "login"
<1>1. r \in Request /\ Placed(r) /\ r.reply = NoReply /\ SnippetOf(r.location) # "none"
      /\ (ServerSnippet = "none" => r.location \in Locations)
  BY DEF Shaped, WellTyped, Informed, Authorizing, Detoured
<1>2. s = Onward(r, r.location, r.phase, r.errorPage, xError, verdict, r.tokens, r.reply)
  BY <1>1, VerdictAs
<1>3. s \in Request
  BY <1>1, <1>2 DEF Onward, Request
<1>. QED
  BY <1>1, <1>2, <1>3, SnippetTypes DEF Onward, Placed, OidcLocations

LEMMA RefusedAs ==
    ASSUME NEW r, NEW status \in {401, 403, 500}
    PROVE  AuthRequest(r, status) = Refuse(r, status)
  BY DEF AuthRequest

\* A handler fails: the error page of the snippet takes over.
LEMMA FailedShaped ==
    ASSUME NEW r, Shaped(r), Authorizing(r), ~ContextThrows(r), NEW status \in Statuses,
           NEW s, s = Failed(r, status)
    PROVE  Shaped(s)
<1>1. PICK t : t = Judge(r, "failed", status) /\ s = AuthRequest(t, 403)
  BY DEF Failed, Judge
<1>2. t = Judge(r, "failed", status)
  BY <1>1
<1>3. s = Refuse(t, 403)
  BY <1>1, RefusedAs
<1>4. /\ t \in Request /\ Placed(t) /\ t.reply = NoReply
      /\ t.verdict = "failed" /\ t.xError = status
      /\ t.conf = r.conf /\ SnippetOf(t.location) # "none"
      /\ ServerSnippet = "none" => t.errorPage = 0
  BY <1>2, Judged DEF Verdicts
<1>5. /\ IsFailed(t) /\ ~IsUnauthenticated(t)
      /\ ~ContextThrows(t) /\ t.xError # 0
  BY <1>4 DEF IsFailed, IsUnauthenticated, ContextThrows, Statuses
<1>. QED
  BY <1>3, <1>4, <1>5, RefuseShaped DEF Statuses

\* An exception outside of invokeHandler: a bare error.
LEMMA CrashedShaped ==
    ASSUME NEW r, Shaped(r), Authorizing(r), NEW s, s = Crashed(r)
    PROVE  Shaped(s)
<1>1. PICK t : t = Judge(r, "crashed", 0) /\ s = AuthRequest(t, 500)
  BY DEF Crashed, Judge
<1>2. t = Judge(r, "crashed", 0)
  BY <1>1
<1>3. s = Refuse(t, 500)
  BY <1>1, RefusedAs
<1>4. t \in Request /\ Placed(t) /\ t.reply = NoReply /\ t.verdict = "crashed"
  BY <1>2, Judged DEF Verdicts
<1>5. ~IsFailed(t) /\ ~IsUnauthenticated(t)
  BY <1>4 DEF IsFailed, IsUnauthenticated
<1>. QED
  BY <1>3, <1>4, <1>5, RefuseShaped DEF Statuses

\* A handler sends the user to the login.
LEMMA LoginRequiredShaped ==
    ASSUME NEW r, Shaped(r), Authorizing(r), ~ContextThrows(r),
           NEW s, s = LoginRequired(r)
    PROVE  Shaped(s)
<1>1. PICK t : t = Judge(r, "unauthenticated", 0)
                 /\ s = AuthRequest(t, InternalStatus(401))
  BY DEF LoginRequired, Judge
<1>2. t = Judge(r, "unauthenticated", 0)
  BY <1>1
<1>3. /\ t \in Request /\ Placed(t) /\ t.reply = NoReply
      /\ t.verdict = "unauthenticated" /\ t.xError = 0 /\ t.conf = r.conf
      /\ SnippetOf(t.location) # "none"
      /\ ServerSnippet = "none" =>
           t.errorPage = 0 /\ t.asked = t.location /\ t.asked # "login"
  BY <1>2, Judged DEF Verdicts
<1>4. InternalStatus(401) = 401 \/ InternalStatus(401) = 303
  BY DEF InternalStatus
<1>5. ServerSnippet = "none" => InternalStatus(401) = 401
  BY DEF InternalStatus, ErrorPages
<1>6. PICK status \in {401, 500} :
        s = Refuse(t, status) /\ (ServerSnippet = "none" => status = 401)
  <2>1. CASE InternalStatus(401) = 401
    BY <1>1, <2>1, RefusedAs
  <2>2. CASE InternalStatus(401) = 303
    <3>1. s = Refuse(t, 500)
      BY <1>1, <2>2 DEF AuthRequest
    <3>. QED
      BY <3>1, <2>2, <1>5
  <2>. QED
    BY <1>4, <2>1, <2>2
<1>7. ~IsFailed(t) /\ ~ContextThrows(t)
  BY <1>3 DEF IsFailed, ContextThrows
<1>. QED
  BY <1>3, <1>6, <1>7, RefuseShaped DEF Statuses, IsUnauthenticated

LEMMA AllowedAs ==
    ASSUME NEW r \in Request, NEW verdict, NEW s, s = Allowed(r, verdict)
    PROVE  s = Onward(r, r.location, "content", r.errorPage, r.xError, verdict, "none", r.reply)
<1>1. PICK t : t = [r EXCEPT !.verdict = verdict] /\ s = AuthRequest(t, 204)
  BY DEF Allowed
<1>2. s = [t EXCEPT !.phase = "content", !.tokens = "none"]
  BY <1>1 DEF AuthRequest
<1>3. t = [r EXCEPT !.verdict = verdict]
  BY <1>1
<1>4. t = Onward(r, r.location, r.phase, r.errorPage, r.xError, verdict, r.tokens, r.reply)
  BY <1>3, Zenon DEF Request, Onward
<1>. QED
  BY <1>2, <1>4 DEF Onward

\* The handler's verdict is that the request may go on.
LEMMA AllowedShaped ==
    ASSUME NEW r, Shaped(r), Authorizing(r), NEW verdict \in {"user", "anonymous", "token"},
           r.location \in Locations =>
             LET rule == RuleOf(r.location)
             IN  CASE SnippetOf(r.location) = "none" -> TRUE
                   [] SnippetOf(r.location) = "auth-proxy" -> verdict = "token"
                   [] OTHER -> \/ /\ verdict = "user"
                                  /\ IsAllowed(User, rule) /\ r.conf["issuer"] = "right"
                               \/ verdict = "anonymous" /\ IsAnonymousAllowed(rule),
           NEW s, s = Allowed(r, verdict)
    PROVE  Shaped(s)
<1>1. r \in Request /\ Placed(r) /\ r.reply = NoReply
  BY DEF Shaped, WellTyped, Authorizing
<1>2. s = Onward(r, r.location, "content", r.errorPage, r.xError, verdict, "none", r.reply)
  BY <1>1, AllowedAs
<1>3. WellTyped(s)
  BY <1>1, <1>2, NoReplyAs DEF WellTyped, Onward, Request, Phases, Verdicts
<1>4. /\ s.phase = "content" /\ s.location = r.location /\ s.asked = r.asked
      /\ s.errorPage = r.errorPage /\ s.verdict = verdict /\ s.conf = r.conf
      /\ s.reply = NoReply
  BY <1>1, <1>2 DEF Onward
<1>5. Placed(s) /\ Informed(s)
  BY <1>1, <1>4 DEF Placed, Informed, Authorizing
<1>6. r.location \in Locations => Admitted(s)
  BY <1>1, <1>4 DEF Admitted, Placed
<1>7. LetIn(s)
  BY <1>4, <1>6, NoReplyAs DEF LetIn
<1>8. Detoured(s)
  BY <1>4 DEF Detoured, Authorizing, IsFailed, IsUnauthenticated
<1>. QED
  BY <1>3, <1>5, <1>7, <1>8 DEF Shaped

LEMMA ConfTypes ==
    ASSUME NEW r \in Request
    PROVE  r.conf \in [Options -> {"unset", "right", "wrong"}]
  BY ConfigsAssumption DEF Request, Configurations

LEMMA ClaimsStatusType ==
    ASSUME NEW c \in [Options -> {"unset", "right", "wrong"}]
    PROVE  /\ ClaimsStatus(c) \in {Proceed, 401, 500}
           /\ ClaimsStatus(c) = Proceed => c["issuer"] = "right"
           /\ ClaimsStatus(c) = 401 => c["issuer"] = "wrong" \/ c["clientId"] = "wrong"
<1>1. c["issuer"] \in {"unset", "right", "wrong"} /\ c["clientId"] \in {"unset", "right", "wrong"}
  BY DEF Options, Required
<1>2. c["issuer"] = "unset" => Throws(c, "issuer")
  BY DEF Throws, Required
<1>3. c["issuer"] # "unset" => ~Throws(c, "issuer")
  BY DEF Throws, Parsed
<1>4. c["clientId"] = "wrong" => ~Throws(c, "clientId")
  BY DEF Throws, Parsed
<1>. QED
  BY <1>1, <1>2, <1>3, <1>4 DEF ClaimsStatus, Proceed

LEMMA AuthorizedShaped ==
    ASSUME NEW r, Shaped(r), Authorizing(r), ~ContextThrows(r),
           SnippetOf(r.location) # "auth-proxy", ClaimsStatus(r.conf) = Proceed,
           NEW s, s = Authorized(r)
    PROVE  Shaped(s)
<1>1. r \in Request /\ SnippetOf(r.location) # "none"
  BY DEF Shaped, WellTyped, Informed
<1>2. r.conf["issuer"] = "right"
  BY <1>1, ConfTypes, ClaimsStatusType
<1>3. CASE IsAllowed(User, RuleOf(r.location))
  <2>1. s = Allowed(r, "user")
    BY <1>3 DEF Authorized
  <2>. QED
    BY <1>1, <1>2, <1>3, <2>1, AllowedShaped
<1>4. CASE ~IsAllowed(User, RuleOf(r.location))
  <2>1. s = Failed(r, 403)
    BY <1>4 DEF Authorized
  <2>. QED
    BY <2>1, FailedShaped DEF Statuses
<1>. QED
  BY <1>3, <1>4

LEMMA UnauthenticatedShaped ==
    ASSUME NEW r, Shaped(r), Authorizing(r), ~ContextThrows(r),
           SnippetOf(r.location) # "auth-proxy", NEW s, s = Unauthenticated(r)
    PROVE  Shaped(s)
<1>1. SnippetOf(r.location) # "none"
  BY DEF Shaped, Informed
<1>2. CASE IsAnonymousAllowed(RuleOf(r.location))
  <2>1. s = Allowed(r, "anonymous")
    BY <1>2 DEF Unauthenticated
  <2>. QED
    BY <1>1, <1>2, <2>1, AllowedShaped
<1>3. CASE ~IsAnonymousAllowed(RuleOf(r.location))
  <2>1. s = LoginRequired(r)
    BY <1>3 DEF Unauthenticated
  <2>. QED
    BY <2>1, LoginRequiredShaped
<1>. QED
  BY <1>2, <1>3

\* auth_proxy lets in whoever has an access token.
LEMMA TokenShaped ==
    ASSUME NEW r, Shaped(r), Authorizing(r), SnippetOf(r.location) = "auth-proxy",
           NEW s, s = Allowed(r, "token")
    PROVE  Shaped(s)
  BY AllowedShaped

\* The handler goes on to its next call.
LEMMA WaitingShaped ==
    ASSUME NEW r, Shaped(r), Authorizing(r), ~ContextThrows(r),
           NEW phase, NEW tokens,
           \/ phase = "refreshing" /\ tokens = "none"
           \/ /\ phase = "validating" /\ tokens \in {"good", "forged"}
              /\ r.replayed \/ ClientAuthorization(r.conf) = "right",
           NEW s, s = Onward(r, r.location, phase, r.errorPage, r.xError, r.verdict, tokens, r.reply)
    PROVE  Shaped(s)
<1>1. r \in Request /\ Placed(r) /\ r.reply = NoReply /\ SnippetOf(r.location) # "none"
      /\ (ServerSnippet = "none" => r.location \in Locations /\ r.verdict = "none")
  BY DEF Shaped, WellTyped, Informed, Authorizing, Detoured
<1>2. WellTyped(s)
  BY <1>1, NoReplyAs DEF WellTyped, Onward, Request, Phases
<1>3. Placed(s) /\ Informed(s) /\ LetIn(s)
  BY <1>1, NoReplyAs DEF Placed, Informed, Authorizing, LetIn, Onward, ContextThrows
<1>4. ServerSnippet = "none" => Detoured(s)
  BY <1>1 DEF Detoured, Authorizing, Onward, IsFailed, IsUnauthenticated
<1>. QED
  BY <1>2, <1>3, <1>4 DEF Shaped

LEMMA RefreshingShaped ==
    ASSUME NEW r, Shaped(r), r.phase = "access", ~ContextThrows(r),
           NEW s, s = [r EXCEPT !.phase = "refreshing"]
    PROVE  Shaped(s)
<1>1. r \in Request /\ r.tokens = "none" /\ Authorizing(r)
  BY DEF Shaped, WellTyped, Request, Authorizing
<1>2. s = Onward(r, r.location, "refreshing", r.errorPage, r.xError, r.verdict, r.tokens, r.reply)
  BY <1>1, Zenon DEF Request, Onward
<1>. QED
  BY <1>1, <1>2, WaitingShaped

LEMMA ValidatingAs ==
    ASSUME NEW r \in Request, NEW tokens,
           NEW s, s = [r EXCEPT !.phase = "validating", !.tokens = tokens]
    PROVE  s = Onward(r, r.location, "validating", r.errorPage, r.xError, r.verdict, tokens,
                      r.reply)
  BY Zenon DEF Request, Onward

LEMMA ValidatingShaped ==
    ASSUME NEW r, Shaped(r), r.phase = "refreshing", NEW replayed \in BOOLEAN,
           replayed \/ ClientAuthorization(r.conf) = "right",
           NEW tokens \in {"good", "forged"},
           NEW s, s = [r EXCEPT !.phase = "validating", !.tokens = tokens,
                                !.replayed = replayed]
    PROVE  Shaped(s)
<1>1. r \in Request /\ Authorizing(r) /\ ~ContextThrows(r)
  BY DEF Shaped, WellTyped, Informed, Authorizing
<1>. PICK q : q = [r EXCEPT !.replayed = replayed]
  OBVIOUS
<1>2. /\ q \in Request /\ q.replayed = replayed
      /\ q.asked = r.asked /\ q.location = r.location /\ q.phase = r.phase
      /\ q.errorPage = r.errorPage /\ q.xError = r.xError /\ q.verdict = r.verdict
      /\ q.tokens = r.tokens /\ q.reply = r.reply /\ q.conf = r.conf
  BY <1>1 DEF Request
<1>3. WellTyped(q) /\ Placed(q) /\ Informed(q)
  BY <1>2 DEF Shaped, WellTyped, Placed, Informed, Authorizing, ContextThrows
<1>4. LetIn(q)
  BY <1>2, NoReplyAs DEF Shaped, WellTyped, LetIn
<1>5. ServerSnippet = "none" => Detoured(q)
  BY <1>2 DEF Shaped, Detoured, Authorizing, IsFailed, IsUnauthenticated, ContextThrows
<1>6. Shaped(q) /\ Authorizing(q) /\ ~ContextThrows(q)
  BY <1>1, <1>2, <1>3, <1>4, <1>5 DEF Shaped, Authorizing, ContextThrows
<1>7. s = Onward(q, q.location, "validating", q.errorPage, q.xError, q.verdict, tokens, q.reply)
  <2>1. s = [q EXCEPT !.phase = "validating", !.tokens = tokens]
    BY <1>1 DEF Request
  <2>2. q \in Request
    BY <1>2
  <2>. QED
    BY <2>1, <2>2, ValidatingAs
<1>8. q.replayed \/ ClientAuthorization(q.conf) = "right"
  BY <1>2
<1>. QED
  BY <1>6, <1>7, <1>8, WaitingShaped

LEMMA FailedRequestShaped ==
    ASSUME NEW r, Shaped(r), r.phase \in {"refreshing", "validating"}, NEW status \in Statuses,
           NEW s, s = FailedRequest(r, status)
    PROVE  Shaped(s)
<1>1. Authorizing(r) /\ ~ContextThrows(r)
  BY DEF Shaped, Informed, Authorizing
<1>2. CASE status = 401 /\ SnippetOf(r.location) # "auth-proxy"
  <2>1. s = Unauthenticated(r)
    BY <1>2 DEF FailedRequest
  <2>. QED
    BY <1>1, <1>2, <2>1, UnauthenticatedShaped
<1>3. CASE ~(status = 401 /\ SnippetOf(r.location) # "auth-proxy")
  <2>1. s = Failed(r, status)
    BY <1>3 DEF FailedRequest
  <2>. QED
    BY <1>1, <2>1, FailedShaped
<1>. QED
  BY <1>2, <1>3

-----------------------------------------------------------------------------
(* What the content handlers answer *)

LEMMA ErrorAnswerAs ==
    ASSUME NEW r \in Request, NEW status, NEW title, NEW template,
           NEW s, s = ErrorAnswer(r, status, title, template)
    PROVE  \E reply : /\ reply \in [kind : {"error"}, status : {status}, title : {title},
                                    template : {template}, hint : {"none"}]
                      /\ s = Onward(r, r.location, "answered", r.errorPage, r.xError,
                                    r.verdict, "none", reply)
<1>1. PICK reply : reply = [NoReply EXCEPT !.kind = "error", !.status = status,
                                           !.title = title, !.template = template]
                     /\ s = Answered(r, reply)
  BY DEF ErrorAnswer
<1>2. reply \in [kind : {"error"}, status : {status}, title : {title},
                template : {template}, hint : {"none"}]
  BY <1>1 DEF NoReply
<1>. QED
  BY <1>1, <1>2, AnsweredAs

LEMMA HandlerErrorAs ==
    ASSUME NEW r \in Request, NEW s, s = HandlerError(r)
    PROVE  \E reply : /\ reply \in [kind : {"error"}, status : {500}, title : {"handler"},
                                    template : {0}, hint : {"none"}]
                      /\ s = Onward(r, r.location, "answered", r.errorPage, r.xError,
                                    r.verdict, "none", reply)
<1>1. s = ErrorAnswer(r, 500, "handler", 0)
  BY DEF HandlerError
<1>. QED
  BY <1>1, ErrorAnswerAs

\* What is known of a request at the content of its location.
LEMMA ContentFacts ==
    ASSUME NEW r, Shaped(r), r.phase = "content"
    PROVE  /\ r \in Request /\ Placed(r) /\ r.reply = NoReply /\ LetIn(r)
           /\ ServerSnippet = "none" =>
                /\ IsFailed(r) => r.xError # 0 /\ ~ContextThrows(r) /\ r.location = "error"
                /\ IsUnauthenticated(r) =>
                     ~ContextThrows(r) /\ r.location = "login" /\ r.asked # "login"
  BY DEF Shaped, WellTyped, Detoured

LEMMA ServedShaped ==
    ASSUME NEW r, Shaped(r), r.phase = "content", r.location \in Locations,
           NEW kind \in {"page", "proxied"},
           NEW reply \in [kind : {kind}, status : {200}, title : {"none"},
                          template : {0}, hint : {"none"}],
           NEW s, s = Answered(r, reply)
    PROVE  Shaped(s)
<1>1. s = Onward(r, r.location, "answered", r.errorPage, r.xError, r.verdict, "none", reply)
      /\ r \in Request /\ Placed(r) /\ LetIn(r)
  BY ContentFacts, AnsweredAs
<1>2. WellTyped(s)
  BY <1>1, NoReplyAs DEF WellTyped, Onward, Request, Phases, Reply, ReplyKinds
<1>3. Placed(s) /\ Informed(s)
  BY <1>1 DEF Placed, Informed, Authorizing, Onward
<1>4. LetIn(s)
  BY <1>1 DEF LetIn, Admitted, Onward
<1>5. ServerSnippet = "none" => ~IsFailed(r) /\ ~IsUnauthenticated(r)
  BY ContentFacts, SnippetTypes DEF OidcLocations
<1>6. ServerSnippet = "none" => Detoured(s)
  BY <1>1, <1>5 DEF Detoured, Authorizing, Onward, IsFailed, IsUnauthenticated
<1>. QED
  BY <1>2, <1>3, <1>4, <1>6 DEF Shaped

\* An error of the login or the logout handler.
LEMMA HandlerErrorShaped ==
    ASSUME NEW r, Shaped(r), r.phase = "content", r.location \in OidcLocations,
           r.location = "login" => \E option \in Options : Throws(r.conf, option),
           r.location = "error" => r.html /\ Template(r, ErrorStatus(r)) \in Unreadable,
           NEW s, s = HandlerError(r)
    PROVE  Shaped(s)
<1>1. r \in Request /\ Placed(r)
  BY ContentFacts
<1>2. PICK reply : /\ reply \in [kind : {"error"}, status : {500}, title : {"handler"},
                                 template : {0}, hint : {"none"}]
                   /\ s = Onward(r, r.location, "answered", r.errorPage, r.xError,
                                 r.verdict, "none", reply)
  BY <1>1, HandlerErrorAs
<1>3. reply \in Reply /\ reply.kind = "error" /\ reply.status = 500 /\ reply.title = "handler"
  BY <1>2 DEF Reply, ReplyKinds, Statuses
<1>4. /\ s.reply = reply /\ s.xError = r.xError /\ s.html = r.html /\ s.conf = r.conf
  BY <1>2 DEF Onward
<1>5. ASSUME ServerSnippet = "none", IsFailed(r)
      PROVE  r.xError # 0 /\ ~ContextThrows(r) /\ ErrorReaches(s)
  <2>1. r.xError # 0 /\ ~ContextThrows(r) /\ r.location = "error"
    BY <1>5, ContentFacts
  <2>2. ErrorStatus(r) = r.xError
    BY <2>1 DEF ErrorStatus
  <2>3. Template(s, s.xError) = Template(r, ErrorStatus(r))
    BY <1>4, <2>2 DEF Template
  <2>. QED
    BY <1>3, <1>4, <2>1, <2>3 DEF ErrorReaches
<1>6. ASSUME ServerSnippet = "none", IsUnauthenticated(r)
      PROVE  ~ContextThrows(r) /\ LoginReached(s)
  BY <1>3, <1>4, <1>6, ContentFacts DEF LoginReached
<1>. QED
  BY <1>1, <1>2, <1>3, <1>5, <1>6, AnsweredShaped

-----------------------------------------------------------------------------
(* The invariant is inductive. *)

\* A step whose next request is well shaped keeps the invariant.
LEMMA Continue ==
    ASSUME IInv, NEW next, Shaped(next), Goto(next), session' \in Session,
           grant' \in Grant
    PROVE  IInv'
<1>1. request' = next
  BY DEF Goto
<1>. QED
  BY <1>1 DEF IInv

LEMMA SameZones ==
    ASSUME IInv, UNCHANGED <<session, grant>>
    PROVE  session' \in Session /\ grant' \in Grant
  BY DEF IInv

\* The ID token, or another token of the session, is gone.
LEMMA SessionAs ==
    ASSUME NEW s \in Session
    PROVE  /\ [s EXCEPT !.idToken = "none"] \in Session
           /\ [s EXCEPT !.idToken = "stale"] \in Session
           /\ [s EXCEPT !.accessToken = FALSE] \in Session
           /\ NoSession \in Session
           /\ \A clears \in BOOLEAN : [s EXCEPT !.refreshToken = @ /\ ~clears] \in Session
  BY DEF Session, NoSession

LEMMA AuthorizeStep ==
    ASSUME IInv, Authorize
    PROVE  IInv'
<1>1. Shaped(request) /\ request.phase = "access" /\ Authorizing(request)
  BY DEF IInv, Authorize, AuthCrash, NoSite, AccessByToken, AccessRefresh,
     AccessUnauthenticated, ProxyByToken, ProxyRefresh, ProxyUnauthenticated, AtIdToken,
     AtProxy, Authorizing
<1>2. CASE AuthCrash
  BY <1>1, <1>2, CrashedShaped, Continue, SameZones DEF AuthCrash
<1>3. CASE NoSite
  <2>1. Shaped(Failed(request, 404))
    BY <1>1, <1>3, FailedShaped DEF NoSite, Statuses
  <2>. QED
    BY <1>3, <2>1, Continue, SameZones DEF NoSite
<1>4. CASE AccessByToken
  <2>1. ~ContextThrows(request) /\ SnippetOf(request.location) # "auth-proxy"
    BY <1>4 DEF AccessByToken, AtIdToken
  <2>2. Shaped(Authorized(request))
    BY <1>1, <1>4, <2>1, AuthorizedShaped DEF AccessByToken, AcceptsIdToken
  <2>. QED
    BY <1>4, <2>2, Continue, SameZones DEF AccessByToken
<1>5. CASE AccessRefresh
  <2>1. Shaped([request EXCEPT !.phase = "refreshing"])
    BY <1>1, <1>5, RefreshingShaped DEF AccessRefresh, AtIdToken
  <2>2. session' \in Session /\ grant' \in Grant
    BY <1>5, SessionAs DEF IInv, AccessRefresh
  <2>. QED
    BY <1>5, <2>1, <2>2, Continue DEF AccessRefresh
<1>6. CASE AccessUnauthenticated
  <2>1. ~ContextThrows(request) /\ SnippetOf(request.location) # "auth-proxy"
    BY <1>6 DEF AccessUnauthenticated, AtIdToken
  <2>2. Shaped(Unauthenticated(request))
    BY <1>1, <2>1, UnauthenticatedShaped
  <2>3. session' \in Session /\ grant' \in Grant
    BY <1>6, SessionAs DEF IInv, AccessUnauthenticated
  <2>. QED
    BY <1>6, <2>2, <2>3, Continue DEF AccessUnauthenticated
<1>7. CASE ProxyByToken
  <2>1. Shaped(Allowed(request, "token"))
    BY <1>1, <1>7, TokenShaped DEF ProxyByToken, AtProxy
  <2>. QED
    BY <1>7, <2>1, Continue, SameZones DEF ProxyByToken
<1>8. CASE ProxyRefresh
  <2>1. Shaped([request EXCEPT !.phase = "refreshing"])
    BY <1>1, <1>8, RefreshingShaped DEF ProxyRefresh, AtProxy
  <2>. QED
    BY <1>8, <2>1, Continue, SameZones DEF ProxyRefresh
<1>9. CASE ProxyUnauthenticated
  <2>1. Shaped(LoginRequired(request))
    BY <1>1, <1>9, LoginRequiredShaped DEF ProxyUnauthenticated, AtProxy
  <2>. QED
    BY <1>9, <2>1, Continue, SameZones DEF ProxyUnauthenticated
<1>. QED
  BY <1>2, <1>3, <1>4, <1>5, <1>6, <1>7, <1>8, <1>9 DEF Authorize

\* The token endpoint's answers.
LEMMA RefreshStatuses ==
    /\ \A answer : RequestTokenStatus(answer) \in {Proceed, 401, 500, 502}
    /\ RequestTokenStatus(Outage) = 502
    /\ \A c : RequestTokenStatus(TokenAnswer(c)) = 401 =>
                (grant.revoked \/ grant.rotated) /\ ClientAuthorization(c) = "right"
    /\ \A c : RequestTokenStatus(TokenAnswer(c)) = Proceed => ClientAuthorization(c) = "right"
  BY DEF RequestTokenStatus, Proceed, Outage, TokenAnswer

LEMMA SignatureStatusTypes ==
    /\ SignatureStatuses \subseteq {Proceed, 401, 500}
    /\ 401 \in SignatureStatuses => request.tokens # "good"
<1>1. \A answer \in {204, 401, 500} :
        /\ ValidateJwtStatus(InternalStatus(answer)) \in {Proceed, 401, 500}
        /\ ValidateJwtStatus(InternalStatus(answer)) = 401 => answer = 401
  BY DEF ValidateJwtStatus, InternalStatus, Proceed
<1>. QED
  BY <1>1 DEF SignatureStatuses

LEMMA RefreshFailedStep ==
    ASSUME IInv, request.phase \in {"refreshing", "validating"}, NEW status \in Statuses,
           RefreshFailed(status), grant' \in Grant
    PROVE  IInv'
<1>1. Shaped(FailedRequest(request, status))
  BY FailedRequestShaped DEF IInv
<1>2. ClearsRefreshToken(status) \in BOOLEAN
  BY DEF ClearsRefreshToken
<1>3. session' = [session EXCEPT !.refreshToken = @ /\ ~ClearsRefreshToken(status)]
      /\ Goto(FailedRequest(request, status))
  BY DEF RefreshFailed
<1>4. session' \in Session
  BY <1>2, <1>3, SessionAs DEF IInv
<1>. QED
  BY <1>1, <1>3, <1>4, Continue

\* What becomes of the refresh token, its cached answer and its successor.
LEMMA GrantAs ==
    ASSUME grant \in Grant
    PROVE  /\ \A tokens \in {"good", "forged"}, rotated \in BOOLEAN :
                [grant EXCEPT !.rotated = rotated, !.cached = tokens] \in Grant
           /\ [grant EXCEPT !.cached = "none"] \in Grant
           /\ [grant EXCEPT !.revoked = TRUE] \in Grant
           /\ NewGrant \in Grant /\ [NewGrant EXCEPT !.revoked = grant.revoked] \in Grant
           /\ \A culprit \in {"signature", "issuer", "clientId", "claimUsername"} :
                GiveUp(culprit) => grant' \in Grant
  BY DEF Grant, NewGrant, GiveUp

LEMMA CulpritType ==
    ASSUME NEW c
    PROVE  /\ Culprit(c) \in {"issuer", "clientId", "claimUsername"}
           /\ Culprit(c) = "clientId" => ClientAuthorization(c) # "right"
  BY DEF Culprit, ClientAuthorization

\* How a rejection of the tokens ends.
LEMMA RejectedAs ==
    ASSUME IdTokenRejected
    PROVE  \E status \in (SignatureStatuses \cup {ClaimsStatus(request.conf)}) \ {Proceed} :
             /\ RefreshFailed(status)
             /\ \E culprit \in {"signature", Culprit(request.conf)} : GiveUp(culprit)
  BY DEF IdTokenRejected

LEMMA RefreshStep ==
    ASSUME IInv, Refresh
    PROVE  IInv'
<1>1. Shaped(request) /\ request \in Request /\ session \in Session /\ grant \in Grant
  BY DEF IInv, Shaped, WellTyped
<1>2. CASE TokensReceived
  <2>1. PICK tokens \in {"good", "forged"}, rotated \in BOOLEAN :
          /\ Goto([request EXCEPT !.phase = "validating", !.tokens = tokens,
                                  !.replayed = FALSE])
          /\ grant' = [grant EXCEPT !.rotated = rotated, !.cached = tokens]
    BY <1>2 DEF TokensReceived
  <2>2. ClientAuthorization(request.conf) = "right"
    BY <1>2, RefreshStatuses DEF TokensReceived
  <2>3. Shaped([request EXCEPT !.phase = "validating", !.tokens = tokens, !.replayed = FALSE])
    BY <1>1, <1>2, <2>2, ValidatingShaped DEF TokensReceived
  <2>4. session' \in Session /\ grant' \in Grant
    BY <1>1, <1>2, <2>1, GrantAs DEF TokensReceived
  <2>. QED
    BY <2>1, <2>3, <2>4, Continue
<1>3. CASE TokensReplayed
  <2>1. PICK tokens : tokens = grant.cached
    OBVIOUS
  <2>2. tokens \in {"good", "forged"}
    BY <1>1, <1>3, <2>1 DEF TokensReplayed, Grant
  <2>3. Shaped([request EXCEPT !.phase = "validating", !.tokens = tokens, !.replayed = TRUE])
    BY <1>1, <1>3, <2>2, ValidatingShaped DEF TokensReplayed
  <2>. QED
    BY <1>3, <2>1, <2>3, Continue, SameZones DEF TokensReplayed
<1>4. CASE TokensRefused
  <2>1. PICK answer \in {TokenAnswer(request.conf), Outage} :
          RequestTokenStatus(answer) # Proceed /\ RefreshFailed(RequestTokenStatus(answer))
    BY <1>4 DEF TokensRefused
  <2>2. RequestTokenStatus(answer) \in Statuses
    BY <2>1, RefreshStatuses DEF Statuses
  <2>. QED
    BY <1>1, <1>4, <2>1, <2>2, RefreshFailedStep DEF TokensRefused
<1>5. CASE IdTokenRejected
  <2>1. PICK status \in (SignatureStatuses \cup {ClaimsStatus(request.conf)}) \ {Proceed},
             culprit \in {"signature", Culprit(request.conf)} :
          RefreshFailed(status) /\ GiveUp(culprit)
    BY <1>5, RejectedAs
  <2>2. status \in Statuses
    BY <1>1, <2>1, SignatureStatusTypes, ConfTypes, ClaimsStatusType DEF Statuses
  <2>3. grant' \in Grant
    BY <1>1, <2>1, GrantAs, CulpritType
  <2>. QED
    BY <1>5, <2>1, <2>2, <2>3, RefreshFailedStep DEF IdTokenRejected
<1>6. CASE StoreTokens
  <2>1. request.phase = "validating" /\ ClaimsStatus(request.conf) = Proceed
    BY <1>6 DEF StoreTokens
  <2>2. Authorizing(request) /\ ~ContextThrows(request)
    BY <1>1, <2>1 DEF Shaped, Informed, Authorizing
  <2>3. session' \in Session /\ grant' \in Grant
    BY <1>1, <1>6, GrantAs DEF StoreTokens, Session, Grant
  <2>4. CASE SnippetOf(request.location) = "auth-proxy"
    <3>1. Shaped(Allowed(request, "token"))
      BY <1>1, <2>2, <2>4, TokenShaped
    <3>2. Goto(Allowed(request, "token"))
      BY <1>6, <2>4 DEF StoreTokens
    <3>. QED
      BY <2>3, <3>1, <3>2, Continue
  <2>5. CASE SnippetOf(request.location) # "auth-proxy"
    <3>1. Shaped(Authorized(request))
      BY <1>1, <2>1, <2>2, <2>5, AuthorizedShaped
    <3>2. Goto(Authorized(request))
      BY <1>6, <2>5 DEF StoreTokens
    <3>. QED
      BY <2>3, <3>1, <3>2, Continue
  <2>. QED
    BY <2>4, <2>5
<1>. QED
  BY <1>2, <1>3, <1>4, <1>5, <1>6 DEF Refresh

\* A location refuses what auth_request let through.
LEMMA RefusedContent ==
    ASSUME IInv, request.phase = "content", NEW status \in Statuses \cup {405},
           ServerSnippet = "none" => ~IsFailed(request) /\ ~IsUnauthenticated(request)
    PROVE  Shaped(Refuse(request, status))
  BY ContentFacts, RefuseShaped DEF IInv

LEMMA ServeStep ==
    ASSUME IInv, Serve
    PROVE  IInv'
<1>. PICK kind : kind = IF Snippet[request.location] = "auth-proxy" THEN "proxied" ELSE "page"
  OBVIOUS
<1>1. PICK reply : reply = [NoReply EXCEPT !.status = 200, !.kind = kind]
                     /\ Goto(Answered(request, reply))
  BY DEF Serve
<1>2. reply \in [kind : {kind}, status : {200}, title : {"none"}, template : {0}, hint : {"none"}]
  BY <1>1 DEF NoReply
<1>3. Shaped(Answered(request, reply))
  BY <1>2, ServedShaped DEF IInv, Serve
<1>. QED
  BY <1>1, <1>3, Continue, SameZones DEF Serve

LEMMA LoginStep ==
    ASSUME IInv, Login
    PROVE  IInv'
<1>1. /\ request.phase = "content" /\ request.location = "login" /\ Shaped(request)
      /\ UNCHANGED <<session, grant>> /\ "login" \in OidcLocations
  BY DEF Login, AtContent, IInv, OidcLocations
<1>2. CASE \E option \in {"authorizationEndpoint", "clientId", "cookieAttrs"} :
             Throws(request.conf, option)
  <2>1. Goto(HandlerError(request))
    BY <1>2 DEF Login
  <2>2. \E option \in Options : Throws(request.conf, option)
    BY <1>2 DEF Options, Required, Defaulted, Parsed
  <2>3. Shaped(HandlerError(request))
    BY <1>1, <2>2, HandlerErrorShaped
  <2>. QED
    BY <1>1, <2>1, <2>3, Continue, SameZones
<1>3. CASE ~ \E option \in {"authorizationEndpoint", "clientId", "cookieAttrs"} :
               Throws(request.conf, option)
  <2>1. PICK reply : reply = [NoReply EXCEPT !.kind = "login", !.status = 303]
                       /\ Goto(Answered(request, reply))
    BY <1>3 DEF Login
  <2>2. reply \in [kind : {"login"}, status : {303}, title : {"none"}, template : {0},
                   hint : {"none"}]
    BY <2>1 DEF NoReply
  <2>3. reply \in Reply /\ reply.kind = "login" /\ reply.status = 303
    BY <2>2 DEF Reply, ReplyKinds
  <2>. PICK s : s = Answered(request, reply)
    OBVIOUS
  <2>4. /\ request \in Request /\ Placed(request)
        /\ s = Onward(request, request.location, "answered", request.errorPage, request.xError,
                      request.verdict, "none", reply)
    BY <1>1, ContentFacts, AnsweredAs
  <2>5. ServerSnippet = "none" =>
          ~IsFailed(request) /\ (IsUnauthenticated(request) => ~ContextThrows(request))
    BY <1>1, ContentFacts
  <2>6. LoginReached(s)
    BY <2>3, <2>4 DEF LoginReached, Onward
  <2>7. Shaped(s)
    BY <2>3, <2>4, <2>5, <2>6, AnsweredShaped
  <2>. QED
    BY <1>1, <2>1, <2>7, Continue, SameZones
<1>. QED
  BY <1>2, <1>3

\* The replies of the logout.
OPLogoutReplies == [kind : {"opLogout"}, status : {303}, title : {"none"}, template : {0},
                    hint : {session.idToken}]
NextReplies == [kind : {"next"}, status : {303}, title : {"none"}, template : {0},
                hint : {"none"}]
GoodbyeReplies == [kind : {"goodbye"}, status : {200, 204}, title : {"none"}, template : {0},
                   hint : {"none"}]

LEMMA GoodbyesAs ==
    ASSUME NEW r, NEW reply \in Goodbyes(r)
    PROVE  reply \in OPLogoutReplies \/ reply \in NextReplies \/ reply \in GoodbyeReplies
<1>. PICK a, b, c :
       /\ a = [NoReply EXCEPT !.kind = "opLogout", !.status = 303, !.hint = session.idToken]
       /\ b = [NoReply EXCEPT !.kind = "next", !.status = 303]
       /\ c = [NoReply EXCEPT !.kind = "goodbye", !.status = IF r.html THEN 200 ELSE 204]
  OBVIOUS
<1>1. a \in OPLogoutReplies
  BY DEF NoReply, OPLogoutReplies
<1>2. b \in NextReplies
  BY DEF NoReply, NextReplies
<1>3. c \in GoodbyeReplies
  BY DEF NoReply, GoodbyeReplies
<1>4. reply = a \/ reply = b \/ reply = c
  BY Zenon DEF Goodbyes
<1>5. CASE reply = a
  BY <1>1, <1>5, Zenon
<1>6. CASE reply = b
  BY <1>2, <1>6, Zenon
<1>7. CASE reply = c
  BY <1>3, <1>7, Zenon
<1>. QED
  BY <1>4, <1>5, <1>6, <1>7, Zenon

LEMMA LogoutStep ==
    ASSUME IInv, Logout
    PROVE  IInv'
<1>1. /\ request.phase = "content" /\ request.location = "logout" /\ Shaped(request)
      /\ UNCHANGED grant /\ session \in Session
      /\ "logout" \in OidcLocations /\ "logout" # "login" /\ "logout" # "error"
  BY DEF Logout, AtContent, IInv, OidcLocations
<1>2. session' \in Session /\ grant' \in Grant
  BY <1>1, SessionAs DEF IInv, Logout
<1>3. PICK reply \in Goodbyes(request) :
        Goto(HandlerError(request)) \/ Goto(Answered(request, reply))
  BY DEF Logout
<1>4. CASE Goto(HandlerError(request))
  <2>1. Shaped(HandlerError(request))
    BY <1>1, HandlerErrorShaped
  <2>. QED
    BY <1>2, <1>4, <2>1, Continue
<1>5. CASE Goto(Answered(request, reply))
  <2>1. reply \in Reply /\ reply.kind \notin {"none", "page", "proxied"} /\ reply.status # 0
    <3>1. session.idToken \in {"none", "fresh", "stale"}
      BY <1>1 DEF Session
    <3>. QED
      BY <3>1, GoodbyesAs
      DEF OPLogoutReplies, NextReplies, GoodbyeReplies, Reply, ReplyKinds
  <2>. PICK s : s = Answered(request, reply)
    OBVIOUS
  <2>2. /\ request \in Request /\ Placed(request)
        /\ s = Onward(request, request.location, "answered", request.errorPage, request.xError,
                      request.verdict, "none", reply)
    BY <1>1, ContentFacts, AnsweredAs
  <2>3. ServerSnippet = "none" => ~IsFailed(request) /\ ~IsUnauthenticated(request)
    BY <1>1, ContentFacts
  <2>4. Shaped(s)
    BY <2>1, <2>2, <2>3, AnsweredShaped
  <2>. QED
    BY <1>2, <1>5, <2>4, Continue
<1>. QED
  BY <1>3, <1>4, <1>5

LEMMA TemplateTypes ==
    ASSUME NEW r, NEW status \in Nat
    PROVE  /\ Template(r, status) \in Templates \cup {0}
           /\ Template(r, status) \in Unreadable => r.html
  BY TemplatesAssumption DEF Template

LEMMA ErrorStep ==
    ASSUME IInv, Error
    PROVE  IInv'
<1>. PICK status : status = ErrorStatus(request)
  OBVIOUS
<1>. PICK template : template = Template(request, status)
  OBVIOUS
<1>. PICK title : title = IF request.xError # 0 THEN "handler" ELSE "default"
  OBVIOUS
<1>1. /\ request.phase = "content" /\ request.location = "error" /\ Shaped(request)
      /\ UNCHANGED <<session, grant>> /\ "error" \in OidcLocations
  BY DEF Error, AtContent, IInv, OidcLocations
<1>2. request \in Request /\ Placed(request)
  BY <1>1, ContentFacts
<1>3. status \in Statuses
  BY <1>1, <1>2 DEF ErrorStatus, Placed, Request, Statuses
<1>4. template \in Templates \cup {0} /\ (template \in Unreadable => request.html)
  BY <1>3, TemplateTypes DEF Statuses
<1>5. CASE template \in Unreadable
  <2>1. Goto(HandlerError(request))
    BY <1>5 DEF Error
  <2>2. Shaped(HandlerError(request))
    BY <1>1, <1>4, <1>5, HandlerErrorShaped
  <2>. QED
    BY <1>1, <2>1, <2>2, Continue, SameZones
<1>6. CASE template \notin Unreadable
  <2>. PICK s : s = ErrorAnswer(request, status, title, template)
    OBVIOUS
  <2>1. Goto(s)
    BY <1>6 DEF Error
  <2>2. PICK reply : /\ reply \in [kind : {"error"}, status : {status}, title : {title},
                                   template : {template}, hint : {"none"}]
                     /\ s = Onward(request, request.location, "answered", request.errorPage,
                                   request.xError, request.verdict, "none", reply)
    BY <1>2, ErrorAnswerAs
  <2>3. /\ reply \in Reply /\ reply.kind = "error" /\ reply.status = status
        /\ reply.title = title /\ reply.status # 0
    BY <1>3, <1>4, <2>2 DEF Reply, ReplyKinds, Statuses
  <2>4. ASSUME ServerSnippet = "none", IsFailed(request)
        PROVE  request.xError # 0 /\ ~ContextThrows(request) /\ ErrorReaches(s)
    <3>1. request.xError # 0 /\ ~ContextThrows(request)
      BY <1>1, <2>4, ContentFacts
    <3>2. s.reply = reply /\ s.xError = request.xError
      BY <2>2 DEF Onward
    <3>. QED
      BY <2>3, <3>1, <3>2 DEF ErrorReaches, ErrorStatus
  <2>5. ServerSnippet = "none" => ~IsUnauthenticated(request)
    BY <1>1, ContentFacts
  <2>6. Shaped(s)
    BY <1>2, <2>2, <2>3, <2>4, <2>5, AnsweredShaped
  <2>. QED
    BY <1>1, <2>1, <2>6, Continue, SameZones
<1>. QED
  BY <1>5, <1>6

LEMMA ContentStep ==
    ASSUME IInv, Content
    PROVE  IInv'
<1>1. CASE ServeFails
  <2>1. PICK status \in {403, 404} : Goto(Refuse(request, status))
    BY <1>1 DEF ServeFails
  <2>2. ServerSnippet = "none" => ~IsFailed(request) /\ ~IsUnauthenticated(request)
    BY <1>1, ContentFacts, SnippetTypes DEF IInv, ServeFails, OidcLocations
  <2>3. Shaped(Refuse(request, status))
    BY <1>1, <2>1, <2>2, RefusedContent DEF ServeFails, Statuses
  <2>. QED
    BY <1>1, <2>1, <2>3, Continue, SameZones DEF ServeFails
<1>2. CASE ContentCrash
  <2>1. ServerSnippet = "none" => ~IsFailed(request) /\ ~IsUnauthenticated(request)
    BY <1>2, ContentFacts DEF IInv, ContentCrash
  <2>2. Shaped(Refuse(request, 500))
    BY <1>2, <2>1, RefusedContent DEF ContentCrash, Statuses
  <2>. QED
    BY <1>2, <2>2, Continue, SameZones DEF ContentCrash
<1>3. CASE NotAllowed
  <2>1. /\ request.phase = "content" /\ request.location \in {"login", "logout"}
        /\ request.asked = request.location
    BY <1>3 DEF NotAllowed, AtContent, IsRewritten
  <2>2. ServerSnippet = "none" => ~IsFailed(request) /\ ~IsUnauthenticated(request)
    BY <2>1, ContentFacts DEF IInv
  <2>3. Shaped(Refuse(request, 405))
    BY <2>1, <2>2, RefusedContent
  <2>. QED
    BY <1>3, <2>3, Continue, SameZones DEF NotAllowed
<1>. QED
  BY <1>1, <1>2, <1>3, ServeStep, LoginStep, LogoutStep, ErrorStep DEF Content

\* A request that the client makes.
LEMMA NewShaped ==
    ASSUME NEW asked \in Locations \cup {"login", "logout"}, NEW method \in {"GET", "POST"},
           NEW html \in BOOLEAN, NEW site \in BOOLEAN, NEW conf \in Configs,
           NEW s, s = NewRequest(asked, method, html, site, conf)
    PROVE  Shaped(s)
<1>1. asked # "error" /\ asked \in Locations \cup OidcLocations
  BY LocationsAssumption DEF OidcLocations
<1>2. /\ s.asked = asked /\ s.location = asked /\ s.errorPage = 0 /\ s.xError = 0
      /\ s.verdict = "none" /\ s.tokens = "none" /\ s.reply = NoReply /\ s.conf = conf
      /\ s.phase = IF SnippetOf(asked) = "none" THEN "content" ELSE "access"
  BY DEF NewRequest
<1>3. WellTyped(s)
  BY <1>1, NoReplyAs DEF WellTyped, NewRequest, Request, Phases, Verdicts
<1>4. Placed(s) /\ Informed(s)
  BY <1>1, <1>2 DEF Placed, Informed, Authorizing
<1>5. LetIn(s)
  BY <1>2, NoReplyAs DEF LetIn, Admitted
<1>6. ServerSnippet = "none" => Detoured(s)
  BY <1>2, SnippetTypes DEF Detoured, Authorizing, IsFailed, IsUnauthenticated
<1>. QED
  BY <1>3, <1>4, <1>5, <1>6 DEF Shaped

LEMMA IdledAs ==
    ASSUME NEW r \in Request, NEW s, s = [r EXCEPT !.phase = "idle"]
    PROVE  /\ s \in Request
           /\ s = Onward(r, r.location, "idle", r.errorPage, r.xError, r.verdict, r.tokens,
                         r.reply)
<1>1. s = Onward(r, r.location, "idle", r.errorPage, r.xError, r.verdict, r.tokens, r.reply)
  BY Zenon DEF Request, Onward
<1>2. PICK q : q = Onward(r, r.location, "idle", r.errorPage, r.xError, r.verdict, r.tokens,
                          r.reply)
  OBVIOUS
<1>3. q \in Request
  BY <1>2 DEF Onward, Request, Phases
<1>. QED
  BY <1>1, <1>2, <1>3

LEMMA IdleShaped == Shaped(Idle)
<1>. PICK conf : conf = CHOOSE c \in Configs : TRUE
  OBVIOUS
<1>1. conf \in Configs
  BY ConfigsAssumption
<1>. PICK r : r = NewRequest("login", "GET", TRUE, TRUE, conf)
  OBVIOUS
<1>2. Shaped(r) /\ r.verdict = "none" /\ r.reply = NoReply /\ r.tokens = "none"
  BY <1>1, NewShaped DEF NewRequest
<1>3. r \in Request /\ Placed(r)
  BY <1>2 DEF Shaped, WellTyped
<1>. PICK s : s = [r EXCEPT !.phase = "idle"]
  OBVIOUS
<1>4. s = Onward(r, r.location, "idle", r.errorPage, r.xError, r.verdict, r.tokens, r.reply)
  BY <1>3, IdledAs
<1>5. WellTyped(s)
  <2>1. s \in Request
    BY <1>3, IdledAs
  <2>2. s.phase = "idle" /\ s.tokens = "none" /\ s.reply = NoReply
    BY <1>2, <1>4 DEF Onward
  <2>. QED
    BY <2>1, <2>2, NoReplyAs DEF WellTyped
<1>6. Placed(s) /\ Informed(s) /\ LetIn(s) /\ Detoured(s)
  BY <1>2, <1>3, <1>4, NoReplyAs
  DEF Placed, Informed, Authorizing, LetIn, Detoured, IsFailed, IsUnauthenticated, Onward
<1>7. Shaped(s)
  BY <1>5, <1>6 DEF Shaped
<1>8. s = Idle
  BY DEF Idle
<1>. QED
  BY <1>7, <1>8

LEMMA InitIInv == Init => IInv
  BY IdleShaped DEF Init, IInv, Session, NoSession, Grant, NewGrant

LEMMA NextIInv == IInv /\ [Next]_vars => IInv'
<1>. SUFFICES ASSUME IInv, [Next]_vars PROVE IInv'
  OBVIOUS
<1>1. CASE Arrive
  <2>1. PICK asked \in Locations \cup {"login", "logout"}, method \in {"GET", "POST"},
             html \in BOOLEAN, site \in BOOLEAN, conf \in Configs :
          request' = NewRequest(asked, method, html, site, conf)
    BY <1>1, Zenon DEF Arrive
  <2>2. Shaped(request')
    BY <2>1, NewShaped
  <2>. QED
    BY <1>1, <2>2 DEF Arrive, IInv
<1>2. CASE Deliver
  BY <1>2, IdleShaped DEF Deliver, IInv
<1>3. CASE SignIn
  <2>1. session' \in Session
    BY <1>3 DEF SignIn, Session
  <2>2. grant' \in Grant
    BY <1>3 DEF SignIn, Grant, NewGrant
  <2>. QED
    BY <1>3, <2>1, <2>2, IdleShaped DEF SignIn, IInv
<1>4. CASE OPRevoke
  BY <1>4, GrantAs DEF OPRevoke, IInv
<1>5. CASE IdTokenExpires
  BY <1>5, SessionAs DEF IdTokenExpires, IInv
<1>6. CASE ZoneTimeout
  BY <1>6, SessionAs DEF ZoneTimeout, IInv
<1>7. CASE AnswerExpires
  BY <1>7, GrantAs DEF AnswerExpires, IInv
<1>8. CASE UNCHANGED vars
  BY <1>8 DEF vars, IInv
<1>. QED
  BY <1>1, <1>2, <1>3, <1>4, <1>5, <1>6, <1>7, <1>8, AuthorizeStep, RefreshStep, ContentStep DEF Next

\* IInv is an invariant: every property below follows from it.
LEMMA Invariant == Spec => []IInv
  BY InitIInv, NextIInv, PTL DEF Spec

-----------------------------------------------------------------------------
(* Theorems *)

\* Every request and every answer is well-formed, whatever snippets are nested and whatever
\* fails: no status, phase or template but those of the code.
THEOREM TypeCorrect == Spec => []TypeOK
<1>1. IInv => TypeOK
  BY DEF IInv, Shaped, WellTyped, TypeOK
<1>. QED
  BY <1>1, Invariant, PTL

\* A protected location answers only whom its snippet has let in, for every configuration,
\* right or wrong, and every way to include the snippets.
THEOREM FailClosedHolds == Spec => []FailClosed
<1>1. IInv => FailClosed
  BY DEF IInv, Shaped, LetIn, Admitted, FailClosed
<1>. QED
  BY <1>1, Invariant, PTL

\* An error of a handler behind auth_request reaches the client with its own status.  Only
\* where no snippet is included in the server context: the error handler would be behind
\* auth_request itself.
THEOREM ErrorReachesClientHolds ==
    ASSUME ServerSnippet = "none"
    PROVE  Spec => []ErrorReachesClient
<1>1. IInv => ErrorReachesClient
  BY DEF IInv, Shaped, Detoured, IsFailed, ErrorReaches, ErrorReachesClient
<1>. QED
  BY <1>1, Invariant, PTL

\* A user who is not signed in is sent to the OP or told what is not configured; again only
\* without a snippet in the server context, where the code does otherwise.
THEOREM UnauthenticatedReachLoginHolds ==
    ASSUME ServerSnippet = "none"
    PROVE  Spec => []UnauthenticatedReachLogin
<1>1. IInv => UnauthenticatedReachLogin
  BY DEF IInv, Shaped, Detoured, IsUnauthenticated, LoginReached, UnauthenticatedReachLogin
<1>. QED
  BY <1>1, Invariant, PTL

\* A failed refresh costs the refresh token only with a 401 (oauth.ts).
LEMMA RefreshTokenLost ==
    ASSUME session \in Session, NEW status, RefreshFailed(status),
           session.refreshToken, ~session'.refreshToken
    PROVE  status = 401
<1>1. session' = [session EXCEPT !.refreshToken = @ /\ ~ClearsRefreshToken(status)]
  BY DEF RefreshFailed
<1>2. session'.refreshToken = (session.refreshToken /\ ~ClearsRefreshToken(status))
  BY <1>1 DEF Session
<1>. QED
  BY <1>2 DEF ClearsRefreshToken

\* A refresh token that the OP has retired is in the zone only while the tokens that replace it
\* are looked at for the first time, or because they were given up; and never because of the
\* client id, for then the OP would not have been asked.
Explained ==
    /\ grant.wastedBy # "clientId"
    /\ grant.rotated /\ (request.phase = "validating" => request.replayed)
         => grant.wastedBy # "none"

LEMMA ExplainedStep ==
    ASSUME IInv, Explained, [Next]_vars
    PROVE  Explained'
<1>1. grant \in Grant /\ Shaped(request) /\ request \in Request
  BY DEF IInv, Shaped, WellTyped
<1>2. CASE TokensReceived
  <2>1. PICK tokens \in {"good", "forged"}, rotated \in BOOLEAN :
          /\ request' = [request EXCEPT !.phase = "validating", !.tokens = tokens,
                                        !.replayed = FALSE]
          /\ grant' = [grant EXCEPT !.rotated = rotated, !.cached = tokens]
    BY <1>2 DEF TokensReceived, Goto
  <2>2. request'.phase = "validating" /\ request'.replayed = FALSE
    BY <1>1, <2>1 DEF Request
  <2>3. grant'.wastedBy = grant.wastedBy
    BY <1>1, <2>1 DEF Grant
  <2>. QED
    BY <2>2, <2>3 DEF Explained
<1>3. CASE IdTokenRejected
  <2>1. PICK culprit \in {"signature", Culprit(request.conf)} : GiveUp(culprit)
    BY <1>3, RejectedAs
  <2>2. /\ grant.wastedBy # "none" \/ ~grant.rotated => grant' = grant
        /\ grant.wastedBy = "none" /\ grant.rotated
             => grant'.rotated /\ grant'.wastedBy = culprit
    BY <1>1, <2>1 DEF GiveUp, Grant
  <2>3. culprit = "clientId" => request.phase = "validating" /\ request.replayed
    BY <1>1, <1>3, CulpritType DEF IdTokenRejected, Shaped, Informed
  <2>4. culprit # "none"
    BY CulpritType
  <2>. QED
    BY <2>2, <2>3, <2>4 DEF Explained
<1>4. CASE StoreTokens
  BY <1>1, <1>4 DEF StoreTokens, Explained, Grant, NewGrant
<1>5. CASE SignIn
  BY <1>5 DEF SignIn, Explained, NewGrant
<1>6. CASE OPRevoke \/ AnswerExpires
  BY <1>1, <1>6 DEF OPRevoke, AnswerExpires, Explained, Grant
<1>7. CASE IdTokenExpires \/ ZoneTimeout \/ UNCHANGED vars
  BY <1>7 DEF IdTokenExpires, ZoneTimeout, Explained, vars
<1>8. CASE Next /\ ~(TokensReceived \/ IdTokenRejected \/ StoreTokens \/ SignIn \/ OPRevoke
                      \/ AnswerExpires \/ IdTokenExpires \/ ZoneTimeout)
  <2>1. grant' = grant /\ request.phase # "validating"
    BY <1>8
    DEF Next, Authorize, Refresh, Content, AuthCrash, NoSite, AccessByToken, AccessRefresh,
        AccessUnauthenticated, AtIdToken, AtProxy, ProxyByToken, ProxyRefresh,
        ProxyUnauthenticated, TokensReplayed, TokensRefused, Serve, ServeFails, ContentCrash,
        NotAllowed, Login, Logout, Error, AtContent, Arrive, Deliver
  <2>. QED
    BY <2>1 DEF Explained
<1>. QED
  BY <1>2, <1>3, <1>4, <1>5, <1>6, <1>7, <1>8

LEMMA SpentTokens == Spec => []Explained
<1>1. Init => Explained
  BY DEF Init, Explained, NewGrant
<1>2. IInv /\ Explained /\ [Next]_vars => Explained'
  BY ExplainedStep
<1>. QED
  BY <1>1, <1>2, Invariant, PTL DEF Spec

\* The ways in which a session can lose its refresh token, and which mistakes in the
\* configuration are among them: a wrong issuer, a wrong client id with an answer out of the
\* cache, and what made the tokens of a rotated refresh token be given up until they were no
\* longer in the cache; no outage, and no other option.
THEOREM OnlySomeMistakesCostHolds == Spec => OnlySomeMistakesCost
<1>1. ASSUME IInv, Explained, [Next]_vars, session.refreshToken, ~session'.refreshToken
      PROVE  \/ request.location = "logout"
             \/ request.reply.kind = "login"
             \/ /\ request.phase = "refreshing"
                /\ ClientAuthorization(request.conf) = "right" /\ grant.cached = "none"
                /\ grant.revoked \/ grant.wastedBy \in {"signature", "issuer", "claimUsername"}
             \/ /\ request.phase = "validating"
                /\ \/ request.tokens = "forged"
                   \/ request.conf["issuer"] = "wrong"
                   \/ request.conf["clientId"] = "wrong" /\ request.replayed
  <2>1. session \in Session /\ grant \in Grant /\ Shaped(request) /\ request \in Request
    BY <1>1 DEF IInv, Shaped, WellTyped
  <2>2. CASE TokensRefused
    <3>1. PICK answer \in {TokenAnswer(request.conf), Outage} :
            RefreshFailed(RequestTokenStatus(answer))
      BY <2>2 DEF TokensRefused
    <3>2. RequestTokenStatus(answer) = 401
      BY <1>1, <2>1, <3>1, RefreshTokenLost
    <3>3. answer = TokenAnswer(request.conf)
      BY <3>1, <3>2, RefreshStatuses
    <3>4. /\ grant.revoked \/ grant.rotated
          /\ ClientAuthorization(request.conf) = "right"
      BY <3>2, <3>3, RefreshStatuses
    <3>5. grant.rotated => grant.wastedBy \in {"signature", "issuer", "claimUsername"}
      BY <1>1, <2>1, <2>2 DEF TokensRefused, Explained, Grant
    <3>. QED
      BY <2>2, <3>4, <3>5 DEF TokensRefused
  <2>3. CASE IdTokenRejected
    <3>1. PICK status : /\ RefreshFailed(status)
                        /\ status \in SignatureStatuses \/ status = ClaimsStatus(request.conf)
      BY <2>3 DEF IdTokenRejected
    <3>2. status = 401
      BY <1>1, <2>1, <3>1, RefreshTokenLost
    <3>3. request.phase = "validating" /\ request.tokens \in {"good", "forged"}
      BY <2>1, <2>3 DEF IdTokenRejected, Shaped, WellTyped, Request
    <3>4. request.conf["clientId"] = "wrong" => request.replayed
      BY <2>1, <3>3 DEF Shaped, Informed, ClientAuthorization
    <3>5. ClaimsStatus(request.conf) = 401 =>
            request.conf["issuer"] = "wrong" \/ request.conf["clientId"] = "wrong"
      BY <2>1, ConfTypes, ClaimsStatusType
    <3>. QED
      BY <3>1, <3>2, <3>3, <3>4, <3>5, SignatureStatusTypes
  <2>4. CASE StoreTokens
    <3>1. session'.refreshToken = (session.refreshToken \/ grant.rotated)
      BY <2>4 DEF StoreTokens
    <3>. QED
      BY <1>1, <3>1
  <2>5. CASE Logout
    BY <2>5 DEF Logout, AtContent
  <2>6. CASE SignIn
    BY <2>6 DEF SignIn
  <2>7. CASE AccessRefresh \/ AccessUnauthenticated \/ IdTokenExpires \/ ZoneTimeout
    BY <1>1, <2>1, <2>7
    DEF AccessRefresh, AccessUnauthenticated, IdTokenExpires, ZoneTimeout, Session
  <2>8. session # session'
    BY <1>1
  <2>. QED
    BY <1>1, <2>2, <2>3, <2>4, <2>5, <2>6, <2>7, <2>8
    DEF Next, Authorize, Refresh, Content, AuthCrash, NoSite, AccessByToken, ProxyByToken,
        ProxyRefresh, ProxyUnauthenticated, TokensReceived, TokensReplayed, Serve, ServeFails,
        ContentCrash, NotAllowed, Login, Error, Arrive, Deliver, OPRevoke, AnswerExpires, vars
<1>2. IInv /\ Explained /\ [Next]_vars => [session.refreshToken /\ ~session'.refreshToken =>
        \/ request.location = "logout"
        \/ request.reply.kind = "login"
        \/ /\ request.phase = "refreshing"
           /\ ClientAuthorization(request.conf) = "right" /\ grant.cached = "none"
           /\ grant.revoked \/ grant.wastedBy \in {"signature", "issuer", "claimUsername"}
        \/ /\ request.phase = "validating"
           /\ \/ request.tokens = "forged"
              \/ request.conf["issuer"] = "wrong"
              \/ request.conf["clientId"] = "wrong" /\ request.replayed]_vars
  BY <1>1
<1>. QED
  BY <1>2, Invariant, SpentTokens, PTL DEF Spec, OnlySomeMistakesCost

\* What a refusal on the way to the logout can send: nothing yet, or nginx's own error.
LEMMA RefusedReply ==
    ASSUME NEW r \in Request, r.reply = NoReply, NEW status, NEW s, s = Refuse(r, status)
    PROVE  s.reply.kind \in {"none", "bare"}
<1>. PICK page, phase : /\ page = IF status = 401 THEN "login" ELSE "error"
                        /\ phase = IF SnippetOf(page) = "none" THEN "content" ELSE "access"
  OBVIOUS
<1>1. CASE s = Bare(r, status)
  <2>1. PICK reply : /\ reply \in [kind : {"bare"}, status : {status}, title : {"none"},
                                   template : {0}, hint : {"none"}]
                     /\ s = Onward(r, r.location, "answered", r.errorPage, r.xError,
                                     r.verdict, "none", reply)
    BY <1>1, BareAs
  <2>2. s.reply = reply
    BY <2>1 DEF Onward
  <2>. QED
    BY <2>1, <2>2
<1>2. CASE s = Onward(r, page, phase, status, r.xError, r.verdict, "none", r.reply)
  BY <1>2, NoReplyAs DEF Onward
<1>. QED
  BY <1>1, <1>2, RefuseAs

LogoutWhole ==
    /\ session' \in {session, NoSession}
    /\ request'.reply.kind \in {"opLogout", "next", "goodbye"} => session' = NoSession
    /\ request'.reply.kind = "opLogout" => request'.reply.hint = session.idToken
    /\ request'.reply.kind = "error" /\ ~Throws(request.conf, "cookieAttrs")
         => session' = session

\* A logout that fails leaves the session alone, but for cookies.
LEMMA LogoutFails ==
    ASSUME request \in Request, session' \in {session, NoSession},
           ~Throws(request.conf, "cookieAttrs") => session' = session,
           Goto(HandlerError(request))
    PROVE  LogoutWhole
<1>1. PICK reply : /\ reply \in [kind : {"error"}, status : {500}, title : {"handler"},
                                 template : {0}, hint : {"none"}]
                   /\ request' = Onward(request, request.location, "answered",
                                        request.errorPage, request.xError,
                                        request.verdict, "none", reply)
  BY HandlerErrorAs DEF Goto
<1>2. request'.reply = reply
  BY <1>1 DEF Onward
<1>3. request'.reply.kind = "error"
  BY <1>1, <1>2
<1>. QED
  BY <1>3 DEF LogoutWhole

\* A logout that answers has cleared the session, and passes on its ID token.
LEMMA LogoutSucceeds ==
    ASSUME request \in Request, session' = NoSession,
           NEW reply \in Goodbyes(request), Goto(Answered(request, reply))
    PROVE  LogoutWhole
<1>1. request' = Onward(request, request.location, "answered", request.errorPage,
                        request.xError, request.verdict, "none", reply)
  BY AnsweredAs DEF Goto
<1>2. request'.reply = reply
  BY <1>1 DEF Onward
<1>3. reply.kind # "error" /\ (reply.kind = "opLogout" => reply.hint = session.idToken)
  BY GoodbyesAs DEF OPLogoutReplies, NextReplies, GoodbyeReplies
<1>. QED
  BY <1>2, <1>3 DEF LogoutWhole

\* A logout ends all of a session and tells the OP of the ID token it had, or it fails and
\* leaves the session alone, unless what failed is the clearing of the cookies.
THEOREM LogoutIsWholeHolds == Spec => LogoutIsWhole
<1>1. ASSUME IInv, [Next]_vars, request.phase = "content", request.location = "logout",
             request'.phase = "answered"
      PROVE  LogoutWhole
  <2>1. request \in Request /\ request.reply = NoReply
    BY <1>1 DEF IInv, Shaped, WellTyped
  <2>2. "logout" \notin Locations
    BY LocationsAssumption DEF OidcLocations
  <2>3. CASE Logout
    <3>. PICK fails : fails = (IsSet(request.conf, "endSessionEndpoint")
                                /\ Throws(request.conf, "clientId"))
      OBVIOUS
    <3>1. session' = IF fails THEN session ELSE NoSession
      BY <2>3, Zenon DEF Logout
    <3>2. PICK reply \in Goodbyes(request) :
            Goto(IF fails \/ Throws(request.conf, "cookieAttrs")
                 THEN HandlerError(request) ELSE Answered(request, reply))
      BY <2>3, Zenon DEF Logout
    <3>3. CASE fails \/ Throws(request.conf, "cookieAttrs")
      <4>1. Goto(HandlerError(request))
        BY <3>2, <3>3
      <4>. QED
        BY <2>1, <3>1, <3>3, <4>1, LogoutFails
    <3>4. CASE ~(fails \/ Throws(request.conf, "cookieAttrs"))
      <4>1. Goto(Answered(request, reply)) /\ session' = NoSession
        BY <3>1, <3>2, <3>4
      <4>. QED
        BY <2>1, <4>1, LogoutSucceeds
    <3>. QED
      BY <3>3, <3>4
  <2>4. CASE ContentCrash \/ NotAllowed
    <3>1. session' = session /\ \E status : request' = Refuse(request, status)
      BY <2>4 DEF ContentCrash, NotAllowed, Goto
    <3>2. request'.reply.kind \in {"none", "bare"}
      BY <2>1, <3>1, RefusedReply
    <3>. QED
      BY <3>1, <3>2 DEF LogoutWhole
  <2>5. CASE Next /\ ~(Logout \/ ContentCrash \/ NotAllowed)
    BY <1>1, <2>2, <2>5
    DEF Next, Authorize, Refresh, Content, AuthCrash, NoSite, AccessByToken, AccessRefresh,
        AccessUnauthenticated, AtIdToken, AtProxy, ProxyByToken, ProxyRefresh,
        ProxyUnauthenticated, TokensReceived, TokensRefused, IdTokenRejected, StoreTokens,
        Serve, ServeFails, Login, Error, AtContent, Arrive, Deliver, SignIn, OPRevoke,
        IdTokenExpires, ZoneTimeout, AnswerExpires, TokensReplayed
  <2>6. CASE UNCHANGED vars
    BY <1>1, <2>6 DEF vars
  <2>. QED
    BY <1>1, <2>3, <2>4, <2>5, <2>6
<1>2. IInv /\ [Next]_vars =>
        [request.phase = "content" /\ request.location = "logout"
           /\ request'.phase = "answered" => LogoutWhole]_vars
  BY <1>1
<1>. QED
  BY <1>2, Invariant, PTL DEF Spec, LogoutIsWhole, LogoutWhole
====
