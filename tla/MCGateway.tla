---- MODULE MCGateway ----
(***************************************************************************)
(* Model-checking instances of Gateway.                                    *)
(***************************************************************************)
EXTENDS Gateway

CONSTANTS alice, staff

Site == {"members", "staff", "everyone", "site", "api", "open"}
SiteSnippet == [location \in Site |->
    CASE location = "api" -> "auth-proxy"
      [] location = "site" -> "auth-pages"
      [] location = "open" -> "none"
      [] OTHER -> "auth-access"]
OneOpen == {"open"}
NoSnippet == [location \in OneOpen |-> "none"]

Everyone == {"everyone"}
RuleOfSite == [location \in Locations |->
    CASE location = "everyone" -> [allow |-> {"ANONYMOUS"}, deny |-> {}]
      [] location = "staff" -> [allow |-> {staff}, deny |-> {}]
      [] OTHER -> [allow |-> {"AUTHENTICATED"}, deny |-> {}]]
Alice == [username |-> alice, roles |-> {}]

\* Everything set as it should be, what is optional not at all.
Right == [option \in Options |-> IF option \in Required THEN "right" ELSE "unset"]

\* Up to two things different: a required variable left out, a value that is wrong,
\* an optional one set.
Settings ==
    {<<option, "unset">> : option \in Required}
      \cup {<<option, "wrong">> : option \in {"issuer", "clientId", "clientSecret",
                                             "claimUsername", "cookieAttrs", "logLevel"}}
      \cup {<<option, "right">> : option \in {"endSessionEndpoint", "postLogoutRedirectUri",
                                             "errorPagesDir"}}
TwoSettings == {[Right EXCEPT ![a[1]] = a[2], ![b[1]] = b[2]] : a, b \in Settings}
OnlyRight == {Right}

\* At most one thing different, with and without error page templates.
WithTemplates == [Right EXCEPT !["errorPagesDir"] = "right"]
OneSetting == {Right} \cup {[conf EXCEPT ![a[1]] = a[2]] : conf \in {Right, WithTemplates},
                                                       a \in Settings}
====
