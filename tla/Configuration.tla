---- MODULE Configuration ----
(***************************************************************************)
(* Reading the configuration from nginx variables (config-reader.ts, with  *)
(* the options of config.ts).  Nothing is read before a handler asks for   *)
(* it: a mistake shows up where the option is used, possibly after the     *)
(* handler has changed something, and the caller sees a plain Error, not   *)
(* an HttpError.                                                           *)
(*                                                                         *)
(* A variable is "unset" (or empty), "right", or "wrong": set to a value   *)
(* that its parser refuses, or that does not fit the OP and its tokens.    *)
(***************************************************************************)

\* Without a default: "the ConfigReader will throw".
Required == {"issuer", "authorizationEndpoint", "clientId", "clientSecret"}

\* With a default, and (parseCookieAttrs, parseLogLevel) a parser that may throw.
Parsed == {"cookieAttrs", "logLevel"}
Defaulted == {"claimUsername", "endSessionEndpoint", "postLogoutRedirectUri",
              "errorPagesDir"} \cup Parsed

Options == Required \cup Defaulted
Configurations == [Options -> {"unset", "right", "wrong"}]

\* The getter of an option throws, at each use.
Throws(conf, option) ==
    \/ option \in Required /\ conf[option] = "unset"
    \/ option \in Parsed /\ conf[option] = "wrong"

\* A truthy value: the options not in the list above default to ''.
IsSet(conf, option) == conf[option] # "unset"

====
