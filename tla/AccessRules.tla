---- MODULE AccessRules ----
(***************************************************************************)
(* Who may see a page: the decision of access.ts.  A rule has a list of    *)
(* names to allow and one to deny, each a user name, a role or one of the  *)
(* two basic roles; only membership matters, so the lists are sets.  The   *)
(* shortcut for the default list (allow === ALLOW_AUTHENTICATED) decides   *)
(* what the lookup decides, and is part of it here.                        *)
(***************************************************************************)

BasicRoles == {"ANONYMOUS", "AUTHENTICATED"}

AccessRule(names) == [allow : SUBSET (names \cup BasicRoles),
                      deny : SUBSET (names \cup BasicRoles)]
Principal(names) == [username : names, roles : SUBSET names]

\* The names the lists are searched for.
Identities(principal) == {principal.username} \cup principal.roles

IsAllowed(principal, rule) ==
    /\ Identities(principal) \cap rule.deny = {}
    /\ \/ BasicRoles \cap rule.allow # {}
       \/ Identities(principal) \cap rule.allow # {}

IsAnonymousAllowed(rule) ==
    "ANONYMOUS" \in rule.allow /\ "ANONYMOUS" \notin rule.deny

====
