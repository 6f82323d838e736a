\* auth-access.conf included in the server context.
SPECIFICATION Spec
CONSTANTS
    alice = alice
    staff = staff
    Names = {alice, staff}
    Locations <- OneOpen
    Snippet <- NoSnippet
    ServerSnippet = "auth-access"
    User <- Alice
    Rule <- RuleOfSite
    Configs <- OnlyRight
    Templates = {}
    Unreadable = {}
INVARIANTS
    UnauthenticatedReachLogin
