\* Requests for locations with every snippet, under configurations with up to two
\* mistakes.
SPECIFICATION Spec
CONSTANTS
    alice = alice
    staff = staff
    Names = {alice, staff}
    Locations <- Site
    Snippet <- SiteSnippet
    ServerSnippet = "none"
    User <- Alice
    Rule <- RuleOfSite
    Configs <- TwoSettings
    Templates = {404, 5}
    Unreadable = {5}
INVARIANTS
    TypeOK
    FailClosed
    ErrorReachesClient
    UnauthenticatedReachLogin
PROPERTIES
    
    LogoutIsWhole
    RequestsAnswered
