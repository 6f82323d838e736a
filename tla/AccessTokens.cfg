\* Two proxied requests beside one that verifies, a token of the session and one of another
\* client.
SPECIFICATION Spec
CONSTANTS
    t1 = t1
    other = other
    Tokens = {t1, other}
    Kind <- KindOf
    Proxied = {p1, p2}
    Verified = {v1}
    Lifetime = 4
    ZoneTTL = 2
    TokenCacheTTL = 1
    IntrospectionTTL = 2
    CacheSize = 1
    MaxDelay = 1
    MaxTime = 6
    None = None
SYMMETRY Symmetry
INVARIANTS
    TypeOK
    ProxiedIsAccepted
    AcceptedIsCurrent
    RefusedIsOver
