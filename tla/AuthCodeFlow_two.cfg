\* Two browsers, three requests (say a login and two callbacks, or two logins and a
\* callback), two codes, and a store that may lose what it holds.
SPECIFICATION Spec
CONSTANTS
    Browsers = {b1, b2}
    RequestIds = {r1, r2, r3}
    Codes = {c1, c2}
    Urls = {root, page}
    Root = root
    OPErrors = {"access_denied"}
    Evictable = {r1, r2, r3}
    StateTTL = 0
    MaxTime = 0
    None = None
    Keep = Keep
SYMMETRY Symmetry
CHECK_DEADLOCK FALSE
INVARIANTS
    TypeOK
    SingleUse
    RedeemsOwnCode
    SessionFromOwnLogin
    SessionIffSignedIn
PROPERTIES
    ImplementsLoginAttempts
