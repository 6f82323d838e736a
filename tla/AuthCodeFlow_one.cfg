\* One browser, a clock, other error answers of the OP, and a store that may
\* lose one login: no late redemption, no other state lost, and every consumed login is
\* answered.
SPECIFICATION Spec
CONSTANTS
    Browsers = {b1}
    RequestIds = {r1, r2, r3}
    Codes = {c1}
    Urls = {root}
    Root = root
    OPErrors = {"server_error", "invalid_scope"}
    Evictable = {r1}
    StateTTL = 1
    MaxTime = 2
    None = None
    Keep = Keep
CHECK_DEADLOCK FALSE
INVARIANTS
    StateKeptUntilUsed
PROPERTIES
    NoLateRedemption
    ConsumedIsAnswered
