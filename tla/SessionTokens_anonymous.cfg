\* A page for anyone, an expired ID token and an OP out of order.
SPECIFICATION Spec
CONSTANTS
    Sessions = {s1}
    Requests = {q1}
    s1 = s1
    s2 = s2
    alice = alice
    bob = bob
    staff = staff
    Names = {alice, bob, staff}
    User <- UserOf
    Rule <- AnyoneButBob
    OPs <- Rotating
    Faults = {"outage"}
    MaxGen = 1
    NoToken = NoToken
    NoSession = NoSession
CHECK_DEADLOCK FALSE
INVARIANTS
    AnonymousPagesOpen
