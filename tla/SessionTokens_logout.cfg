\* A logout while a refresh of the same session is in flight.
SPECIFICATION Spec
CONSTANTS
    Sessions = {s1}
    Requests = {q1}
    s1 = s1
    s2 = s2
    alice = alice
    bob = bob
    staff = staff
    Names = {alice, bob, staff}
    User <- UserOf
    Rule <- StaffOnly
    OPs <- Rotating
    Faults = {}
    MaxGen = 1
    NoToken = NoToken
    NoSession = NoSession
CHECK_DEADLOCK FALSE
INVARIANTS
    LogoutSticks
