\* Two sessions, ID tokens that do not validate or expire while cached, and an OP that
\* is slow, loses answers, and retires used refresh tokens all the same, or revokes them.
SPECIFICATION Spec
CONSTANTS
    Sessions = {s1, s2}
    Requests = {q1, q2}
    s1 = s1
    s2 = s2
    alice = alice
    bob = bob
    staff = staff
    Names = {alice, bob, staff}
    User <- UserOf
    Rule <- AnyoneButBob
    OPs <- Unreliable
    Faults = {"short_lived", "bad_token"}
    MaxGen = 1
    NoToken = NoToken
    NoSession = NoSession
CHECK_DEADLOCK FALSE
SYMMETRY Symmetry
INVARIANTS
    NoCrossSession
PROPERTIES
    GrantedOnFreshToken
    DeadTokenMeansLogin
