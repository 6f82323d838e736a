\* Three requests that race for the tokens of one session, with an OP that retires
\* used refresh tokens, and with slow ones that lose answers but do not.
SPECIFICATION Spec
CONSTANTS
    Sessions = {s1}
    Requests = {q1, q2, q3}
    s1 = s1
    s2 = s2
    alice = alice
    bob = bob
    staff = staff
    Names = {alice, bob, staff}
    User <- UserOf
    Rule <- StaffOnly
    OPs <- Racing
    Faults = {"outage"}
    MaxGen = 2
    NoToken = NoToken
    NoSession = NoSession
CHECK_DEADLOCK FALSE
INVARIANTS
    TypeOK
    SessionSurvives
    TokensOfOneSet
    QuietLogoutSticks
PROPERTIES
    RequestsAnswered
