\* Every payload over two issuers and two clients, for three seconds.
SPECIFICATION Spec
CONSTANTS
    Issuers = {op, foreign}
    Issuer = op
    Clients = {us, them}
    ClientId = us
    UseRoles = TRUE
    MaxTime = 2
    Missing = Missing
    Other = Other
CHECK_DEADLOCK FALSE
INVARIANTS
    AcceptedIsSound
    RefusedIsComplete
PROPERTIES
    OnlyExpires
