SPECIFICATION Spec
CONSTANTS
    Users = {u1, u2, u3}
    Holders = {u1}
    Numbers = {n1}
    NoNumber = none
    Requests = {r1, r2}
    Handlers = {h1, h2}
    Clients = {c1}
    Scopes = {"read", "delete"}
    Grantable = {"read", "delete"}
    Destructive = {"delete"}
    MaxAttempts = 1
    Enforced = TRUE
    Username <- MCUsername
    Email <- MCEmail
    Lower <- MCLower
    MaxIds = 3
    MaxSaved = 3
    Scenarios <- MCScenarios
    u1 = u1
    u2 = u2
    u3 = u3
    n1 = n1
    c1 = c1
SYMMETRY Symmetry
CHECK_DEADLOCK FALSE
INVARIANTS
    CodesHonest
    AddressProven
    ConsentHonoured
    AccessEnds
