SPECIFICATION FairSpec
CONSTANTS
    Users = {u1, u2}
    Posts = {p1}
    Captions = {c1}
    Requests = {r1, r2}
    Isolation = "READ COMMITTED"
    Null = Null
INVARIANT RepeatsSucceed
PROPERTIES
    TakesEffect
    EveryRequestEnds
