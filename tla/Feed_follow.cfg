SPECIFICATION Spec
CONSTANTS
    Users = {u1, u2}
    Posts = {p1}
    Captions = {c1}
    Requests = {r1, r2}
    Isolation = "REPEATABLE READ"
    Null = Null
INVARIANT RepeatsSucceed
