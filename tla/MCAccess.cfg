SPECIFICATION AccessSpec
CONSTANTS
    Members = {m1, m2, m3}
    Emails = {e1, e2}
    Names = {n1, n2}
    Requests = {r1, r2}
    Kakao = {k1}
    Google = {g1}
    Isolations = {"REPEATABLE READ", "READ COMMITTED"}
    ResetRequests = {q1, q2, q3}
    MaxCodes = 4
    Browsers = {b1, b2}
    LoginCodes = {1, 2, 3}
    OTP_EXPIRES_IN = 3
    OTP_MAX_ATTEMPTS = 2
    Keys = {c1, c2, c3}
    limit = 3
    window = 3
    capacity = 2
    p1 = p1
    p2 = p2
    Spots = {p1, p2}
    Cell <- OneCell
    BaseHours = {2, 5, 8, 11, 14, 17, 20, 23}
    Starts = {1560, 2810}
    Minutes = 60
    Step = 5
    MaxFallbacks = 1
    Null = Null
SYMMETRY Symmetry
INVARIANTS
    
    OneValidCode
    WindowBound
    ForecastIsCurrent
PROPERTIES
    IdentityKept
    EstablishedEmailKept
    DeliveredKept
    OneLoginPerCode
    NobodyStarved
