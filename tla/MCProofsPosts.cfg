SPECIFICATION SidesSpec
CONSTANTS
    none = none
    None = none
    s1 = s1
    s2 = s2
    SportAliases <- TallyAliases
    OlympicLabels <- TallyOlympic
    VerifiedMissions <- TallyVerified
    SpecialMissions <- TallySpecial
    Facts <- TallyFacts
    Passports = {p1}
    Courses = {"c1"}
    StampsOf <- PairStamps
    CourseFacts <- PairFacts
    Badges = {"first_snow"}
    Tries = {t1}
    MaxEdits = 3
    Requests = {r1, r2}
    Isolation = "REPEATABLE READ"
    Null = Null
    Users = {u1}
    Posts = {post1}
    Captions = {c1, c2}
    FeedRequests = {q1, q2, q3}
SYMMETRY SidesSymmetry
INVARIANTS
    ApprovedIsCollected
    NoLostBadge
    NoUnearnedBadge
    PrivateUnread
    LoopMatchesDefinition
PROPERTIES
    ReviewedOnce
    DeletedForGood
    CertificationApart
    RulesNeverLost
CHECK_DEADLOCK FALSE
