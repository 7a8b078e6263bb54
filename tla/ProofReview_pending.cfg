SPECIFICATION Spec
CONSTANTS
    none = none
    None = none
    s1 = s1
    s2 = s2
    SportAliases <- Aliases
    OlympicLabels <- Olympic
    VerifiedMissions <- NoVerified
    SpecialMissions <- NoSpecial
    Passports = {p1}
    Courses = {"c1"}
    StampsOf <- SingleStamps
    CourseFacts <- SingleFacts
    Badges = {"first_snow"}
    Tries = {t1, t2}
    MaxEdits = 0
    Requests = {r1, r2}
    Isolation = "REPEATABLE READ"
    Null = Null
INVARIANT OnePendingProof
