SPECIFICATION RowsSpec
CONSTANTS
    Places <- MCPlaces
    Worlds <- MCWorlds
    Bodies <- MCBodies
    SportGroups <- MCSportGroups
    SportAliases <- MCSportAliases
    Primary = 4
    Foods = 2
    Sights = 2
    MaxCoherent = 6
    MaxAI = 5
    MinTheme = 1
    Unreadable = Unreadable
    Null = Null
    Users = {u1, u2}
    Passports = {b1, b2}
    Requests = {r1, r2}
    Activities = {a1}
    Milestones = {six}
    Required <- OneBadge
    ClaimStatus = {"shipped", "completed"}
    MaxSaves = 2
    CatalogueIds = {1, 2}
    Courses = {c1}
    MaxPlaces = 4
    MaxCatalogueStamps = 3
    Items <- SmallItems
    Patches <- SmallPatches
    Poster = Poster
    other = other
    Explorers = {m1}
    PhotoMissions = {"photo"}
    BadgeMissions = {"badge"}
    MaxStamps = 5
    MaxProofs = 2
SYMMETRY RowsSymmetry
INVARIANTS
    CourseFitsTheDay
    OneMainExperience
    SampleKeepsPurposes
    
    SeededOnce
    

    
    
    
    
CHECK_DEADLOCK FALSE
