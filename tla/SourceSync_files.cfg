SPECIFICATION Live
CONSTANTS
    Lines <- MCLines
    VerifiedNames <- MCVerifiedNames
    Districts <- MCDistricts
    Stampable = {2}
    Order <- MCOrder
    Priority <- MCPriority
    Publishable <- MCPublishable
    Null = Null
PROPERTIES
    
    BeachReturns
