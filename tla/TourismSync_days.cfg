SPECIFICATION FairSpec
CONSTANTS
    Places = {p1}
    Festivals = {f1}
    Runs = {run1, run2}
    MaxDay = 4
    Null = Null
INVARIANTS
    CaughtUp
PROPERTY CatchesUp
