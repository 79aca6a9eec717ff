SPECIFICATION FairSpec
CONSTANTS
    None = None
    Requests = {r1, r2, r3}
    MaxConcurrent = 2
    Wait = 1
    Recheck = 2
    Timeout = 1
INVARIANTS TypeOK SlotsAddUp
PROPERTIES MoveIsNoticed RequestsEnd
