SPECIFICATION FairSpec
CONSTANTS
    None = None
    r1 = r1
    r2 = r2
    r3 = r3
    j1 = j1
    j2 = j2
    Jobs = {j1, j2}
    Requests = {r1, r2, r3}
    Large = {r2}
    MaxChildren = 2
    JobOf <- MCJobOf
INVARIANTS TypeOK OneChild NoLostSegment NothingLeftBehind OutputIsOwn AcceptedCancelEndsRequest
PROPERTY CallsReturn
