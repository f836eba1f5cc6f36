\* Two concurrent requests, three in all; three jobs; three processes that start.
SPECIFICATION MCSpec
CONSTANTS
    w1 = w1
    w2 = w2
    o1 = o1
    o2 = o2
    e1 = e1
    e2 = e2
    e3 = e3
    s1 = s1
    s2 = s2
    s3 = s3
    r1 = r1
    r2 = r2
    v1 = v1
    v2 = v2
    v3 = v3
    v4 = v4
    c1 = c1
    c2 = c2
    d1 = d1
    d2 = d2
    a1 = a1
    i1 = i1
    i2 = i2
    i3 = i3
    Job <- MCJob
    JobOrg <- MCOrg
    GateSize = 1
    NoJobOrg = NoJobOrg
    Instance <- MCInstance
    Files = 3
    None = None
    NoOrg = NoOrg
    Worker <- MCWorker
    Org <- MCOrg
    Email <- MCEmail
    Event <- MCEvent
    Show <- MCShow
    Room <- MCRoom
    Version <- MCVersion
    Code <- MCCode
    Digest <- MCDigest
    Asset <- MCAsset
    Needs <- MCNeeds
    Record <- MCRecord
    Moment <- MCMoment
    JoinCodeRetries = 1
    MaxRunsLimit = 2
    MaxRequests = 3
INVARIANTS TypeOK VersionsGapless NumbersReserved PublishedWhole TenantsApart
           OneJobAtWork AppliedOnceInOrder
PROPERTIES ActsAsMemStore RequestEnds JobsEndUnlessHeld
CHECK_DEADLOCK FALSE
