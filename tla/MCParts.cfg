\* The components that stand alone, one behaviour each.
SPECIFICATION MCSpec
CONSTANTS
    MaxNow = 7
    Caller = {k1, k2}
    Token = {t1, t2}
    AdminToken = admin
    SessionCacheTTL = 1
    CacheLimit = 0
    Proc = {p1, p2}
    PresenceInterval = 1
    PresenceStale = 3
    MaxDelay = 1
    Losses = 1
    Member = {m1, m2}
    RoundTrips = {5, 100}
    StaleAfter = 1
    Lt10 = 10
    Lt30 = 30
    Lt100 = 100
    Latency = {0, 1, 20}
    Theta <- MCTheta
    Holding = {2}
    RTTBandMs = 2
    MaxSamples = 3
    Plan <- MCPlan
    Ref <- MCRef
    Typed <- MCTyped
    MaxVenueBlocks = 2
    MaxVenueSeats = 30
    MaxLandmark = 2000
    IntLimit = 32768
    Show <- MCShow
    Seat <- MCSeat
    Level = {7, 9, 255}
    MaxFlashHz = 3
    MinEffectPeriod = 4
    Second = 12
    MaxPalette = 16
    MaxBitmapRows = 64
    MaxBitmapCols = 256
    MaxFilter = 64
    FormatVersion = 1
    MaxSequences = 200
    MaxLines = 2000
    MaxCues = 2
    MaxDuration = 20
    MaxSince = 26
    Payload <- MCPayload
    NearDamage <- MCNearDamage
    FarDamage <- MCFarDamage
    Weak <- MCWeak
    Score = {30, 40, 50}
    Threshold = 35
    Recorded = 2
    Peaks = 3
    MaxDetections = 2
    Samples = 2
    Pause = 1
    Timeout = 1
    Resync = 3
    Retry = 1
    Fresh = 4
    Rtt <- MCRtt
    Margin = 10
    Poor = 25
    MaxAttempt = 2
    Delay <- MCDelay
    MaxTime = 10
INVARIANTS
    TypeOK OneTimer OwnSamples RoundEnds OffsetAge
    AdmitsOnlyCurrent PresenceHonest ClockStatsHonest
    OffsetWithinHalfRtt SeatsSurvive ShowSafe DetectedAsSent
CHECK_DEADLOCK FALSE
