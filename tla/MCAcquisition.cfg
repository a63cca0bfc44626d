SPECIFICATION MCSpec
CONSTANTS
    Listings <- MCTwoListings
    OutOfScope <- MCNone
    NoResult = NoResult
    PageSize = 1
    PageLimit = 2
    MaxAttempts = 2
    MaxChanges = 1
    Faulty <- MCFaultyEverywhere
    MaxDuplicateHits = 1
    DuplicateRate = 3
    Stock <- MCFourListings
    Nameless <- MCLastNameless
    PerPage = 2
    PageLimits <- MCLimits
    Tries = 2
    MaxTurns = 2
    p1 = p1
    p2 = p2
    Replays = {r1}
    Publishers = {p1, p2}
    Versions <- MCVersions
    Local <- MCLocal
    Publishable <- MCPublishable
    None = None
    MaxStagings = 3
SYMMETRY MCSymmetry
INVARIANTS
    ExportIsTruthful
    PublicationIsSingle
PROPERTY
    MCReadingEnds
CHECK_DEADLOCK FALSE
