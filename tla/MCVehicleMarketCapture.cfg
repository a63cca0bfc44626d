SPECIFICATION Spec
CONSTANTS
    Listings <- MCFourListings
    OutOfScope <- MCLastOutOfScope
    NoResult = NoResult
    PageSize = 1
    PageLimit = 3
    MaxAttempts = 2
    MaxChanges = 2
    Faulty <- MCFaulty
    MaxDuplicateHits = 1
    DuplicateRate = 3
INVARIANTS
    CompleteIsExact
    StableSourceStaysValid
    ComparableIsEnumerated
    PoliciesAgree
CHECK_DEADLOCK FALSE
