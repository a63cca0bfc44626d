SPECIFICATION Spec
CONSTANTS
    r1 = r1
    r2 = r2
    w1 = w1
    w2 = w2
    source = source
    respaced = respaced
    edited = edited
    Runs = {r1, r2}
    Writers = {w1}
    Content <- MCContent
    Hash <- MCHash
    Starter = source
    MaxVersion = 4
    MaxDuration = 1
    StaleAfter = 1
SYMMETRY MCSymmetry
INVARIANTS
    AtMostOneRunning
    VerifiedEditIsRecorded
    
    ReportNamesItsRun
PROPERTIES
    SweepSparesLiveRuns
    ClosedRunsStayClosed
CHECK_DEADLOCK FALSE
