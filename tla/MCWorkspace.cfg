SPECIFICATION MCSpec
CONSTANTS
    x1 = x1
    x2 = x2
    x3 = x3
    y1 = y1
    y2 = y2
    z1 = z1
    z2 = z2
    Users = {y1, y2}
    Processes = {z1, z2}
    Requests = {x1, x2}
    NumStarters = 2
    NumEarlier = 1
    MaxDives = 6
    Reports = {y1, y2}
    Visitors = {x1, x2}
    MaxShares = 3
    MaxVisits = 2
    Slots = {x1, x2}
    NoReport = NoReport
    FirstVersion = 2
    MaxVersion = 3
    Callers = {x1, x2, x3}
    Payers = {y1, y2}
    PerPayer = 1
    Overall = 2
    Hour = 1
    MaxTime = 2
SYMMETRY MCSymmetry
INVARIANTS
    WorkspacesAreWhole
    
    HoursAreBounded
    
CHECK_DEADLOCK FALSE
