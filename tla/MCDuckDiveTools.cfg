SPECIFICATION Spec
CONSTANTS
    c1 = c1
    c2 = c2
    c3 = c3
    c4 = c4
    c5 = c5
    NoCall = NoCall
    Calls <- MCCalls
    MaxSteps = 3
    MaxPerTool = 2
SYMMETRY MCSymmetry
INVARIANTS
    AttemptsShareStep
    
    FiledPlanAuthorizedEdit
PROPERTIES
    PlanIsFinal
CHECK_DEADLOCK FALSE
