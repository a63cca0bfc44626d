SPECIFICATION Spec
CONSTANTS
    a1 = a1
    a2 = a2
    b1 = b1
    b2 = b2
    b3 = b3
    q1 = q1
    q2 = q2
    Activators <- MCActivators
    Binders <- MCBinders
    Queries <- MCQueries
    MaxDrafts = 2
SYMMETRY MCSymmetry
INVARIANTS
    LifecycleFollowsBinding
    ReadyIsReconciled
    RecordsAgree
PROPERTIES
    TerminalStatesHold
CHECK_DEADLOCK FALSE
