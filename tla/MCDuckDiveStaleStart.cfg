SPECIFICATION Spec
CONSTANTS
    r1 = r1
    r2 = r2
    w1 = w1
    w2 = w2
    source = source
    respaced = respaced
    edited = edited
    Runs = {r1}
    Writers = {w1}
    Content <- MCContent
    Hash <- MCHash
    Starter = source
    MaxVersion = 3
    MaxDuration = 1
    StaleAfter = 1
CHECK_DEADLOCK FALSE
PROPERTY RunStartsAtCurrentVersion
