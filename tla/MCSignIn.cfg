SPECIFICATION Spec
CONSTANTS
    a = a
    b = b
    s1 = s1
    s2 = s2
    c1 = c1
    c2 = c2
    d1 = d1
    d2 = d2
    NoSubject = NoSubject
    Emails <- MCEmails
    Identities <- MCIdentities
    AdminCalls = {c1, c2}
    Deliveries = {d1, d2}
    MaxEvents = 1
    MaxMails = 2
SYMMETRY MCSymmetry
INVARIANTS
    AccessIsKept
    MailsMatchEvents
