SPECIFICATION FairSpec
CONSTANTS
    Mailboxes = {m1, m2}
    NoMailbox = none
    Retries = 2
    BusyRetries = 2
    MaxLosses = 4
CHECK_DEADLOCK TRUE
INVARIANTS
    TypeOK
    RightMailbox
PROPERTIES
    ImplementsMailTransport
    CallsEnd
