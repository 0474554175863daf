\* Three addresses, three providers added and one foreground task.
CONSTANTS
    NoProvider = NoProvider
    Providers = {p1, p2, p3}
    MaxAdded = 3
    MaxTasks = 1
SPECIFICATION FairSpec
INVARIANTS
    TypeOK
    CurrentIsOpen
    PendingAreOpen
    RemovedOnce
    PendingWhileAsked
PROPERTY RemovedIsDestroyed
CHECK_DEADLOCK FALSE
