\* Providers are opened, selected and closed without tasks in between.
CONSTANTS
    NoProvider = NoProvider
    Providers = {p1, p2, p3}
    MaxAdded = 3
    MaxTasks = 0
SPECIFICATION Spec
SYMMETRY Symmetry
INVARIANT ListenersKnowCurrent
CHECK_DEADLOCK FALSE
