\* Two workers, two tasks and a callback that creates a third.
CONSTANTS
    NoTask = NoTask
    NoWorker = NoWorker
    Workers = {w1, w2}
    Tasks = {t1, t2}
    Callbacks = {f1}
SPECIFICATION FairSpec
INVARIANTS
    TypeOK
    NoLostWakeup
    OneOwner
    NoTaskUnlisted
    CallbackAfterTasks
PROPERTIES
    ImplementsLife
    ExitTerminates
    CallbacksAreCalled
CHECK_DEADLOCK FALSE
