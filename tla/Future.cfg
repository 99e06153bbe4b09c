\* One thread only fills, one only registers and waits, one does it all.
CONSTANTS
    Threads = {t1, t2, t3}
    Fillers = {t1, t2}
    Converters = {t2}
    Registrars = {t2, t3}
    Callbacks = {c1, c2}
    Values = {v1}
    Failures = {f1}
    None = None
    SpuriousWakeups = FALSE
SPECIFICATION MCSpec
INVARIANTS
    TypeOK
    CompletedHasValue
    CalledOnceWithOutcome
    NoCallbackLost
    NoDanglingWaiter
    WaitAnswersTruly
PROPERTIES
    FilledOnce
    ImplementsContract
    WaitersReleased
