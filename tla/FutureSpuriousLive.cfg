\* The system stops: that is the violation this run shows.
CONSTANTS
    Threads = {t1, t2}
    Fillers = {t1, t2}
    Converters = {t1, t2}
    Registrars = {t1, t2}
    Callbacks = {c1}
    Values = {v1}
    Failures = {f1}
    None = None
    SpuriousWakeups = TRUE
CHECK_DEADLOCK FALSE
SPECIFICATION MCSpec
PROPERTY
    WaitersReleased
