CONSTANTS
    Givers = {g1, g2}
    Tasks = {1, 2, 3}
    None = None
    IdleLoops = 2
    Self = Self
    Destroyer = Destroyer
SPECIFICATION MCSpec
INVARIANTS
    ShutdownTypeOK
    TasksInOrder
    NoLostWakeup
    UsageSettles
    MainLockExclusive
PROPERTIES
    EveryTaskRuns
    DestructorGetsOn
