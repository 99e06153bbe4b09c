CONSTANTS
    Clients = {c1, c2}
    Tasks <- MixTasks
    TypeOf <- MixTypes
    RawTag <- MixTags
    PriorityOf <- QueuePriorities
    Tags = {0, 1, 2}
    MaxCapacity = 2
    IntensiveCapacity = 1
    TotalCapacity = 2
    DefaultBoundCapacity = 1
    None = None
    FirstClient = c1
    NewCapacities = {}
    NewBoundCapacities = {}
    NewTagCapacities = {}
    PausableTags = {}
    PreHeats = {}
SPECIFICATION MCQueueSpec
INVARIANTS
    UsageCountsInFlight
    SubpoolsWithinCapacity
    EveryTaskAtOnePlace
    UnboundPoolServed
    BoundTasksOnTheirWorker
    ListsAreTheQueue
PROPERTY
    EveryTaskFinishes
