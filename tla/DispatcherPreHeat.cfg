CONSTANTS
    Clients = {c1, c2}
    Tasks <- SetTasks
    TypeOf <- SetTypes
    RawTag <- SetTags
    PriorityOf <- SetPriorities
    Tags = {0, 1}
    MaxCapacity = 2
    IntensiveCapacity = 1
    TotalCapacity = 2
    DefaultBoundCapacity = 1
    None = None
    NewCapacities = {1}
    NewBoundCapacities = {}
    NewTagCapacities = {}
    PausableTags = {}
    PreHeats = {2}
SPECIFICATION FairSpec
PROPERTY
    MainLockReleased
