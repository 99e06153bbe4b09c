CONSTANTS
    Clients = {c1}
    Tasks <- SetTasks
    TypeOf <- SetTypes
    RawTag <- SetTags
    PriorityOf <- SetPriorities
    Tags = {0, 1}
    MaxCapacity = 2
    IntensiveCapacity = 2
    TotalCapacity = 2
    DefaultBoundCapacity = 1
    None = None
    NewCapacities = {}
    NewBoundCapacities = {}
    NewTagCapacities = {}
    PausableTags = {1}
    PreHeats = {}
SPECIFICATION MCSpec
INVARIANT
    NoRunnableTaskLeft
