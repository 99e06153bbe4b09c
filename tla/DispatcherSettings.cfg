CONSTANTS
    Clients = {c1, c2}
    Tasks <- SetTasks
    TypeOf <- SetTypes
    RawTag <- SetTags
    PriorityOf <- SetPriorities
    Tags = {0, 1}
    MaxCapacity = 2
    IntensiveCapacity = 1
    TotalCapacity = 2
    DefaultBoundCapacity = 1
    None = None
    NewCapacities = {1, 2}
    NewBoundCapacities = {0, 2}
    NewTagCapacities <- SetCapacities
    PausableTags = {1}
    PreHeats = {0, 2}
SPECIFICATION Spec
SYMMETRY Symmetry
INVARIANTS
    TypeOK
    BindingsConsistent
    WorkersWithinCapacity
    LoopWorkerStaysFree
PROPERTY
    CustomTagsRespected
