CONSTANTS
    Givers = {g1}
    Tasks = {k1}
    None = None
    IdleLoops = 2
    Self = Self
    Destroyer = Destroyer
SPECIFICATION MCSpec
PROPERTY
    DestructorReturns
