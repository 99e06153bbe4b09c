CONSTANTS
    Threads <- MCThreads
    Workers <- MCWorkers
    Atoms <- MCAtoms
    Futures <- MCFutures
    Programs <- LeakPrograms
    main = main
    other = other
    w1 = w1
    w2 = w2
    w3 = w3
    p1 = p1
    p2 = p2
    s1 = s1
    r1 = r1
    r2 = r2
    r3 = r3
    r4 = r4
    r5 = r5
    r6 = r6
    v1 = v1
    v2 = v2
    v3 = v3
    v4 = v4
    e1 = e1
    e2 = e2
    e3 = e3
    Default = Default
    Exception = Exception
    Rejected = Rejected
    Canceled = Canceled
    Continue = Continue
    TrampolinedContinue = TrampolinedContinue
    SubPoolCapacity = 3
SPECIFICATION MCSpec
INVARIANTS
    EachFromItsOwn
