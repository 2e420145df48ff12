SPECIFICATION DiscoverySpec
CONSTANTS
    p1 = p1
    p2 = p2
    Providers <- TwoProviders
    MaxStarts <- TwoAndOne
    Values <- SomeValues
    MaxPuts = 1
INVARIANT ListedOnceUpToDate
PROPERTY AnnouncedIsFound
PROPERTY UsesManager
CHECK_DEADLOCK FALSE
