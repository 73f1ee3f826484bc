CONSTANTS
    Users = {alice, bob, carol, dave}
    MaxQueueSize = 4
    Multiplicity = 2
SPECIFICATION LimiterSpec
INVARIANTS LimiterTypeOK MappingCountsQueue LimitRespected
PROPERTY ImplementsSlidingWindow
