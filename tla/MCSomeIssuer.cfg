CONSTANTS
    Requests = {r1, r2, r3}
    Users = {alice, bob}
    ChannelCap = 1
    MaxStarts = 1
    MaxQueueSize = 2
    Multiplicity = 1
SPECIFICATION Spec
SYMMETRY Symmetry
CHECK_DEADLOCK FALSE
INVARIANTS TypeOK NoOrphanedWaiter NonceTracksNode AtMostOneUnacknowledged ReplyTruthful RateLimitOnChain
