CONSTANTS
    Requests = {r1, r2}
    Users = {alice}
    ChannelCap = 1
    MaxStarts = 2
    MaxQueueSize = 2
    Multiplicity = 2
SPECIFICATION FairSpec
CHECK_DEADLOCK FALSE
INVARIANT NonceTracksNode
PROPERTIES EveryRequestEnds WorkerEndStopsProcess
