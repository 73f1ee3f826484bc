CONSTANTS
    Requests = {r1, r2}
    ChannelCap = 1
    MaxStarts = 2
SPECIFICATION FairSpec
CHECK_DEADLOCK FALSE
INVARIANTS TypeOK NoOrphanedWaiter NonceTracksNode ReplyTruthful
PROPERTIES StaleNonceIssuesNothing EveryRequestEnds
