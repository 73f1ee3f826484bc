CONSTANTS
    Submissions = {q1}
    Lookups = {}
    alice = alice
    bob = bob
    c1 = c1
    c2 = c2
    c3 = c3
    Ids = {alice, bob}
    Creds = {c1, c2, c3}
    Requests <- MCRequests
    MaxMinutes = 0
    TicksPerMinute = 2
    MaxTime = 2
    MaxEnded = 1
SPECIFICATION MCSpec
CHECK_DEADLOCK FALSE
INVARIANT NamesExact
