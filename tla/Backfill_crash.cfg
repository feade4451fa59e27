\* An account without rooms: two messages, two faults (a lost connection, a failed
\* join, a refused query, a stop or a crash) and one tick of the clock; two gap
\* recoveries, so that one can wait for the other.
\* The system really may stop: everything sent has been handled.
CONSTANTS
    d1 = d1  d2 = d2  g1 = g1  g2 = g2
    Direct = {d1, d2}
    Room = {}
    Own = {}
    Scopes <- OwnerArchive
    Gap = {g1, g2}
    PageMax = 1
    Slack = 1
    Fresh = 0
    Reach = 1
    MaxTime = 1
    MaxFaults = 2
SYMMETRY Symmetry
SPECIFICATION Spec
INVARIANT CrashRefetches
CHECK_DEADLOCK FALSE
