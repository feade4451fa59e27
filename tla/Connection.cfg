\* Three connections, two occasions to announce something and two faults: a change
\* on each side of a reconnect, a writer that outlives its connection, and a room
\* that drops the bridge on a connection that then fails.
\* The system really may stop: nothing is left to announce or to repair.
CONSTANTS
    MaxConn = 3
    MaxChange = 2
    MaxFaults = 2
SPECIFICATION Spec
INVARIANTS TypeOK ShownIsHeld HeldIsTrue ProperJoin
PROPERTIES  Repaired
CHECK_DEADLOCK FALSE
