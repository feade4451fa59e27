\* The stanzas and the work that make the bridge prompt pi on its own account,
\* and the abort that keeps it from doing so.
\* The system really may stop: everything sent has been handled.
CONSTANTS
    Stanza = {"user", "interrupt"}
    Work = {"tool", "unknown_handle"}
    MaxInbound = 2
    MaxAlarms = 1
    EventCap = 1
SPECIFICATION FairSpec
PROPERTIES EventuallyQuiet HeartbeatDelivered
CHECK_DEADLOCK FALSE
