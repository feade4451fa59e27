\* Two stanzas of any kind and one heartbeat; two events may be on their way, so
\* that a run can start and settle before the loop sees either.
\* The system really may stop: everything sent has been handled.
CONSTANTS
    Stanza = {"user", "reaction", "abort", "interrupt"}
    Work = {"text", "credit", "unknown_handle"}
    MaxInbound = 2
    MaxAlarms = 1
    EventCap = 2
SPECIFICATION Spec
PROPERTIES UserRunIsJudged
CHECK_DEADLOCK FALSE
