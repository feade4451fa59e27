\* One prompt and one bare command whose stanza has no id, so that every step of every party occurs.
\* The system really may stop: everything sent has been handled.
CONSTANTS
    p1 = p1  p2 = p2  c1 = c1
    NoMsg = NoMsg
    Msg = {p1, c1}
    Anonymous = {c1}
    Command = {c1}
    Abort = {c1}
    Bare = {c1}
    InboxCap = 2
    EventCap = 3
    MaxStops = 1
SPECIFICATION FairSpec
INVARIANTS TypeOK DeliveryInv NoStrandedEntry
PROPERTIES UnhandedOnlyAges EventuallyAcknowledged 
CHECK_DEADLOCK FALSE
