\* Two stanzas or recovered messages and one heartbeat: a transition and work of
\* either kind meet.  The system may stop: everything sent has been handled.
SPECIFICATION FairSpec
CONSTANTS
    Live = {"message", "new", "next"}
    Recovered = {"message"}
    MaxStanzas = 2
    MaxBeats = 1
    PipeCap = 0
INVARIANTS TypeOK  ContractKept SavedIsCurrent
PROPERTY LockIsReleased
CHECK_DEADLOCK FALSE
