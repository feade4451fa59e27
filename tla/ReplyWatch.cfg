\* One conversation, two watched messages and two stanzas, three of the four
\* together: a reply before, between and after two watches, and a command that
\* waits for pi against either.  The channels hold one line each, so they fill up.
\* The system really may stop: the bridge has ended, or everything sent was handled.
SPECIFICATION FairSpec
CONSTANTS
    r1 = r1  r2 = r2
    Nothing = Nothing
    Request = {r1, r2}
    Event = {"accepted", "rejected", "agent_start", "agent_settled", "dm"}
    Command = {"prompt", "steer", "abort"}
    EventCap = 1
    PipeCap = 1
    Conv = {"dm"}
    Inbound = {"reply", "prompt", "ask", "new", "quit"}
    MaxInbound = 2
    MaxSends = 2
    MaxStimuli = 3
INVARIANTS TypeOK  StoppedForGood
PROPERTIES NudgesAreTrue  
CHECK_DEADLOCK FALSE
