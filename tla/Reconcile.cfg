\* Two jobs, which compete for the shared lock, and one fault anywhere: a stop of
\* the bridge, a death of or a signal to a runner, or a lost connection.
\* The system really may stop: every job has been reported.
SPECIFICATION FairSpec
CONSTANTS
    Job = {j1, j2}
    NoJob = NoJob
    MaxFaults = 1
INVARIANTS
    
    OnlyAuthorizedWork
    
    

    
CHECK_DEADLOCK FALSE
