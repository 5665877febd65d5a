SPECIFICATION FairSpec
CONSTANTS
    Publishers = {p1}
    MaxParks = 2
    MaxMounts = 3
    MaxRevision = 12
    MaxGrant = 2
    MaxFaults = 2
CHECK_DEADLOCK FALSE
INVARIANT ReleasedIsOffNode
INVARIANT GrantIsClaimed
INVARIANT OneRuntime
INVARIANT RunningIsMounted
INVARIANT LimitWithinClaim
 
PROPERTY NeverResumed
PROPERTY Settles
