SPECIFICATION Spec
CONSTANTS
    Publishers = {p1}
    MaxParks = 2
    MaxMounts = 3
    MaxRevision = 12
    MaxGrant = 2
    MaxFaults = 2
CHECK_DEADLOCK FALSE
INVARIANT PublishedIsWhole
