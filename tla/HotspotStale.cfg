SPECIFICATION HotspotSpec
CONSTANTS
    MaxSession = 2
    MaxEpoch = 2
INVARIANT VerdictIsNotStale
