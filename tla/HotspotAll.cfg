SPECIFICATION MCHotspotSpec
CONSTANTS
    MaxSession = 2
    MaxEpoch = 2
    AllowLeave = TRUE
INVARIANTS HotspotTypeOK OursIsOwned ReadinessIsCurrent AwaitsCanEnd
           NothingIsLeftOn QuitCanGoOn
PROPERTIES NeverStopsForeign ImplementsAuthority TransitionsSettle
           VerificationLands DecisionEnds
