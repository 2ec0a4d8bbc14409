\* Two pods whose clocks differ, one attempt each beside a release.
CONSTANTS
    Pod <- TwoPods
    Nobody = Nobody
    Slot = {1}
    LeaseDuration = 1
    Drift <- FastB
    DriftBound = 1
    MaxTime = 3
    MaxVersion = 3
SPECIFICATION LeaseSpec
INVARIANTS LeaseTypeOK StaleLeaderIsCutOff
PROPERTIES TakeoverOnlyExpired
