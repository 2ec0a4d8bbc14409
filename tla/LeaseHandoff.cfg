\* One candidate finds the lease just released.
CONSTANTS
    Pod <- TwoPods
    Nobody = Nobody
    Slot = {1}
    LeaseDuration = 1
    Drift <- FastB
    DriftBound = 1
    MaxTime = 2
    MaxVersion = 3
SPECIFICATION LeaseSpec
PROPERTIES HandoffWithinTick
