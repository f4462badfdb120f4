CONSTANTS
    Prefetchers = {p}
    Streams = {s}
    Scopes = {c}
    Foregrounds = {f}
    Nobody = Nobody
    MaxDeferral = 2
    FairnessYieldLimit = 1
SPECIFICATION Spec
INVARIANTS TypeOK NoLostWakeup
PROPERTY NotStarved
