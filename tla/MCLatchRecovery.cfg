CONSTANTS
    MaxRetries = 4
    Delay <- RetryDelays
SPECIFICATION Spec
INVARIANTS TypeOK FrozenIsCovered RequestNotSwallowed
PROPERTY RecoversOrEscalates
