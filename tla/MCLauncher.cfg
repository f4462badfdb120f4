SPECIFICATION FairSpec
CHECK_DEADLOCK FALSE
INVARIANT TypeOK
INVARIANT LaunchIsHeld
INVARIANT StaleIsPlayable
INVARIANT BuildersNeverOverlap
PROPERTY InputNeverBlack
PROPERTY RevealComes
PROPERTY RefreshConcludes
PROPERTY LaunchEnds
