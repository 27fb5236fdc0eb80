CONSTANTS
    Tracks = {t1, t2}
    NoTrack = NoTrack
    Handlers = {h1}
    MaxQueue = 0
SPECIFICATION FairSpec
INVARIANT TypeOK
INVARIANT AttemptsBounded
INVARIANT HeartbeatNeedsTwoSamples
PROPERTY SilenceEnds
