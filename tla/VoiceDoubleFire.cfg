CONSTANTS
    Tracks = {t1, t2}
    NoTrack = NoTrack
    Handlers = {h1}
    MaxQueue = 1
SPECIFICATION SpecClaims
INVARIANT NoDoubleFire
