CONSTANTS
    Tracks = {t1, t2, t3}
    NoTrack = NoTrack
    Handlers = {}
    MaxQueue = 1
SPECIFICATION Spec
PROPERTY OneRetryThenSkip
