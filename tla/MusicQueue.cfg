CONSTANTS
    Commands = {c1, c2}
    PlaylistCap = 2
    MaxTracks = 4
SPECIFICATION Spec
INVARIANT TypeOK
INVARIANT InOrder
INVARIANT StallsAreCut
PROPERTY ReplacesOnlyWhileJoining
