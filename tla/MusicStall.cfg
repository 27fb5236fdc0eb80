CONSTANTS
    Commands = {c1, c2}
    PlaylistCap = 2
    MaxTracks = 3
SPECIFICATION Spec
PROPERTY PlayEndsSilence
