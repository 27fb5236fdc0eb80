SPECIFICATION FairSpec
CONSTANTS
  Worlds = {w1, w2}
  NoWorld = none
  Settings = {hard}
  DefaultWorld = w1
  DefaultArgs = {}
  Commands = {c1}
  Repeated = {c1}
  Kinds = {"look", "start", "stop", "switch", "new", "modifier"}
INVARIANT TypeOK
PROPERTY AnnouncedBoots
