SPECIFICATION Spec
CONSTANTS
  Worlds = {w1, w2}
  NoWorld = none
  Settings = {hard}
  DefaultWorld = w1
  DefaultArgs = {}
  Commands = {c1, c2, c3}
  Repeated = {}
  Kinds = {"start", "stop", "switch", "new", "modifier"}
INVARIANTS OnlyKnownWorlds AnnouncedIsInEffect
PROPERTY OtherKeyKept
