CONSTANTS
    Words = {"portals", "casual", "hard", "Raids", "none", "normal", "NoMap", "default", "bogus"}
    Lower <- MCLower
    MaxPhrases = 2
SPECIFICATION Spec
INVARIANTS TypeOK WrittenIsReadBack
PROPERTY ImplementsBoard
