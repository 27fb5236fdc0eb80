CONSTANTS
    Period = 60
    Freshness = 90
    Threshold = 5
    Slow = 2
SPECIFICATION FairSpec
INVARIANT TypeOK
INVARIANT CountIsBacked
INVARIANT RestartIsBacked
INVARIANT ConnectedIsServed
INVARIANT OutageIsBounded
PROPERTY ComesBack
