CONSTANTS
    EmptyChecksToStop = 3
    MaxPlayers = 2
    NoWorld = NoWorld
SPECIFICATION FairSSpec
INVARIANT TypeOK
INVARIANT CountIsBacked
INVARIANT StopIsBacked
INVARIANT HeldSessionIsSeen
PROPERTY IdleIsStopped
PROPERTY SeenPlayersBlock
