SPECIFICATION FairSpec
CONSTANTS
    Members <- MCMembers
    Houses <- MCHouses
    Local <- MCLocal
    Commands <- MCCommands
    Actions <- MCActions
    Nothing = Nothing
    Capacity = 2
    MaxEvents = 2
INVARIANTS
    TypeOK
    OneDirection
    SetpointHitsItsBlock
PROPERTIES
    ModeSyncWakesNobody
    CachesRecover
CHECK_DEADLOCK FALSE
