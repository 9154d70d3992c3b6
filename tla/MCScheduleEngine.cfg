SPECIFICATION FairSpec
CONSTANTS
    living = living
    ui = ui
    script = script
    NoClaim = NoClaim
    WeekDays = 1
    SlotsPerDay = 4
    Targets <- MCTargets
    Programmes <- MCProgrammes
    FirstSchedules <- MCFirst
    Editors <- MCEditors
    Careful <- MCCareful
    SlotTicks = 1
    Catchup = 1
    Heartbeat = 2
    MaxLag = 1
    MaxRev = 2
INVARIANTS
    TypeOK
    SettledMatchesDocument
    TimerCoversNextSwitch
PROPERTIES
    
    CarefulEditKeepsOthers
    EditsTakeEffect
