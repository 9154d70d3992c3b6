SPECIFICATION SessionSpec
CONSTANTS
    WeekDays = 2
    SlotsPerDay = 3
    SlotMinutes = 2
    NoClaim = NoClaim
    Malformed = Malformed
    Speeds = {"1", "2"}
    OpModes = {"heating", "cooling"}
    Unknown = Unknown
    NoSerial = NoSerial
    client = client
    web = web
    util = util
    daemon = daemon
    tool = tool
    Callers <- MCCallers
    Processes <- MCProcesses
    Home <- MCHome
    Daemon = daemon
    ApiCallers <- MCApiCallers
    LoginCallers <- MCLoginCallers
    NoToken = NoToken
    Nobody = Nobody
    MaxTokens = 3
INVARIANT ScheduledModesAreServed
