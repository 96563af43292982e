SPECIFICATION BridgeSpec
CONSTANTS
    c1 = c1
    c2 = c2
    Loop = Loop
    Clients = {c1, c2}
    EURUSD = EURUSD
    GBPUSD = GBPUSD
    Typo = Typo
    Symbols = {EURUSD, GBPUSD, Typo}
    Good = {EURUSD, GBPUSD}
    Home = EURUSD
    None = None
    LastKind = 2
    MaxSwitches = 2
    MaxFails = 1
SYMMETRY Peers
CHECK_DEADLOCK FALSE
PROPERTY BroadcastReachesAll
