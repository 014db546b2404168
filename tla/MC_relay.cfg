CONSTANTS
    TablePorts <- MC_TablePorts
    Sessions <- MC_Sessions
    ProxyAddrs <- MC_ProxyAddrs
    FlagValues <- MC_FlagValues
    RandomOffsets <- MC_RandomOffsets
    LocalAddrs <- MC_LocalAddrs
    Origins <- MC_Origins
    InitConfig <- ProxyConfig
    InitSessions <- MC_CascadeSessions
    MaxPackets = 2
    MaxCommands = 1
SPECIFICATION Spec
INVARIANT TypeOK
INVARIANT RelayCompletesRoute
INVARIANT StableRouteChecksumsValid
PROPERTY StreamRefined
