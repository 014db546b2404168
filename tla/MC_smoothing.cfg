CONSTANTS
    TablePorts <- MC_TablePorts
    Sessions <- MC_PlainSessions
    ProxyAddrs <- MC_ProxyAddrs
    FlagValues <- MC_FlagValues
    RandomOffsets <- MC_RandomOffsets
    LocalAddrs <- MC_LocalAddrs
    Origins <- MC_SmoothOrigins
    InitConfig <- ProxyConfig
    InitSessions <- MC_PlainSessions
    MaxPackets = 2
    MaxCommands = 1
SPECIFICATION Spec
INVARIANT StreamContiguous
PROPERTY StreamRefined
