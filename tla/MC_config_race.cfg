CONSTANTS
    TablePorts <- MC_TablePorts
    ProxyAddrs <- MC_ProxyAddrs
    FlagValues <- MC_FlagValues
    RandomOffsets <- MC_RandomOffsets
    LocalAddrs <- MC_LocalAddrs
    InitConfig <- ProxyConfig
    InitSessions <- MC_PlainSessions
    Sessions <- MC_PlainSessions
    Origins <- MC_OneOrigin
    MaxPackets = 0
    MaxCommands = 2
SPECIFICATION Spec
INVARIANT NoLostConfigUpdate
