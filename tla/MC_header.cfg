CONSTANTS
    Hosts = {"LE", "BE"}
    Packets <- MC_GoodPackets
    Ports <- MC_Ports
    Entries <- MC_Entries
    MaxOffset <- MC_MaxOffset
    Envs <- MC_Envs
    SAddr <- MC_SAddr
    DAddr <- MC_DAddr
SPECIFICATION Spec
INVARIANTS
    HeaderLayoutsMatchRfc
    AccessesInPacket
    RtpRewriteMatchesRfc
    ChecksumOnWire
