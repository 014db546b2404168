CONSTANTS
    WriteBufSize = 5
    Letters <- MC_Letters
    Messages <- MC_Long
    MaxWrites = 1
SPECIFICATION Spec
INVARIANTS
    CommandsExecutedAsWritten
