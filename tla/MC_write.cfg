CONSTANTS
    WriteBufSize = 5
    Letters <- MC_Letters
    Messages <- MC_Fitting
    MaxWrites = 3
SPECIFICATION Spec
INVARIANTS
    CommandsExecutedAsWritten
