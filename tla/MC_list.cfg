CONSTANTS
    TableSize = 5
    CmdSlots = {1, 2, 3, 4}
    MaxCommands = 2
    MaxRestarts = 2
SPECIFICATION Spec
INVARIANT StableEntriesListed
PROPERTY ListingTerminates
