CONSTANTS
    TableSize = 5
    CmdSlots = {1, 2, 3, 4}
    MaxCommands = 1
    MaxRestarts = 0
SPECIFICATION Spec
INVARIANT ShownEntriesValid
