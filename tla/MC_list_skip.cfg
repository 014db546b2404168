CONSTANTS
    TableSize = 5
    CmdSlots = {1, 2, 3, 4}
    MaxCommands = 0
    MaxRestarts = 1
SPECIFICATION Spec
PROPERTY ResumesAtPending
