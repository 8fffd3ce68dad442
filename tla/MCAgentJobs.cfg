CONSTANTS
    Paths <- MCPaths
    Data <- MCData
    ExecTasks <- MCExecTasks
    ExecStep <- MCExecStep
    MaxExcuses = 1
    Recipe <- MCRecipe
    Entries = {"patch", "app"}
    Kind <- MCKind
    OldMachines <- MCOldMachines
    UserPaths = {"d1", "local"}
    UserData = "user"
    OldFiles <- MCOldFiles
    Agendas <- MCAgendas
    MaxCrashes = 1
    MaxWorld = 2
SPECIFICATION Spec
INVARIANTS
    DiskIsSound
    ExecReportTrue
    InstalledIsWhole
    InventoryKnown
CHECK_DEADLOCK FALSE
