SPECIFICATION FairSpec
CONSTANTS
    Top = Top
    Sub = Sub
    f = f
    a = a
    b = b
    Clients = {a}
    MaxConns = 2
    MaxFds = 2
    Radix = 8
    Dirs = {Top, Sub}
    TopDir = Top
    Subdirs <- Tree
    FileNames = {f}
    Bytes = {"a", "b", "s"}
    NoFile = NoFile
    ServerFiles <- FileInSub
    OpenFails = FALSE
    LocalFiles <- OwnFiles
    Commands <- Typed
    CommandsOfA = {"ls", "cd", "get", "put"}
    CommandsOfB = {}
    Reopen = FALSE
    Vanish = FALSE
    Backlog = 4
INVARIANTS
    InStep
    NoMutualWait
    UploadKept
    StepInv
PROPERTY
    SessionSpec
    CommandEnds
CHECK_DEADLOCK FALSE
