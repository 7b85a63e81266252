SPECIFICATION Spec
CONSTANTS
    Top = Top
    Sub = Sub
    f = f
    a = a
    b = b
    Clients = {a, b}
    MaxConns = 2
    MaxFds = 2
    Radix = 8
    Dirs = {Top}
    TopDir = Top
    Subdirs <- Tree
    FileNames = {f}
    Bytes = {"a", "b", "s"}
    NoFile = NoFile
    ServerFiles <- SomeFiles
    OpenFails = FALSE
    LocalFiles <- OwnFiles
    Commands <- Typed
    CommandsOfA = {"put"}
    CommandsOfB = {"get", "put"}
    Reopen = FALSE
    Vanish = FALSE
    Backlog = 4
INVARIANTS
    TypeOK
    OwnDescriptor
    ServerSurvives
    FramesInv
    BytesInPlace
CHECK_DEADLOCK FALSE
