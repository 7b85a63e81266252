SPECIFICATION Spec
CONSTANTS
    Top = Top
    Sub = Sub
    f = f
    a = a
    b = b
    Clients = {a, b}
    MaxConns = 2
    MaxFds = 2
    Radix = 8
    Dirs = {Top}
    TopDir = Top
    Subdirs <- Tree
    FileNames = {f}
    Bytes = {"a", "b", "s"}
    NoFile = NoFile
    ServerFiles <- SomeFiles
    OpenFails = FALSE
    LocalFiles <- OwnFiles
    Commands <- Typed
    CommandsOfA = {"get"}
    CommandsOfB = {}
    Reopen = FALSE
    Vanish = TRUE
    Backlog = 4
INVARIANT
    OwnDescriptor
CHECK_DEADLOCK FALSE
