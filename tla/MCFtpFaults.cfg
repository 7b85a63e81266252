SPECIFICATION FairSpec
CONSTANTS
    Top = Top
    Sub = Sub
    f = f
    a = a
    b = b
    Clients = {a, b}
    MaxConns = 2
    MaxFds = 2
    Radix = 8
    Dirs = {Top}
    TopDir = Top
    Subdirs <- Tree
    FileNames = {f}
    Bytes = {"a", "b", "s"}
    NoFile = NoFile
    ServerFiles <- SomeFiles
    OpenFails = TRUE
    LocalFiles <- NoOwnFiles
    Commands <- Typed
    CommandsOfA = {"put", "sha256"}
    CommandsOfB = {"ls"}
    Reopen = TRUE
    Vanish = TRUE
    Backlog = 2
INVARIANT
    EveryDescriptorServed
PROPERTY
    DescriptorFreed
CHECK_DEADLOCK FALSE
