\* Three connections for two descriptors, three lines, one nickname.
CONSTANTS
    c1 = c1
    c2 = c2
    c3 = c3
    fd1 = fd1
    fd2 = fd2
    al = al
    None = None
    Empty = Empty
    ServerFd = ServerFd
    Clients = {c1, c2, c3}
    Fds = {fd1, fd2}
    Nicks = {al}
    MaxLines = 3
SYMMETRY Swap
SPECIFICATION Spec
INVARIANTS
    TypeOK
    UniqueNicks
    WatchedAreOpen

    
\* The process may end, or sleep in poll for ever.
CHECK_DEADLOCK FALSE
