\* Streams, descriptors and users, and what must happen: three connections
\* for two descriptors.
CONSTANTS
    c1 = c1
    c2 = c2
    c3 = c3
    fd1 = fd1
    fd2 = fd2
    None = None
    ServerFd = ServerFd
    Clients = {c1, c2, c3}
    Fds = {fd1, fd2}
    Script <- MCScript
    BUFFER_SIZE = 3
SPECIFICATION Spec
INVARIANTS
    TypeOK
    LinesFaithful
    FreeFdIsClean
    PollListExact
PROPERTIES
    DroppedOnlyAfterQuit
    LinesGetExecuted
    GoneGetClosed
\* When every client is done the thread sleeps in poll.
CHECK_DEADLOCK FALSE
