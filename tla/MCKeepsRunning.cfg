\* Violation: a line of blanks ends the process.  The other ways are bounded by
\* EndsOnlyBy.
CONSTANTS
    f1 = f1
    f2 = f2
    f3 = f3
    al = al
    bo = bo
    cy = cy
    none = none
    ch = ch
    ch2 = ch2
    ill = ill
    big = big
    None = None
    Dangling = Dangling
    NoFd = NoFd
    Crash = Crash
    NoTopic = NoTopic
    NoArg = none
    Fds <- Two
    Nicks = {al, bo, none}
    BadNicks = {none}
    Chans <- OneChannel
    BadNames = {}
    FatalNames = {}
    Numbers = {}
    Topics = {}
    JoinLimit = 10
    Commands = {"SKIP", "NICK", "JOIN", "KICK", "PRIVMSG", "QUIT", "BLANK"}
    ModeSets = {}
    PassWords = {"pass_", "wrong"}
SYMMETRY SwapAll2
SPECIFICATION Spec
INVARIANTS
    KeepsRunning
\* The process may end: a crash.
CHECK_DEADLOCK FALSE
