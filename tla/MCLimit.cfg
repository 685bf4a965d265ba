\* Violation: a channel that has more members than its limit takes more.
CONSTANTS
    f1 = f1
    f2 = f2
    f3 = f3
    al = al
    bo = bo
    cy = cy
    none = none
    ch = ch
    ch2 = ch2
    ill = ill
    big = big
    None = None
    Dangling = Dangling
    NoFd = NoFd
    Crash = Crash
    NoTopic = NoTopic
    NoArg = none
    Fds <- Three
    Nicks = {al, bo, cy, 1, none}
    BadNicks = {1, none}
    Chans <- OneChannel
    BadNames = {}
    FatalNames = {}
    Numbers = {1}
    Topics = {}
    JoinLimit = 10
    Commands = {"SKIP", "JOIN", "MODE"}
    ModeSets = {{"l"}}
    PassWords = {"pass_", "wrong"}
SYMMETRY SwapAll3
SPECIFICATION Spec
PROPERTIES
    LimitKeepsOut
\* The process may end: a crash.
CHECK_DEADLOCK FALSE
