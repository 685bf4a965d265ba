\* Violation: an invitation outlives its user.
CONSTANTS
    f1 = f1
    f2 = f2
    f3 = f3
    al = al
    bo = bo
    cy = cy
    none = none
    ch = ch
    ch2 = ch2
    ill = ill
    big = big
    None = None
    Dangling = Dangling
    NoFd = NoFd
    Crash = Crash
    NoTopic = NoTopic
    NoArg = none
    Fds <- Two
    Nicks = {al, bo, none}
    BadNicks = {none}
    Chans <- OneChannel
    BadNames = {}
    FatalNames = {}
    Numbers = {}
    Topics = {}
    JoinLimit = 10
    Commands = {"SKIP", "JOIN", "INVITE", "MODE", "QUIT"}
    ModeSets = {{"i"}}
    PassWords = {"pass_", "wrong"}
SYMMETRY SwapAll2
SPECIFICATION Spec
INVARIANTS
    InvitationsDieWithUser
\* The process may end: a crash.
CHECK_DEADLOCK FALSE
