\* Modes, keys, limits, invitations and topics of one channel: two clients.
CONSTANTS
    f1 = f1
    f2 = f2
    f3 = f3
    al = al
    bo = bo
    cy = cy
    none = none
    ch = ch
    ch2 = ch2
    ill = ill
    big = big
    None = None
    Dangling = Dangling
    NoFd = NoFd
    Crash = Crash
    NoTopic = NoTopic
    NoArg = none
    Fds <- Two
    Nicks = {al, bo, 1, none}
    BadNicks = {1, none}
    Chans <- OneChannel
    BadNames = {}
    FatalNames = {}
    Numbers = {1}
    Topics = {"news"}
    JoinLimit = 10
    Commands = {"SKIP", "JOIN", "PART", "KICK", "INVITE", "MODE", "TOPIC", "QUIT"}
    ModeSets = {{"i"}, {"t"}, {"k"}, {"l"}, {"i", "k", "l"}, {"o"}, {"?"}}
    PassWords = {"pass_", "wrong"}
SYMMETRY SwapAll2
SPECIFICATION Spec
INVARIANTS
    ServerTypeOK
    KeyModeHasKey
    InvitationsAreSpent
PROPERTIES
    OperatorOnly
    LimitKept
    RoomsContract
\* The process may end: a crash.
CHECK_DEADLOCK FALSE
