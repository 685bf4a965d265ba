\* Who is where, under which nickname: three clients, two channels.
\* +o and -o move the rank around.
CONSTANTS
    f1 = f1
    f2 = f2
    f3 = f3
    al = al
    bo = bo
    cy = cy
    none = none
    ch = ch
    ch2 = ch2
    ill = ill
    big = big
    None = None
    Dangling = Dangling
    NoFd = NoFd
    Crash = Crash
    NoTopic = NoTopic
    NoArg = none
    Fds <- Three
    Nicks = {al, bo, cy, none}
    BadNicks = {none}
    Chans <- TwoChannelsAndIllegal
    BadNames = {ill}
    FatalNames = {}
    Numbers = {}
    Topics = {}
    JoinLimit = 10
    Commands = {"SKIP", "NICK", "JOIN", "PART", "KICK", "MODE", "PRIVMSG", "WHOIS", "PONG", "LOG", "UNKNOWN", "QUIT"}
    ModeSets = {{"o"}}
    PassWords = {"pass_", "wrong"}
SYMMETRY SwapAll3
SPECIFICATION Spec
INVARIANTS
    MembershipMutual
    OperatorsAreMembers
PROPERTIES
    EmptiedOnlyBySelfKick
    OthersMoveOnlyByKick
    PresenceAnnounced
    RegistryContract
    EndsOnlyBy
\* The process may end: a crash.
CHECK_DEADLOCK FALSE
