\* A client's life from PASS to QUIT: registration in every order, texts, topics, questions.
CONSTANTS
    f1 = f1
    f2 = f2
    f3 = f3
    al = al
    bo = bo
    cy = cy
    none = none
    ch = ch
    ch2 = ch2
    ill = ill
    big = big
    None = None
    Dangling = Dangling
    NoFd = NoFd
    Crash = Crash
    NoTopic = NoTopic
    NoArg = none
    Fds <- Three
    Nicks = {al, bo, cy, none}
    BadNicks = {none}
    Chans <- OneChannelAndTooLong
    BadNames = {}
    FatalNames = {big}
    Numbers = {}
    Topics = {"news"}
    JoinLimit = 10
    Commands = {"PASS", "NICK", "USER", "JOIN", "PART", "INVITE", "PRIVMSG", "TOPIC", "PING", "other", "EXIT", "BLANK", "QUIT"}
    ModeSets = {}
    PassWords = {"pass_", "operator_pass_", "wrong"}
SYMMETRY SwapAll3
SPECIFICATION Spec
INVARIANTS
    MembersAreRegistered
    RegistrationGate
    CurrentNickResolves
    NickListExact
    NickLevelMeansNick
PROPERTIES
    WelcomeOnCompletion
    ChannelTrafficStaysInside
\* The process may end: a crash.
CHECK_DEADLOCK FALSE
