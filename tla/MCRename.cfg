CONSTANTS
    f1 = f1
    f2 = f2
    f3 = f3
    al = al
    bo = bo
    cy = cy
    bad = bad
    ch = ch
    None = None
    Dangling = Dangling
    NoFd = NoFd
    Crash = Crash
    Fds <- MCFds
    Nicks <- MCNicks
    BadNicks <- MCBadNicks
    Chans <- MCChans
SYMMETRY MCSymmetry
SPECIFICATION EveryoneSpec
INVARIANT RenameForgetsOldNick
