\* Three messages of two or four bytes to two clients, three bytes of room.
CONSTANTS
    c1 = c1
    c2 = c2
    None = None
    Clients = {c1, c2}
    Room = 3
    Lengths = {2, 4}
    MaxMessages = 3
SPECIFICATION Spec
INVARIANTS
    TypeOK
PROPERTIES
    StreamContract
    FitsThenWhole
    SendReturns
\* All messages may have been sent, and the process may be dead.
CHECK_DEADLOCK FALSE
