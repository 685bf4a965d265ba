\* Every sequence of copies, assignments and ends of scope.
CONSTANTS
    o1 = o1
    o2 = o2
    o3 = o3
    e1 = e1
    e2 = e2
    e3 = e3
    m1 = m1
    m2 = m2
    Objects <- Objs
    Locals <- Eves
    Members <- Mems
    instance = instance
    temporary = temporary
    Null = Null
    None = None
SPECIFICATION Spec
INVARIANTS
    PointersTypeOK
    CountExact
    NoDangling
    DeletedWithLast
PROPERTIES
    OneInstance
\* The process ends.
CHECK_DEADLOCK FALSE
