CONSTANTS
    u1 = u1  u2 = u2
    Users = {u1, u2}
    Callers = {c1, c2}
    Workers = {w1}
    TaskIds = {1, 2, 3, 4}
    Graph <- ForkJoin
    StartNode = "facts"
    None = None
SPECIFICATION Spec
INVARIANTS FullJoinContinues
CHECK_DEADLOCK FALSE
