CONSTANTS
    u1 = u1  u2 = u2
    Users = {u1, u2}
    Callers = {c1, c2}
    Workers = {w1, w2}
    TaskIds = {1, 2, 3, 4}
    Graph <- ForkJoin
    StartNode = "facts"
    None = None
SPECIFICATION FairSpec
INVARIANTS ActivatedOnce QuorumHonoured EscalatedOncePerDue StrandedOnlyAtJoin
PROPERTIES VerdictStands EveryTransactionEnds
CHECK_DEADLOCK FALSE
