CONSTANTS
    m1 = m1  m2 = m2  w1 = w1  w2 = w2
    Messages = {m1}
    Workers = {w1, w2}
    Limit = 1
    MaxRetries = 1
    MaxMishaps = 2
    None = None
SPECIFICATION LiveSpec
INVARIANTS RowAndLedgerAgree OneSendUnlessExcused
PROPERTIES EveryMessageSettles
CHECK_DEADLOCK FALSE
