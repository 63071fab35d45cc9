SPECIFICATION LiveSpec
CONSTANTS
    w1 = w1
    w2 = w2
    Workers = {w1, w2}
    MaxConns = 2
    MaxSeq = 2
    Coalesce = TRUE
    Prompt = FALSE
PROPERTIES
    HelloAnswered
    HeartbeatsGoOn
    NeverStuckOffline
