SPECIFICATION Spec
CONSTANTS
    w1 = w1
    r1 = r1
    Readers = {w1, r1}
    Viewers = {}
    Writers = {w1}
    NoName = NoName
    Missing = {w1, r1}
    Messages <- MCMessages
    MaxArrivals = 2
    MSG_START_REP_CNT = 1
    MSG_REP_CNT = 1
    MaxSeq = 2
    MaxTaken = 3
    MaxLife = 1
INVARIANTS
    NotShutOut
PROPERTIES
    ImplementsConversation
CHECK_DEADLOCK FALSE
