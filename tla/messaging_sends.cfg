SPECIFICATION Spec
CONSTANTS
    w1 = w1
    r1 = r1
    Readers = {w1, r1}
    Viewers = {r1}
    Writers = {w1}
    NoName = NoName
    Missing = {}
    Messages <- MCMessages
    MaxArrivals = 2
    MSG_START_REP_CNT = 2
    MSG_REP_CNT = 2
    MaxSeq = 3
    MaxTaken = 2
    MaxLife = 0
INVARIANTS
    TypeOK
    MovedOnce
    NoneHidden
    DiesOnlyOfRace
PROPERTIES
    SendReturns
    ImplementsInbox
    SendAdvances
