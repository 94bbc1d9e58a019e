\* Retransmission, a query without reply, crashes of both servers.
CONSTANTS
    q1 = q1
    q2 = q2
    q3 = q3
    q4 = q4
    Query = {q1, q2, q3, q4}
    Xid = {1, 2}
    Client = {1, 2}
    xid <- RetryXid
    client <- RetryClient
    after <- RetryAfter
    Answered = {q1, q2, q3}
    Native4 = {n4}
    Native6 = {n6}
    Room6to4 = 2
    Room4to6 = 1
    MaxCrashes = 1
    None = None
SPECIFICATION Spec
INVARIANTS TypeOK AtMostOnce XidMatches  ReplyOnTheWay NoMutualWait
PROPERTIES ImplementsRelay
CHECK_DEADLOCK FALSE
