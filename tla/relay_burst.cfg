\* One query more than relay_live: the two servers wait for each other.
CONSTANTS
    q1 = q1
    q2 = q2
    q3 = q3
    q4 = q4
    Query = {q1, q2, q3, q4}
    Xid = {1, 2, 3, 4}
    Client = {1, 2, 3, 4}
    xid <- BurstXid
    client <- BurstClient
    after <- BurstAfter
    Answered = {q1, q2, q3, q4}
    Native4 = {}
    Native6 = {}
    Room6to4 = 1
    Room4to6 = 1
    MaxCrashes = 0
    None = None
SPECIFICATION FairSpec
PROPERTIES EventuallyAnswered
CHECK_DEADLOCK FALSE
