\* No crash and at most Room6to4 + Room4to6 + 1 queries: everyone is answered.
CONSTANTS
    q1 = q1
    q2 = q2
    q3 = q3
    q4 = q4
    Query = {q1, q2, q3}
    Xid = {1, 2, 3}
    Client = {1, 2, 3}
    xid <- Burst3Xid
    client <- Burst3Client
    after <- Burst3After
    Answered = {q1, q2, q3}
    Native4 = {n4}
    Native6 = {n6}
    Room6to4 = 1
    Room4to6 = 1
    MaxCrashes = 0
    None = None
SPECIFICATION FairSpec
PROPERTIES EventuallyAnswered
CHECK_DEADLOCK FALSE
