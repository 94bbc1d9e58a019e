\* b10-dhcp4 is killed between connect() and write().
CONSTANTS
    q1 = q1
    q2 = q2
    q3 = q3
    q4 = q4
    Query = {q1}
    Xid = {1}
    Client = {1}
    xid <- SingleXid
    client <- SingleClient
    after <- SingleAfter
    Answered = {q1}
    Native4 = {}
    Native6 = {}
    Room6to4 = 2
    Room4to6 = 2
    MaxCrashes = 1
    None = None
SPECIFICATION FairSpec
PROPERTIES DiesOnlyByCrash
CHECK_DEADLOCK FALSE
