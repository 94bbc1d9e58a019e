\* A retransmitted DISCOVER: the second OFFER takes the place of the ACK.
CONSTANTS
    q1 = q1
    q2 = q2
    q3 = q3
    q4 = q4
    Query = {q1, q2, q3}
    Xid = {1}
    Client = {1}
    xid <- HandshakeXid
    client <- HandshakeClient
    after <- HandshakeAfter
    Answered = {q1, q2, q3}
    Native4 = {}
    Native6 = {}
    Room6to4 = 3
    Room4to6 = 3
    MaxCrashes = 0
    None = None
SPECIFICATION FairSpec
PROPERTIES RequestAcknowledged
CHECK_DEADLOCK FALSE
