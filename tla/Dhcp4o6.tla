------------------------------ MODULE Dhcp4o6 ------------------------------
(***************************************************************************)
(* The DHCPv4-over-DHCPv6 relay between the two server processes.          *)
(*                                                                         *)
(* b10-dhcp6 receives DHCPv4-query messages over UDP, forwards the DHCPv4  *)
(* message inside them to b10-dhcp4 over an AF_UNIX stream socket (one     *)
(* connection per message, listening socket fd_6to4) and remembers the     *)
(* query packet in map4o6 under the transaction id of the DHCPv4 message.  *)
(* b10-dhcp4 processes the message and, when it builds a reply, connects   *)
(* to b10-dhcp6 (listening socket fd_4to6) and writes the reply there.     *)
(* b10-dhcp6 looks the transaction id up in map4o6 and sends the reply to  *)
(* the client whose query it finds, erasing the entry.                     *)
(*                                                                         *)
(* Both processes are single threaded loops around select().  connect()    *)
(* and read() on the AF_UNIX sockets block, so they are steps of their     *)
(* own; everything between two blocking calls is one step.                 *)
(***************************************************************************)
EXTENDS Naturals, Sequences, FiniteSets

CONSTANTS
    Query,      \* DHCPv4-query datagrams the clients send, each sent once
    Xid,        \* transaction ids
    Client,     \* DHCPv6 clients
    xid,        \* xid[q]: the transaction id in q's DHCPv4 message
    client,     \* client[q]: the client that sent q
    after,      \* after[q]: the queries whose reply makes the client send q
    Answered,   \* queries for which b10-dhcp4 builds a reply (DISCOVER, REQUEST)
    Native4,    \* DHCPv4 datagrams that reach b10-dhcp4 directly
    Native6,    \* other DHCPv6 datagrams that reach b10-dhcp6
    Room6to4,   \* connections fd_6to4 queues before connect() blocks
    Room4to6,   \* connections fd_4to6 queues before connect() blocks
    MaxCrashes, \* bound on the crashes of either server
    None        \* the null pointer

ASSUME RelayAssumption ==
    /\ xid \in [Query -> Xid]
    /\ client \in [Query -> Client]
    /\ after \in [Query -> SUBSET Query]
    /\ Answered \subseteq Query
    /\ Query \cap (Native4 \cup Native6) = {}
    /\ IsFiniteSet(Query)
    /\ Room6to4 \in Nat \ {0}
    /\ Room4to6 \in Nat \ {0}
    /\ MaxCrashes \in Nat
    /\ None \notin Query \cup Native4 \cup Native6
    /\ None \notin [query : Query, st : {"open", "data", "eof"}]

VARIABLES
    unsent,     \* queries and native datagrams the clients have not sent yet
    udp6, udp4, \* datagrams waiting in the UDP sockets of the two servers
    fd_6to4,    \* connections waiting to be accepted by b10-dhcp4
    fd_4to6,    \* connections waiting to be accepted by b10-dhcp6
    pc6, pc4,   \* where each server is in its loop
    work6,      \* the query processDHCPv4Query is forwarding
    work4,      \* the query whose reply send4to6 is delivering
    conn6,      \* the connection accepted by receive4to6
    conn4,      \* the connection accepted by receive6to4
    map4o6,     \* map4o6[x]: the query remembered under transaction id x
    sent,       \* DHCPv4-response messages b10-dhcp6 has transmitted
    crashes     \* crashes so far

vars == <<unsent, udp6, udp4, fd_6to4, fd_4to6, pc6, pc4, work6, work4,
          conn6, conn4, map4o6, sent, crashes>>

dhcp6vars == <<udp6, fd_4to6, pc6, work6, conn6, map4o6>>

dhcp4vars == <<udp4, fd_6to4, pc4, work4, conn4>>
-----------------------------------------------------------------------------
Datagram == Query \cup Native4 \cup Native6

\* An AF_UNIX connection carries the DHCPv4 message of one query, or the reply
\* to it.  It is "open" until its writer has written, then holds "data"; a
\* writer that dies before writing leaves "eof".
Connection == [query : Query, st : {"open", "data", "eof"}]

\* A DHCPv4-response: sent to the sender of query "to", carrying the reply
\* b10-dhcp4 built for query "answer".
Response == [to : Query, answer : Query]

ServerState == {"select", "connect", "write", "read", "down"}

\* The connection c after its writer, forwarding q, left it in state st.
Settle(c, q, st) ==
    IF c # None /\ c.query = q /\ c.st = "open" THEN [c EXCEPT !.st = st] ELSE c

SettleAll(queue, q, st) == [i \in DOMAIN queue |-> Settle(queue[i], q, st)]

Init ==
    /\ unsent = Datagram
    /\ udp6 = {} /\ udp4 = {}
    /\ fd_6to4 = <<>> /\ fd_4to6 = <<>>
    /\ pc6 = "select" /\ pc4 = "select"
    /\ work6 = None /\ work4 = None
    /\ conn6 = None /\ conn4 = None
    /\ map4o6 = [x \in Xid |-> None]
    /\ sent = {}
    /\ crashes = 0
-----------------------------------------------------------------------------
(***************************************************************************)
(* The network.  UDP may reorder and lose datagrams; a datagram for a      *)
(* server that is down is lost.                                            *)
(***************************************************************************)
\* A client sends its REQUEST once it has received a reply to its DISCOVER.
MayAsk(q) ==
    after[q] # {} =>
        \E r \in sent : client[r.to] = client[q] /\ r.answer \in after[q]

ClientSend(d) ==
    /\ d \in unsent
    /\ d \in Query => MayAsk(d)
    /\ unsent' = unsent \ {d}
    /\ udp6' = IF d \in Native4 \/ pc6 = "down" THEN udp6 ELSE udp6 \cup {d}
    /\ udp4' = IF d \notin Native4 \/ pc4 = "down" THEN udp4 ELSE udp4 \cup {d}
    /\ UNCHANGED <<fd_6to4, fd_4to6, pc6, pc4, work6, work4, conn6, conn4,
                   map4o6, sent, crashes>>

UdpLoss(d) ==
    /\ d \in unsent
    /\ unsent' = unsent \ {d}
    /\ UNCHANGED <<dhcp6vars, dhcp4vars, sent, crashes>>
-----------------------------------------------------------------------------
(***************************************************************************)
(* b10-dhcp6.                                                              *)
(***************************************************************************)
\* receive6 finds a UDP socket readable and run() dispatches a DHCPv4-query
\* to processDHCPv4Query, which goes on to connect().
receive6Query(q) ==
    /\ pc6 = "select"
    /\ q \in udp6 \cap Query
    /\ udp6' = udp6 \ {q}
    /\ work6' = q
    /\ pc6' = "connect"
    /\ UNCHANGED <<unsent, fd_4to6, conn6, map4o6, dhcp4vars, sent, crashes>>

\* Any other DHCPv6 message is answered within the same turn of the loop.
receive6Native(d) ==
    /\ pc6 = "select"
    /\ d \in udp6 \cap Native6
    /\ udp6' = udp6 \ {d}
    /\ UNCHANGED <<unsent, fd_4to6, pc6, work6, conn6, map4o6, dhcp4vars, sent,
                   crashes>>

\* Mutant: connect() does not wait for room in the accept queue.
connect6to4Overfull ==
    /\ pc6 = "connect"
    /\ pc4 # "down"
    /\ fd_6to4' = Append(fd_6to4, [query |-> work6, st |-> "open"])
    /\ pc6' = "write"
    /\ UNCHANGED <<unsent, udp6, fd_4to6, work6, conn6, map4o6, udp4, pc4,
                   work4, conn4, sent, crashes>>

\* connect() in processDHCPv4Query succeeds as soon as fd_6to4 has room.
connect6to4 ==
    /\ pc6 = "connect"
    /\ pc4 # "down"
    /\ Len(fd_6to4) < Room6to4
    /\ fd_6to4' = Append(fd_6to4, [query |-> work6, st |-> "open"])
    /\ pc6' = "write"
    /\ UNCHANGED <<unsent, udp6, fd_4to6, work6, conn6, map4o6, udp4, pc4,
                   work4, conn4, sent, crashes>>

\* Nobody listens: connect() fails and the query is dropped.
connectRefused6to4 ==
    /\ pc6 = "connect"
    /\ pc4 = "down"
    /\ pc6' = "select"
    /\ work6' = None
    /\ UNCHANGED <<unsent, udp6, fd_4to6, conn6, map4o6, dhcp4vars, sent,
                   crashes>>

\* Mutant: the query is not remembered.
write6to4Forgetful ==
    /\ pc6 = "write"
    /\ fd_6to4' = SettleAll(fd_6to4, work6, "data")
    /\ conn4' = Settle(conn4, work6, "data")
    /\ pc6' = "select"
    /\ work6' = None
    /\ UNCHANGED <<unsent, udp6, fd_4to6, conn6, map4o6, udp4, pc4, work4, sent,
                   crashes>>

\* The rest of processDHCPv4Query: write, close, remember the query.  A write
\* to a connection b10-dhcp4 has lost fails, and the failure is ignored.
write6to4 ==
    /\ pc6 = "write"
    /\ fd_6to4' = SettleAll(fd_6to4, work6, "data")
    /\ conn4' = Settle(conn4, work6, "data")
    /\ map4o6' = [map4o6 EXCEPT ![xid[work6]] = work6]
    /\ pc6' = "select"
    /\ work6' = None
    /\ UNCHANGED <<unsent, udp6, fd_4to6, conn6, udp4, pc4, work4, sent,
                   crashes>>

\* receive6 turns to fd_4to6 only when no UDP socket is readable.
receive4to6 ==
    /\ pc6 = "select"
    /\ udp6 = {}
    /\ fd_4to6 # <<>>
    /\ conn6' = Head(fd_4to6)
    /\ fd_4to6' = Tail(fd_4to6)
    /\ pc6' = "read"
    /\ UNCHANGED <<unsent, udp6, work6, map4o6, dhcp4vars, sent, crashes>>

\* Mutant: the entry is not erased.
processDHCPv4ResponseNoErase ==
    /\ pc6 = "read"
    /\ conn6.st = "data"
    /\ LET q == map4o6[xid[conn6.query]] IN
         sent' = IF q = None THEN sent
                 ELSE sent \cup {[to |-> q, answer |-> conn6.query]}
    /\ conn6' = None
    /\ pc6' = "select"
    /\ UNCHANGED <<unsent, udp6, fd_4to6, work6, map4o6, dhcp4vars, crashes>>

\* Mutant: any remembered query is taken, not the one of the transaction id.
processDHCPv4ResponseAnyEntry ==
    /\ pc6 = "read"
    /\ conn6.st = "data"
    /\ \E x \in Xid :
         /\ sent' = IF map4o6[x] = None THEN sent
                    ELSE sent \cup {[to |-> map4o6[x], answer |-> conn6.query]}
         /\ map4o6' = [map4o6 EXCEPT ![x] = None]
    /\ conn6' = None
    /\ pc6' = "select"
    /\ UNCHANGED <<unsent, udp6, fd_4to6, work6, dhcp4vars, crashes>>

\* read() returns a reply and processDHCPv4Response looks its transaction id
\* up: the remembered query is answered and forgotten, or the reply dropped.
processDHCPv4Response ==
    /\ pc6 = "read"
    /\ conn6.st = "data"
    /\ LET x == xid[conn6.query] IN
         /\ sent' = IF map4o6[x] = None THEN sent
                    ELSE sent \cup {[to |-> map4o6[x], answer |-> conn6.query]}
         /\ map4o6' = [map4o6 EXCEPT ![x] = None]
    /\ conn6' = None
    /\ pc6' = "select"
    /\ UNCHANGED <<unsent, udp6, fd_4to6, work6, dhcp4vars, crashes>>

\* What the death of b10-dhcp6 does to its sockets and to its memory.
Die6 ==
    /\ pc6' = "down"
    /\ udp6' = {}
    /\ fd_4to6' = <<>>
    /\ work6' = None
    /\ conn6' = None
    /\ map4o6' = [x \in Xid |-> None]
    /\ fd_6to4' = SettleAll(fd_6to4, work6, "eof")
    /\ conn4' = Settle(conn4, work6, "eof")

\* read() returns 0 bytes: processDHCPv4Response reads the transaction id at
\* offset 4 of an empty buffer, a null pointer dereference.
readEof4to6 ==
    /\ pc6 = "read"
    /\ conn6.st = "eof"
    /\ Die6
    /\ UNCHANGED <<unsent, udp4, pc4, work4, sent, crashes>>

Crash6 ==
    /\ pc6 # "down"
    /\ crashes < MaxCrashes
    /\ crashes' = crashes + 1
    /\ Die6
    /\ UNCHANGED <<unsent, udp4, pc4, work4, sent>>

\* openSockets6 binds fd_4to6 again.
Start6 ==
    /\ pc6 = "down"
    /\ pc6' = "select"
    /\ UNCHANGED <<unsent, udp6, fd_4to6, work6, conn6, map4o6, dhcp4vars, sent,
                   crashes>>
-----------------------------------------------------------------------------
(***************************************************************************)
(* b10-dhcp4.                                                              *)
(***************************************************************************)
receive4Native(d) ==
    /\ pc4 = "select"
    /\ d \in udp4
    /\ udp4' = udp4 \ {d}
    /\ UNCHANGED <<unsent, dhcp6vars, fd_6to4, pc4, work4, conn4, sent, crashes>>

\* receive4 turns to fd_6to4 only when no UDP socket is readable.
receive6to4 ==
    /\ pc4 = "select"
    /\ udp4 = {}
    /\ fd_6to4 # <<>>
    /\ conn4' = Head(fd_6to4)
    /\ fd_6to4' = Tail(fd_6to4)
    /\ pc4' = "read"
    /\ UNCHANGED <<unsent, dhcp6vars, udp4, work4, sent, crashes>>

\* Mutant: run() drops the reply to a message that came from b10-dhcp6.
process4o6NoReply ==
    /\ pc4 = "read"
    /\ conn4.st = "data"
    /\ pc4' = "select"
    /\ conn4' = None
    /\ UNCHANGED <<unsent, dhcp6vars, udp4, fd_6to4, work4, sent, crashes>>

\* read() returns a message; run() processes it and, when there is a reply,
\* goes on to send4to6.
process4o6 ==
    /\ pc4 = "read"
    /\ conn4.st = "data"
    /\ pc4' = IF conn4.query \in Answered THEN "connect" ELSE "select"
    /\ work4' = IF conn4.query \in Answered THEN conn4.query ELSE None
    /\ conn4' = None
    /\ UNCHANGED <<unsent, dhcp6vars, udp4, fd_6to4, sent, crashes>>

\* read() returns 0 bytes: the Pkt4 constructor throws and run() carries on.
readEof6to4 ==
    /\ pc4 = "read"
    /\ conn4.st = "eof"
    /\ pc4' = "select"
    /\ conn4' = None
    /\ UNCHANGED <<unsent, dhcp6vars, udp4, fd_6to4, work4, sent, crashes>>

\* connect() in send4to6 succeeds as soon as fd_4to6 has room.
connect4to6 ==
    /\ pc4 = "connect"
    /\ pc6 # "down"
    /\ Len(fd_4to6) < Room4to6
    /\ fd_4to6' = Append(fd_4to6, [query |-> work4, st |-> "open"])
    /\ pc4' = "write"
    /\ UNCHANGED <<unsent, udp6, pc6, work6, conn6, map4o6, udp4, fd_6to4,
                   work4, conn4, sent, crashes>>

\* Nobody listens: connect() fails and the reply is dropped.
connectRefused4to6 ==
    /\ pc4 = "connect"
    /\ pc6 = "down"
    /\ pc4' = "select"
    /\ work4' = None
    /\ UNCHANGED <<unsent, dhcp6vars, udp4, fd_6to4, conn4, sent, crashes>>

\* Mutant: send4to6 sends the reply once more.
write4to6Again ==
    /\ pc4 = "write"
    /\ fd_4to6' = SettleAll(fd_4to6, work4, "data")
    /\ conn6' = Settle(conn6, work4, "data")
    /\ pc4' = "connect"
    /\ UNCHANGED <<unsent, udp6, pc6, work6, work4, map4o6, udp4, fd_6to4, conn4,
                   sent, crashes>>

\* The rest of send4to6: write and close.
write4to6 ==
    /\ pc4 = "write"
    /\ fd_4to6' = SettleAll(fd_4to6, work4, "data")
    /\ conn6' = Settle(conn6, work4, "data")
    /\ pc4' = "select"
    /\ work4' = None
    /\ UNCHANGED <<unsent, udp6, pc6, work6, map4o6, udp4, fd_6to4, conn4, sent,
                   crashes>>

Crash4 ==
    /\ pc4 # "down"
    /\ crashes < MaxCrashes
    /\ crashes' = crashes + 1
    /\ pc4' = "down"
    /\ udp4' = {}
    /\ fd_6to4' = <<>>
    /\ work4' = None
    /\ conn4' = None
    /\ fd_4to6' = SettleAll(fd_4to6, work4, "eof")
    /\ conn6' = Settle(conn6, work4, "eof")
    /\ UNCHANGED <<unsent, udp6, pc6, work6, map4o6, sent>>

\* openSockets4 binds fd_6to4 again.
Start4 ==
    /\ pc4 = "down"
    /\ pc4' = "select"
    /\ UNCHANGED <<unsent, dhcp6vars, udp4, fd_6to4, work4, conn4, sent, crashes>>
-----------------------------------------------------------------------------
Server6 ==
    \/ \E d \in udp6 : receive6Query(d) \/ receive6Native(d)
    \/ connect6to4 \/ connectRefused6to4 \/ write6to4
    \/ receive4to6 \/ processDHCPv4Response \/ readEof4to6
    \/ Start6

Server4 ==
    \/ \E d \in udp4 : receive4Native(d)
    \/ receive6to4 \/ process4o6 \/ readEof6to4
    \/ connect4to6 \/ connectRefused4to6 \/ write4to6
    \/ Start4

Environment ==
    \/ \E d \in unsent : ClientSend(d) \/ UdpLoss(d)
    \/ Crash6 \/ Crash4

Next == Server6 \/ Server4 \/ Environment

Spec == Init /\ [][Next]_vars

\* Each server is a loop that takes its next step whenever it is not blocked,
\* and b10-init restarts a server that died.
FairSpec == Spec /\ WF_vars(Server6) /\ WF_vars(Server4)
-----------------------------------------------------------------------------
(***************************************************************************)
(* What is checked.                                                        *)
(***************************************************************************)
ConnectionOrNone == Connection \cup {None}

\* Every variable of the two processes and their sockets keeps its type, and
\* the accept queues never hold more than the kernel lets them.
TypeOK ==
    /\ unsent \subseteq Datagram
    /\ udp6 \subseteq Query \cup Native6
    /\ udp4 \subseteq Native4
    /\ fd_6to4 \in Seq(Connection) /\ Len(fd_6to4) <= Room6to4
    /\ fd_4to6 \in Seq(Connection) /\ Len(fd_4to6) <= Room4to6
    /\ pc6 \in ServerState /\ pc4 \in ServerState
    /\ work6 \in Query \cup {None} /\ work4 \in Query \cup {None}
    /\ conn6 \in ConnectionOrNone /\ conn4 \in ConnectionOrNone
    /\ map4o6 \in [Xid -> Query \cup {None}]
    /\ sent \subseteq Response
    /\ crashes \in 0..MaxCrashes

\* A query is answered at most once and a reply of b10-dhcp4 is delivered at
\* most once, whatever is retransmitted, overwritten in map4o6 or restarted.
AtMostOnce ==
    \A r, s \in sent : r.to = s.to \/ r.answer = s.answer => r = s

\* processDHCPv4Response hands a client only a reply that b10-dhcp4 really
\* built, and only for the transaction id the client asked about.
XidMatches ==
    \A r \in sent : r.answer \in Answered /\ xid[r.to] = xid[r.answer]

\* No two clients use the same transaction id.
XidsPrivate == \A p, q \in Query : xid[p] = xid[q] => client[p] = client[q]

\* A client gets only replies to its own queries (as long as transaction ids
\* are private: map4o6 has nothing but the transaction id to tell clients by).
OwnReply == \A r \in sent : client[r.to] = client[r.answer]

Holds(queue, q) == \E i \in 1..Len(queue) : queue[i].query = q

Carries(c, q) == c # None /\ c.query = q

\* The query q, or the reply to it, is between the two servers.
InFlight(q) ==
    \/ Holds(fd_6to4, q) \/ Carries(conn4, q) \/ work4 = q
    \/ Holds(fd_4to6, q) \/ Carries(conn6, q)

\* An entry of map4o6 is not forgotten: as long as neither server has crashed,
\* a remembered query that b10-dhcp4 answers has its reply still on the way.
\* So the entries that stay for good are those b10-dhcp4 does not answer.
ReplyOnTheWay ==
    crashes = 0 =>
        \A x \in Xid : map4o6[x] \in Answered => InFlight(map4o6[x])

\* Each server waits in connect() for the other one to accept.
MutualWait ==
    /\ pc6 = "connect" /\ pc4 = "connect"
    /\ Len(fd_6to4) = Room6to4 /\ Len(fd_4to6) = Room4to6

\* The two servers never wait for each other unless the clients can have two
\* more queries under way than both accept queues hold.
NoMutualWait ==
    Cardinality(Query) < Room6to4 + Room4to6 + 2 => ~MutualWait

\* b10-dhcp6 stops only when it is itself killed, never because of what it
\* reads from b10-dhcp4.
DiesOnlyByCrash == [][pc6' = "down" /\ pc6 # "down" => crashes' > crashes]_vars

SoleUser(q) == \A p \in Query \ {q} : xid[p] # xid[q]

\* Every query that reached b10-dhcp6, is answered by b10-dhcp4 and does not
\* share its transaction id is eventually answered to its sender.
EventuallyAnswered ==
    \A q \in Answered :
        SoleUser(q) => (q \in udp6 ~> \E r \in sent : r.to = q)

\* The ACK b10-dhcp4 builds for a REQUEST that reached b10-dhcp6 is transmitted
\* in the end.
RequestAcknowledged ==
    \A q \in Answered :
        after[q] # {} => (q \in udp6 ~> \E r \in sent : r.answer = q)

\* The queries b10-dhcp6 holds or remembers: those it may still answer.
Remembered == {map4o6[x] : x \in Xid}

StillWaiting == (udp6 \cup {work6} \cup Remembered) \cap Query

R == INSTANCE Relay WITH unasked <- unsent \cap Query,
                         waiting <- StillWaiting,
                         replies <- sent

\* The two servers, their sockets and their crashes implement the relay that
\* answers a query at most once, with an unused reply of its transaction id.
ImplementsRelay == R!Spec
=============================================================================
