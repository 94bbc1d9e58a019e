--------------------------- MODULE Dhcp4o6Proofs ---------------------------
(***************************************************************************)
(* Proofs about the DHCPv4-over-DHCPv6 relay for any number of queries,    *)
(* transaction ids, clients and crashes and any size of the accept queues. *)
(*                                                                         *)
(* The inductive invariant follows each query through the two servers: on  *)
(* the way in it is in one place only (Inbound), and between the servers   *)
(* it, or the reply to it, is in one place only (Outbound).                *)
(***************************************************************************)
EXTENDS Dhcp4o6, FiniteSetTheorems, TLAPS
-----------------------------------------------------------------------------
\* No two connections of an accept queue carry the same query.
Distinct(queue) ==
    \A i, j \in 1..Len(queue) : queue[i].query = queue[j].query => i = j

\* The query is on its way to b10-dhcp4; the reply is on its way back.
Up(q) == Holds(fd_6to4, q) \/ Carries(conn4, q)

Down(q) == Holds(fd_4to6, q) \/ Carries(conn6, q)

Used(q) == \E r \in sent : r.answer = q

\* Where a server is in its loop tells what it is working on.
Control ==
    /\ pc6 \in {"connect", "write"} <=> work6 # None
    /\ pc6 = "read" <=> conn6 # None
    /\ pc4 \in {"connect", "write"} <=> work4 # None
    /\ pc4 = "read" <=> conn4 # None

\* A query is unsent, in the UDP socket, being forwarded, remembered under its
\* own transaction id, or answered: one of these at most.
Inbound ==
    /\ unsent \cap udp6 = {}
    /\ work6 \notin unsent \cup udp6
    /\ \A x \in Xid : map4o6[x] # None =>
          xid[map4o6[x]] = x /\ map4o6[x] \notin unsent \cup udp6 \cup {work6}
    /\ \A r \in sent :
          /\ r.to \notin unsent \cup udp6 \cup {work6}
          /\ \A x \in Xid : map4o6[x] # r.to

\* The query has not been forwarded yet.
Fresh(q) == q \in unsent \cup udp6 \/ (pc6 = "connect" /\ work6 = q)

\* Between the servers a query, or its reply, is in one place at most, and it
\* is nowhere before it is forwarded or after its reply was used.
Outbound ==
    /\ Distinct(fd_6to4) /\ Distinct(fd_4to6)
    /\ conn4 # None => ~Holds(fd_6to4, conn4.query)
    /\ conn6 # None => ~Holds(fd_4to6, conn6.query)
    /\ \A q \in Query : Up(q) => ~Down(q) /\ ~Used(q) /\ work4 # q
    /\ \A q \in Query : Down(q) \/ work4 = q => ~Used(q) /\ q \in Answered
    /\ pc4 = "connect" => ~Down(work4)
    /\ \A q \in Query : Fresh(q) => ~InFlight(q) /\ ~Used(q)

\* The connection a server is about to write to has not been written to.
Unwritten ==
    /\ \A i \in 1..Len(fd_4to6) :
          fd_4to6[i].query = work4 => fd_4to6[i].st = "open"
    /\ conn6 # None /\ conn6.query = work4 => conn6.st = "open"

Inv == TypeOK /\ Control /\ Inbound /\ Outbound /\ Unwritten /\ AtMostOnce
           /\ XidMatches
-----------------------------------------------------------------------------
(***************************************************************************)
(* What connect(), accept() and write() do to an accept queue.             *)
(***************************************************************************)
\* An empty accept queue holds no query.
LEMMA EmptyQueue == <<>> \in Seq(Connection) /\ Distinct(<<>>) /\ \A q : ~Holds(<<>>, q)
BY DEF Distinct, Holds

\* Each connection of an accept queue carries a query.
LEMMA QueueElement ==
    ASSUME NEW s \in Seq(Connection), NEW i \in 1..Len(s)
    PROVE  s[i] \in Connection /\ s[i].query \in Query
<1>1. s[i] \in Connection
  OBVIOUS
<1> QED BY <1>1 DEF Connection

\* connect() adds one connection at the end of the accept queue.
LEMMA AppendQueue ==
    ASSUME NEW s \in Seq(Connection), NEW e \in Connection
    PROVE  /\ Append(s, e) \in Seq(Connection)
           /\ Len(Append(s, e)) = Len(s) + 1
           /\ \A q : Holds(Append(s, e), q) <=> Holds(s, q) \/ e.query = q
           /\ Distinct(s) /\ ~Holds(s, e.query) => Distinct(Append(s, e))
<1> DEFINE t == Append(s, e)
<1>1. t \in Seq(Connection) /\ Len(t) = Len(s) + 1 /\ Len(s) \in Nat
  OBVIOUS
<1>2. \A i \in 1..Len(s) : t[i] = s[i]
  OBVIOUS
<1>3. t[Len(s) + 1] = e
  OBVIOUS
<1>4. \A i \in 1..Len(t) : i \in 1..Len(s) \/ i = Len(s) + 1
  BY <1>1
<1>5. \A q : Holds(t, q) <=> Holds(s, q) \/ e.query = q
  <2> HIDE DEF t
  <2> QED BY <1>1, <1>2, <1>3, <1>4 DEF Holds
<1>6. Distinct(s) /\ ~Holds(s, e.query) => Distinct(t)
  <2> HIDE DEF t
  <2> QED BY <1>1, <1>2, <1>3, <1>4 DEF Holds, Distinct
<1> QED BY <1>1, <1>5, <1>6

\* accept() takes the first connection of the accept queue.
LEMMA TailQueue ==
    ASSUME NEW s \in Seq(Connection), s # <<>>
    PROVE  /\ Tail(s) \in Seq(Connection)
           /\ Head(s) \in Connection
           /\ Head(s) = s[1] /\ 1 \in 1..Len(s)
           /\ Len(Tail(s)) = Len(s) - 1
           /\ \A i \in 1..Len(Tail(s)) : i + 1 \in 1..Len(s) /\ Tail(s)[i] = s[i + 1]
           /\ \A q : Holds(s, q) <=> Holds(Tail(s), q) \/ Head(s).query = q
           /\ Distinct(s) => Distinct(Tail(s)) /\ ~Holds(Tail(s), Head(s).query)
<1> DEFINE t == Tail(s)
<1>1. /\ t \in Seq(Connection) /\ Len(t) = Len(s) - 1 /\ Len(s) \in Nat
      /\ Len(s) > 0
  OBVIOUS
<1>2. Head(s) = s[1] /\ s[1] \in Connection
  BY <1>1
<1>3. \A i \in 1..Len(t) : i + 1 \in 1..Len(s) /\ t[i] = s[i + 1]
  BY <1>1
<1>4. \A i \in 1..Len(s) : i = 1 \/ (i - 1 \in 1..Len(t) /\ t[i - 1] = s[i])
  BY <1>1
<1>5. \A q : Holds(s, q) <=> Holds(t, q) \/ s[1].query = q
  <2> HIDE DEF t
  <2>1. ASSUME NEW q, Holds(s, q) PROVE Holds(t, q) \/ s[1].query = q
    BY <1>1, <1>4, <2>1 DEF Holds
  <2>2. ASSUME NEW q, Holds(t, q) PROVE Holds(s, q)
    BY <1>1, <1>3, <2>2 DEF Holds
  <2>3. ASSUME NEW q, s[1].query = q PROVE Holds(s, q)
    BY <1>1, <2>3 DEF Holds
  <2> QED BY <2>1, <2>2, <2>3
<1>6. Distinct(s) => Distinct(t) /\ ~Holds(t, s[1].query)
  <2> HIDE DEF t
  <2> SUFFICES ASSUME Distinct(s) PROVE Distinct(t) /\ ~Holds(t, s[1].query)
    OBVIOUS
  <2>1. Distinct(t)
    BY <1>1, <1>3 DEF Distinct
  <2>2. ~Holds(t, s[1].query)
    BY <1>1, <1>3 DEF Distinct, Holds
  <2> QED BY <2>1, <2>2
<1>7. 1 \in 1..Len(s)
  BY <1>1
<1> QED BY <1>1, <1>2, <1>3, <1>5, <1>6, <1>7

\* Writing to a connection changes its state and nothing else.
LEMMA SettleOne ==
    ASSUME NEW c \in ConnectionOrNone, NEW q, NEW st \in {"data", "eof"}
    PROVE  /\ Settle(c, q, st) \in ConnectionOrNone
           /\ c = None <=> Settle(c, q, st) = None
           /\ c # None => Settle(c, q, st).query = c.query
           /\ c # None /\ c.query # q => Settle(c, q, st) = c
           /\ \A p : Carries(Settle(c, q, st), p) <=> Carries(c, p)
BY RelayAssumption DEF Settle, ConnectionOrNone, Connection, Carries

\* Writing to a connection of an accept queue leaves the queue as it is.
LEMMA SettleQueue ==
    ASSUME NEW s \in Seq(Connection), NEW q, NEW st \in {"data", "eof"}
    PROVE  /\ SettleAll(s, q, st) \in Seq(Connection)
           /\ Len(SettleAll(s, q, st)) = Len(s)
           /\ \A i \in 1..Len(s) :
                 /\ SettleAll(s, q, st)[i].query = s[i].query
                 /\ s[i].query # q => SettleAll(s, q, st)[i] = s[i]
           /\ \A p : Holds(SettleAll(s, q, st), p) <=> Holds(s, p)
           /\ Distinct(s) => Distinct(SettleAll(s, q, st))
<1> DEFINE t == SettleAll(s, q, st)
<1>1. DOMAIN s = 1..Len(s) /\ Len(s) \in Nat /\ \A i \in 1..Len(s) : s[i] \in Connection
  OBVIOUS
<1>2. \A i \in 1..Len(s) : t[i] = Settle(s[i], q, st)
  BY <1>1 DEF SettleAll
<1>3. \A i \in 1..Len(s) :
         t[i] \in Connection /\ t[i].query = s[i].query /\ (s[i].query # q => t[i] = s[i])
  <2> HIDE DEF t
  <2> TAKE i \in 1..Len(s)
  <2>1. s[i] \in Connection /\ None \notin Connection
    BY <1>1, RelayAssumption DEF Connection
  <2>2. t[i] \in ConnectionOrNone /\ t[i] # None /\ t[i].query = s[i].query
           /\ (s[i].query # q => t[i] = s[i])
    BY <1>2, <2>1, SettleOne DEF ConnectionOrNone
  <2> QED BY <2>2 DEF ConnectionOrNone
<1>4. t = [i \in 1..Len(s) |-> t[i]]
  BY <1>1 DEF SettleAll
<1>5. t \in Seq(Connection) /\ Len(t) = Len(s)
  <2> HIDE DEF t
  <2> QED BY <1>1, <1>3, <1>4
<1>6. \A p : Holds(t, p) <=> Holds(s, p)
  <2> HIDE DEF t
  <2> QED BY <1>3, <1>5 DEF Holds
<1>7. Distinct(s) => Distinct(t)
  <2> HIDE DEF t
  <2> QED BY <1>3, <1>5 DEF Distinct
<1> QED BY <1>3, <1>5, <1>6, <1>7
-----------------------------------------------------------------------------
\* ClientSend preserves the invariant.
LEMMA ClientSendInv == ASSUME Inv, NEW d \in unsent, ClientSend(d) PROVE Inv'
<1> USE RelayAssumption DEF Inv
<1>1. TypeOK'
  BY DEF ClientSend, Datagram, TypeOK, Control, Datagram, ConnectionOrNone, ServerState, Response
<1>2. Control'
  BY DEF ClientSend, Datagram, TypeOK, Control
<1>3. Inbound'
  BY DEF ClientSend, Datagram, TypeOK, Control, Inbound
<1>4. Outbound'
  BY DEF ClientSend, Datagram, TypeOK, Control, Inbound, Outbound, Unwritten, Fresh, InFlight, Up, Down, Carries, Used
<1>5. Unwritten'
  BY DEF ClientSend, Datagram, TypeOK, Control, Outbound, Unwritten, Up, Down, Carries, Holds, Connection, ConnectionOrNone
<1>6. AtMostOnce' /\ XidMatches'
  BY DEF ClientSend, Datagram, TypeOK, Control, Inbound, Outbound, AtMostOnce, XidMatches, Down, Carries, Used
<1> QED BY <1>1, <1>2, <1>3, <1>4, <1>5, <1>6

\* UdpLoss preserves the invariant.
LEMMA UdpLossInv == ASSUME Inv, NEW d \in unsent, UdpLoss(d) PROVE Inv'
<1> USE RelayAssumption DEF Inv
<1>1. TypeOK'
  BY DEF UdpLoss, dhcp6vars, dhcp4vars, TypeOK, Control, Datagram, ConnectionOrNone, ServerState, Response
<1>2. Control'
  BY DEF UdpLoss, dhcp6vars, dhcp4vars, TypeOK, Control
<1>3. Inbound'
  BY DEF UdpLoss, dhcp6vars, dhcp4vars, TypeOK, Control, Inbound
<1>4. Outbound'
  BY DEF UdpLoss, dhcp6vars, dhcp4vars, TypeOK, Control, Inbound, Outbound, Unwritten, Fresh, InFlight, Up, Down, Carries, Used
<1>5. Unwritten'
  BY DEF UdpLoss, dhcp6vars, dhcp4vars, TypeOK, Control, Outbound, Unwritten, Up, Down, Carries, Holds, Connection, ConnectionOrNone
<1>6. AtMostOnce' /\ XidMatches'
  BY DEF UdpLoss, dhcp6vars, dhcp4vars, TypeOK, Control, Inbound, Outbound, AtMostOnce, XidMatches, Down, Carries, Used
<1> QED BY <1>1, <1>2, <1>3, <1>4, <1>5, <1>6

\* receive6Query preserves the invariant.
LEMMA receive6QueryInv == ASSUME Inv, NEW d \in udp6, receive6Query(d) PROVE Inv'
<1> USE RelayAssumption DEF Inv
<1>1. TypeOK'
  BY DEF receive6Query, dhcp4vars, TypeOK, Control, Datagram, ConnectionOrNone, ServerState, Response
<1>2. Control'
  BY DEF receive6Query, dhcp4vars, TypeOK, Control
<1>3. Inbound'
  BY DEF receive6Query, dhcp4vars, TypeOK, Control, Inbound
<1>4. Outbound'
  BY DEF receive6Query, dhcp4vars, TypeOK, Control, Inbound, Outbound, Unwritten, Fresh, InFlight, Up, Down, Carries, Used
<1>5. Unwritten'
  BY DEF receive6Query, dhcp4vars, TypeOK, Control, Outbound, Unwritten, Up, Down, Carries, Holds, Connection, ConnectionOrNone
<1>6. AtMostOnce' /\ XidMatches'
  BY DEF receive6Query, dhcp4vars, TypeOK, Control, Inbound, Outbound, AtMostOnce, XidMatches, Down, Carries, Used
<1> QED BY <1>1, <1>2, <1>3, <1>4, <1>5, <1>6

\* receive6Native preserves the invariant.
LEMMA receive6NativeInv == ASSUME Inv, NEW d \in udp6, receive6Native(d) PROVE Inv'
<1> USE RelayAssumption DEF Inv
<1>1. TypeOK'
  BY DEF receive6Native, dhcp4vars, TypeOK, Control, Datagram, ConnectionOrNone, ServerState, Response
<1>2. Control'
  BY DEF receive6Native, dhcp4vars, TypeOK, Control
<1>3. Inbound'
  BY DEF receive6Native, dhcp4vars, TypeOK, Control, Inbound
<1>4. Outbound'
  BY DEF receive6Native, dhcp4vars, TypeOK, Control, Inbound, Outbound, Unwritten, Fresh, InFlight, Up, Down, Carries, Used
<1>5. Unwritten'
  BY DEF receive6Native, dhcp4vars, TypeOK, Control, Outbound, Unwritten, Up, Down, Carries, Holds, Connection, ConnectionOrNone
<1>6. AtMostOnce' /\ XidMatches'
  BY DEF receive6Native, dhcp4vars, TypeOK, Control, Inbound, Outbound, AtMostOnce, XidMatches, Down, Carries, Used
<1> QED BY <1>1, <1>2, <1>3, <1>4, <1>5, <1>6

\* connect6to4 preserves the invariant.
LEMMA connect6to4Inv == ASSUME Inv, connect6to4 PROVE Inv'
<1> USE RelayAssumption DEF Inv
<1>1. [query |-> work6, st |-> "open"] \in Connection /\ work6 \in Query
  BY DEF connect6to4, TypeOK, Control, Connection
<1>2. /\ fd_6to4' \in Seq(Connection) /\ Len(fd_6to4') = Len(fd_6to4) + 1
      /\ \A q : Holds(fd_6to4', q) <=> Holds(fd_6to4, q) \/ work6 = q
      /\ ~Holds(fd_6to4, work6) => Distinct(fd_6to4')
  BY <1>1, AppendQueue DEF connect6to4, TypeOK, Outbound
<1>3. TypeOK'
  BY <1>1, <1>2 DEF connect6to4, TypeOK, Control, Datagram, ConnectionOrNone, ServerState, Response
<1>4. Control'
  BY <1>1, <1>2 DEF connect6to4, TypeOK, Control
<1>5. Inbound'
  BY <1>1, <1>2 DEF connect6to4, TypeOK, Control, Inbound
<1>6. Outbound'
  BY <1>1, <1>2 DEF connect6to4, TypeOK, Control, Inbound, Outbound, Unwritten, Fresh, InFlight, Up, Down, Carries, Used
<1>7. Unwritten'
  BY <1>1, <1>2 DEF connect6to4, TypeOK, Control, Outbound, Unwritten, Up, Down, Carries, Holds, Connection, ConnectionOrNone
<1>8. AtMostOnce' /\ XidMatches'
  BY <1>1, <1>2 DEF connect6to4, TypeOK, Control, Inbound, Outbound, AtMostOnce, XidMatches, Down, Carries, Used
<1> QED BY <1>3, <1>4, <1>5, <1>6, <1>7, <1>8

\* connectRefused6to4 preserves the invariant.
LEMMA connectRefused6to4Inv == ASSUME Inv, connectRefused6to4 PROVE Inv'
<1> USE RelayAssumption DEF Inv
<1>1. TypeOK'
  BY DEF connectRefused6to4, dhcp4vars, TypeOK, Control, Datagram, ConnectionOrNone, ServerState, Response
<1>2. Control'
  BY DEF connectRefused6to4, dhcp4vars, TypeOK, Control
<1>3. Inbound'
  BY DEF connectRefused6to4, dhcp4vars, TypeOK, Control, Inbound, Datagram, Response
<1>4. Outbound'
  BY DEF connectRefused6to4, dhcp4vars, TypeOK, Control, Inbound, Outbound, Unwritten, Fresh, InFlight, Up, Down, Carries, Used
<1>5. Unwritten'
  BY DEF connectRefused6to4, dhcp4vars, TypeOK, Control, Outbound, Unwritten, Up, Down, Carries, Holds, Connection, ConnectionOrNone
<1>6. AtMostOnce' /\ XidMatches'
  BY DEF connectRefused6to4, dhcp4vars, TypeOK, Control, Inbound, Outbound, AtMostOnce, XidMatches, Down, Carries, Used
<1> QED BY <1>1, <1>2, <1>3, <1>4, <1>5, <1>6

\* write6to4 preserves the invariant.
LEMMA write6to4Inv == ASSUME Inv, write6to4 PROVE Inv'
<1> USE RelayAssumption DEF Inv
<1>1. /\ fd_6to4' \in Seq(Connection) /\ Len(fd_6to4') = Len(fd_6to4)
      /\ \A i \in 1..Len(fd_6to4) :
            fd_6to4'[i].query = fd_6to4[i].query /\ (fd_6to4[i].query # work6 => fd_6to4'[i] = fd_6to4[i])
      /\ \A p : Holds(fd_6to4', p) <=> Holds(fd_6to4, p)
      /\ Distinct(fd_6to4')
  BY SettleQueue DEF write6to4, TypeOK, Outbound
<1>2. /\ conn4' \in ConnectionOrNone /\ (conn4 = None <=> conn4' = None)
      /\ conn4 # None => conn4'.query = conn4.query
      /\ conn4 # None /\ conn4.query # work6 => conn4' = conn4
      /\ \A p : Carries(conn4', p) <=> Carries(conn4, p)
  BY <1>1, SettleOne DEF write6to4, TypeOK, Outbound
<1>3. TypeOK'
  BY <1>1, <1>2 DEF write6to4, TypeOK, Control, Datagram, ConnectionOrNone, ServerState, Response
<1>4. Control'
  BY <1>1, <1>2 DEF write6to4, TypeOK, Control
<1>5. Inbound'
  BY <1>1, <1>2 DEF write6to4, TypeOK, Control, Inbound, Datagram, Response
<1>6. Outbound'
  BY <1>1, <1>2 DEF write6to4, TypeOK, Control, Inbound, Outbound, Unwritten, Fresh, InFlight, Up, Down, Carries, Used
<1>7. Unwritten'
  BY <1>1, <1>2 DEF write6to4, TypeOK, Control, Outbound, Unwritten, Up, Down, Carries, Holds, Connection, ConnectionOrNone
<1>8. AtMostOnce' /\ XidMatches'
  BY <1>1, <1>2 DEF write6to4, TypeOK, Control, Inbound, Outbound, AtMostOnce, XidMatches, Down, Carries, Used
<1> QED BY <1>3, <1>4, <1>5, <1>6, <1>7, <1>8

\* receive4to6 preserves the invariant.
LEMMA receive4to6Inv == ASSUME Inv, receive4to6 PROVE Inv'
<1> USE RelayAssumption DEF Inv
<1>1. /\ fd_4to6' \in Seq(Connection) /\ Len(fd_4to6') = Len(fd_4to6) - 1
      /\ conn6' \in Connection /\ conn6' = fd_4to6[1] /\ 1 \in 1..Len(fd_4to6)
      /\ \A i \in 1..Len(fd_4to6') : i + 1 \in 1..Len(fd_4to6) /\ fd_4to6'[i] = fd_4to6[i + 1]
      /\ \A q : Holds(fd_4to6, q) <=> Holds(fd_4to6', q) \/ conn6'.query = q
      /\ Distinct(fd_4to6') /\ ~Holds(fd_4to6', conn6'.query)
  BY TailQueue DEF receive4to6, TypeOK, Outbound
<1>2. TypeOK'
  BY <1>1 DEF receive4to6, dhcp4vars, TypeOK, Control, Datagram, ConnectionOrNone, ServerState, Response
<1>3. Control'
  BY <1>1 DEF receive4to6, dhcp4vars, TypeOK, Control, Connection
<1>4. Inbound'
  BY <1>1 DEF receive4to6, dhcp4vars, TypeOK, Control, Inbound
<1>5. Outbound'
  BY <1>1 DEF receive4to6, dhcp4vars, TypeOK, Control, Inbound, Outbound, Unwritten, Fresh, InFlight, Up, Down, Carries, Used
<1>6. Unwritten'
  BY <1>1 DEF receive4to6, dhcp4vars, TypeOK, Control, Outbound, Unwritten, Up, Down, Carries, Holds, Connection, ConnectionOrNone
<1>7. AtMostOnce' /\ XidMatches'
  BY <1>1 DEF receive4to6, dhcp4vars, TypeOK, Control, Inbound, Outbound, AtMostOnce, XidMatches, Down, Carries, Used
<1> QED BY <1>2, <1>3, <1>4, <1>5, <1>6, <1>7

\* processDHCPv4Response preserves the invariant.
LEMMA processDHCPv4ResponseInv == ASSUME Inv, processDHCPv4Response PROVE Inv'
<1> USE RelayAssumption DEF Inv
<1> DEFINE a == conn6.query
           x == xid[a]
           q == map4o6[x]
<1>1. a \in Query /\ x \in Xid /\ q \in Query \cup {None}
  BY DEF processDHCPv4Response, TypeOK, Control, ConnectionOrNone, Connection
<1>2. /\ map4o6' = [map4o6 EXCEPT ![x] = None]
      /\ sent' = IF q = None THEN sent ELSE sent \cup {[to |-> q, answer |-> a]}
  BY DEF processDHCPv4Response
<1>3. map4o6'[x] = None /\ \A y \in Xid \ {x} : map4o6'[y] = map4o6[y]
  BY <1>1, <1>2 DEF TypeOK
<1>4. a \in Answered /\ ~Used(a)
  BY <1>1 DEF processDHCPv4Response, Control, Outbound, Down, Carries
<1>5. q # None => /\ xid[q] = x
                  /\ q \notin unsent \cup udp6 \cup {work6}
                  /\ \A r \in sent : r.to # q
  BY <1>1 DEF Inbound
<1>6. \A y \in Xid : y # x /\ q # None => map4o6[y] # q
  BY <1>1, <1>5 DEF Inbound
<1>7. [to |-> q, answer |-> a].to = q /\ [to |-> q, answer |-> a].answer = a
  OBVIOUS
<1>8. TypeOK'
  <2>1. map4o6' \in [Xid -> Query \cup {None}]
    BY <1>1, <1>2 DEF TypeOK
  <2>2. sent' \subseteq Response
    BY <1>1, <1>2 DEF TypeOK, Response
  <2> QED
    BY <2>1, <2>2 DEF processDHCPv4Response, dhcp4vars, TypeOK, ServerState,
                      ConnectionOrNone
<1>9. Control'
  BY DEF processDHCPv4Response, dhcp4vars, TypeOK, Control
<1> HIDE DEF a, x, q
<1>10. Inbound'
  <2>1. UNCHANGED <<unsent, udp6, work6>>
    BY DEF processDHCPv4Response
  <2>2. \A y \in Xid : map4o6'[y] # None => y # x /\ map4o6'[y] = map4o6[y]
    BY <1>3
  <2>3. ASSUME NEW r \in sent'
        PROVE  /\ r.to \notin unsent \cup udp6 \cup {work6}
               /\ \A y \in Xid : map4o6'[y] # r.to
    <3>1. r.to \in Query
      BY <1>8 DEF TypeOK, Response
    <3>2. CASE r \in sent
      BY <2>2, <3>1, <3>2 DEF Inbound
    <3>3. CASE r \notin sent
      BY <1>2, <1>5, <1>6, <1>7, <2>2, <3>1, <3>3
    <3> QED BY <3>2, <3>3
  <2> QED BY <2>1, <2>2, <2>3 DEF Inbound
<1>11. Outbound'
  <2>1. \A p : Used(p)' => Used(p) \/ p = a
    BY <1>2, <1>7 DEF Used
  <2>2. UNCHANGED <<unsent, udp6, fd_6to4, fd_4to6, conn4, work4, work6, pc4>>
        /\ conn6' = None /\ pc6' = "select" /\ conn6 # None
    BY DEF processDHCPv4Response, dhcp4vars, Control
  <2>3. \A p : Down(p) <=> Holds(fd_4to6, p) \/ p = a
    BY <2>2 DEF Down, Carries, a
  <2>4. \A p : Down(p)' <=> Holds(fd_4to6, p)
    BY <2>2 DEF Down, Carries
  <2>5. ~Holds(fd_4to6, a) /\ Down(a)
    BY <2>2, <2>3 DEF Outbound, a
  <2>6. work4 # a
    BY <2>2 DEF Unwritten, processDHCPv4Response, a
  <2>7. \A p : Up(p)' <=> Up(p)
    BY <2>2 DEF Up
  <2>8. \A p : InFlight(p) <=> Up(p) \/ work4 = p \/ Down(p)
    BY DEF InFlight, Up, Down
  <2>9. \A p : InFlight(p)' <=> Up(p)' \/ work4 = p \/ Down(p)'
    BY <2>2 DEF InFlight, Up, Down
  <2>10. \A p : Fresh(p)' => Fresh(p)
    BY <2>2 DEF Fresh
  <2> QED
    BY <1>1, <1>4, <2>1, <2>2, <2>3, <2>4, <2>5, <2>6, <2>7, <2>8, <2>9, <2>10
       DEF Outbound
<1>12. Unwritten'
  BY DEF processDHCPv4Response, dhcp4vars, TypeOK, Unwritten
<1>13. AtMostOnce' /\ XidMatches'
  <2>1. AtMostOnce'
    BY <1>2, <1>4, <1>5, <1>7 DEF AtMostOnce, Used
  <2>2. XidMatches'
    BY <1>2, <1>4, <1>5, <1>7 DEF XidMatches, x
  <2> QED BY <2>1, <2>2
<1> QED BY <1>8, <1>9, <1>10, <1>11, <1>12, <1>13

\* readEof4to6 preserves the invariant.
LEMMA readEof4to6Inv == ASSUME Inv, readEof4to6 PROVE Inv'
<1> USE RelayAssumption DEF Inv
<1>1. /\ fd_6to4' \in Seq(Connection) /\ Len(fd_6to4') = Len(fd_6to4)
      /\ \A i \in 1..Len(fd_6to4) :
            fd_6to4'[i].query = fd_6to4[i].query /\ (fd_6to4[i].query # work6 => fd_6to4'[i] = fd_6to4[i])
      /\ \A p : Holds(fd_6to4', p) <=> Holds(fd_6to4, p)
      /\ Distinct(fd_6to4')
  BY SettleQueue DEF readEof4to6, TypeOK, Outbound, Die6
<1>2. /\ conn4' \in ConnectionOrNone /\ (conn4 = None <=> conn4' = None)
      /\ conn4 # None => conn4'.query = conn4.query
      /\ conn4 # None /\ conn4.query # work6 => conn4' = conn4
      /\ \A p : Carries(conn4', p) <=> Carries(conn4, p)
  BY <1>1, SettleOne DEF readEof4to6, TypeOK, Outbound, Die6
<1>3. TypeOK'
  BY EmptyQueue, <1>1, <1>2 DEF readEof4to6, Die6, TypeOK, Control, Datagram, ConnectionOrNone, ServerState, Response
<1>4. Control'
  BY EmptyQueue, <1>1, <1>2 DEF readEof4to6, Die6, TypeOK, Control
<1>5. Inbound'
  BY EmptyQueue, <1>1, <1>2 DEF readEof4to6, Die6, TypeOK, Control, Inbound, Datagram, Response
<1>6. Outbound'
  BY EmptyQueue, <1>1, <1>2 DEF readEof4to6, Die6, TypeOK, Control, Inbound, Outbound, Unwritten, Fresh, InFlight, Up, Down, Carries, Used
<1>7. Unwritten'
  BY EmptyQueue, <1>1, <1>2 DEF readEof4to6, Die6, TypeOK, Control, Outbound, Unwritten, Up, Down, Carries, Holds, Connection, ConnectionOrNone
<1>8. AtMostOnce' /\ XidMatches'
  BY EmptyQueue, <1>1, <1>2 DEF readEof4to6, Die6, TypeOK, Control, Inbound, Outbound, AtMostOnce, XidMatches, Down, Carries, Used
<1> QED BY <1>3, <1>4, <1>5, <1>6, <1>7, <1>8

\* Crash6 preserves the invariant.
LEMMA Crash6Inv == ASSUME Inv, Crash6 PROVE Inv'
<1> USE RelayAssumption DEF Inv
<1>1. /\ fd_6to4' \in Seq(Connection) /\ Len(fd_6to4') = Len(fd_6to4)
      /\ \A i \in 1..Len(fd_6to4) :
            fd_6to4'[i].query = fd_6to4[i].query /\ (fd_6to4[i].query # work6 => fd_6to4'[i] = fd_6to4[i])
      /\ \A p : Holds(fd_6to4', p) <=> Holds(fd_6to4, p)
      /\ Distinct(fd_6to4')
  BY SettleQueue DEF Crash6, TypeOK, Outbound, Die6
<1>2. /\ conn4' \in ConnectionOrNone /\ (conn4 = None <=> conn4' = None)
      /\ conn4 # None => conn4'.query = conn4.query
      /\ conn4 # None /\ conn4.query # work6 => conn4' = conn4
      /\ \A p : Carries(conn4', p) <=> Carries(conn4, p)
  BY <1>1, SettleOne DEF Crash6, TypeOK, Outbound, Die6
<1>3. TypeOK'
  BY EmptyQueue, <1>1, <1>2 DEF Crash6, Die6, TypeOK, Control, Datagram, ConnectionOrNone, ServerState, Response
<1>4. Control'
  BY EmptyQueue, <1>1, <1>2 DEF Crash6, Die6, TypeOK, Control
<1>5. Inbound'
  BY EmptyQueue, <1>1, <1>2 DEF Crash6, Die6, TypeOK, Control, Inbound, Datagram, Response
<1>6. Outbound'
  BY EmptyQueue, <1>1, <1>2 DEF Crash6, Die6, TypeOK, Control, Inbound, Outbound, Unwritten, Fresh, InFlight, Up, Down, Carries, Used
<1>7. Unwritten'
  BY EmptyQueue, <1>1, <1>2 DEF Crash6, Die6, TypeOK, Control, Outbound, Unwritten, Up, Down, Carries, Holds, Connection, ConnectionOrNone
<1>8. AtMostOnce' /\ XidMatches'
  BY EmptyQueue, <1>1, <1>2 DEF Crash6, Die6, TypeOK, Control, Inbound, Outbound, AtMostOnce, XidMatches, Down, Carries, Used
<1> QED BY <1>3, <1>4, <1>5, <1>6, <1>7, <1>8

\* Start6 preserves the invariant.
LEMMA Start6Inv == ASSUME Inv, Start6 PROVE Inv'
<1> USE RelayAssumption DEF Inv
<1>1. TypeOK'
  BY DEF Start6, dhcp4vars, TypeOK, Control, Datagram, ConnectionOrNone, ServerState, Response
<1>2. Control'
  BY DEF Start6, dhcp4vars, TypeOK, Control
<1>3. Inbound'
  BY DEF Start6, dhcp4vars, TypeOK, Control, Inbound
<1>4. Outbound'
  BY DEF Start6, dhcp4vars, TypeOK, Control, Inbound, Outbound, Unwritten, Fresh, InFlight, Up, Down, Carries, Used
<1>5. Unwritten'
  BY DEF Start6, dhcp4vars, TypeOK, Control, Outbound, Unwritten, Up, Down, Carries, Holds, Connection, ConnectionOrNone
<1>6. AtMostOnce' /\ XidMatches'
  BY DEF Start6, dhcp4vars, TypeOK, Control, Inbound, Outbound, AtMostOnce, XidMatches, Down, Carries, Used
<1> QED BY <1>1, <1>2, <1>3, <1>4, <1>5, <1>6

\* receive4Native preserves the invariant.
LEMMA receive4NativeInv == ASSUME Inv, NEW d \in udp4, receive4Native(d) PROVE Inv'
<1> USE RelayAssumption DEF Inv
<1>1. TypeOK'
  BY DEF receive4Native, dhcp6vars, TypeOK, Control, Datagram, ConnectionOrNone, ServerState, Response
<1>2. Control'
  BY DEF receive4Native, dhcp6vars, TypeOK, Control
<1>3. Inbound'
  BY DEF receive4Native, dhcp6vars, TypeOK, Control, Inbound
<1>4. Outbound'
  BY DEF receive4Native, dhcp6vars, TypeOK, Control, Inbound, Outbound, Unwritten, Fresh, InFlight, Up, Down, Carries, Used
<1>5. Unwritten'
  BY DEF receive4Native, dhcp6vars, TypeOK, Control, Outbound, Unwritten, Up, Down, Carries, Holds, Connection, ConnectionOrNone
<1>6. AtMostOnce' /\ XidMatches'
  BY DEF receive4Native, dhcp6vars, TypeOK, Control, Inbound, Outbound, AtMostOnce, XidMatches, Down, Carries, Used
<1> QED BY <1>1, <1>2, <1>3, <1>4, <1>5, <1>6

\* receive6to4 preserves the invariant.
LEMMA receive6to4Inv == ASSUME Inv, receive6to4 PROVE Inv'
<1> USE RelayAssumption DEF Inv
<1>1. /\ fd_6to4' \in Seq(Connection) /\ Len(fd_6to4') = Len(fd_6to4) - 1
      /\ conn4' \in Connection /\ conn4' = fd_6to4[1] /\ 1 \in 1..Len(fd_6to4)
      /\ \A i \in 1..Len(fd_6to4') : i + 1 \in 1..Len(fd_6to4) /\ fd_6to4'[i] = fd_6to4[i + 1]
      /\ \A q : Holds(fd_6to4, q) <=> Holds(fd_6to4', q) \/ conn4'.query = q
      /\ Distinct(fd_6to4') /\ ~Holds(fd_6to4', conn4'.query)
  BY TailQueue DEF receive6to4, TypeOK, Outbound
<1>2. TypeOK'
  BY <1>1 DEF receive6to4, dhcp6vars, TypeOK, Control, Datagram, ConnectionOrNone, ServerState, Response
<1>3. Control'
  BY <1>1 DEF receive6to4, dhcp6vars, TypeOK, Control, Connection
<1>4. Inbound'
  BY <1>1 DEF receive6to4, dhcp6vars, TypeOK, Control, Inbound
<1>5. Outbound'
  BY <1>1 DEF receive6to4, dhcp6vars, TypeOK, Control, Inbound, Outbound, Unwritten, Fresh, InFlight, Up, Down, Carries, Used
<1>6. Unwritten'
  BY <1>1 DEF receive6to4, dhcp6vars, TypeOK, Control, Outbound, Unwritten, Up, Down, Carries, Holds, Connection, ConnectionOrNone
<1>7. AtMostOnce' /\ XidMatches'
  BY <1>1 DEF receive6to4, dhcp6vars, TypeOK, Control, Inbound, Outbound, AtMostOnce, XidMatches, Down, Carries, Used
<1> QED BY <1>2, <1>3, <1>4, <1>5, <1>6, <1>7

\* process4o6 preserves the invariant.
LEMMA process4o6Inv == ASSUME Inv, process4o6 PROVE Inv'
<1> USE RelayAssumption DEF Inv
<1>1. TypeOK'
  BY DEF process4o6, dhcp6vars, TypeOK, Control, Datagram, ConnectionOrNone, ServerState, Response
<1>2. Control'
  BY DEF process4o6, dhcp6vars, TypeOK, Control
<1>3. Inbound'
  BY DEF process4o6, dhcp6vars, TypeOK, Control, Inbound
<1>4. Outbound'
  BY DEF process4o6, dhcp6vars, TypeOK, Control, Inbound, Outbound, Unwritten, Fresh, InFlight, Up, Down, Carries, Used
<1>5. Unwritten'
  BY DEF process4o6, dhcp6vars, TypeOK, Control, Outbound, Unwritten, Up, Down, Carries, Holds, Connection, ConnectionOrNone
<1>6. AtMostOnce' /\ XidMatches'
  BY DEF process4o6, dhcp6vars, TypeOK, Control, Inbound, Outbound, AtMostOnce, XidMatches, Down, Carries, Used
<1> QED BY <1>1, <1>2, <1>3, <1>4, <1>5, <1>6

\* readEof6to4 preserves the invariant.
LEMMA readEof6to4Inv == ASSUME Inv, readEof6to4 PROVE Inv'
<1> USE RelayAssumption DEF Inv
<1>1. TypeOK'
  BY DEF readEof6to4, dhcp6vars, TypeOK, Control, Datagram, ConnectionOrNone, ServerState, Response
<1>2. Control'
  BY DEF readEof6to4, dhcp6vars, TypeOK, Control
<1>3. Inbound'
  BY DEF readEof6to4, dhcp6vars, TypeOK, Control, Inbound
<1>4. Outbound'
  BY DEF readEof6to4, dhcp6vars, TypeOK, Control, Inbound, Outbound, Unwritten, Fresh, InFlight, Up, Down, Carries, Used
<1>5. Unwritten'
  BY DEF readEof6to4, dhcp6vars, TypeOK, Control, Outbound, Unwritten, Up, Down, Carries, Holds, Connection, ConnectionOrNone
<1>6. AtMostOnce' /\ XidMatches'
  BY DEF readEof6to4, dhcp6vars, TypeOK, Control, Inbound, Outbound, AtMostOnce, XidMatches, Down, Carries, Used
<1> QED BY <1>1, <1>2, <1>3, <1>4, <1>5, <1>6

\* connect4to6 preserves the invariant.
LEMMA connect4to6Inv == ASSUME Inv, connect4to6 PROVE Inv'
<1> USE RelayAssumption DEF Inv
<1>1. [query |-> work4, st |-> "open"] \in Connection /\ work4 \in Query
  BY DEF connect4to6, TypeOK, Control, Connection
<1>2. /\ fd_4to6' \in Seq(Connection) /\ Len(fd_4to6') = Len(fd_4to6) + 1
      /\ \A q : Holds(fd_4to6', q) <=> Holds(fd_4to6, q) \/ work4 = q
      /\ ~Holds(fd_4to6, work4) => Distinct(fd_4to6')
  BY <1>1, AppendQueue DEF connect4to6, TypeOK, Outbound
<1>3. TypeOK'
  BY <1>1, <1>2 DEF connect4to6, TypeOK, Control, Datagram, ConnectionOrNone, ServerState, Response
<1>4. Control'
  BY <1>1, <1>2 DEF connect4to6, TypeOK, Control
<1>5. Inbound'
  BY <1>1, <1>2 DEF connect4to6, TypeOK, Control, Inbound
<1>6. Outbound'
  BY <1>1, <1>2 DEF connect4to6, TypeOK, Control, Inbound, Outbound, Unwritten, Fresh, InFlight, Up, Down, Carries, Used
<1>7. Unwritten'
  BY <1>1, <1>2 DEF connect4to6, TypeOK, Control, Outbound, Unwritten, Up, Down, Carries, Holds, Connection, ConnectionOrNone
<1>8. AtMostOnce' /\ XidMatches'
  BY <1>1, <1>2 DEF connect4to6, TypeOK, Control, Inbound, Outbound, AtMostOnce, XidMatches, Down, Carries, Used
<1> QED BY <1>3, <1>4, <1>5, <1>6, <1>7, <1>8

\* connectRefused4to6 preserves the invariant.
LEMMA connectRefused4to6Inv == ASSUME Inv, connectRefused4to6 PROVE Inv'
<1> USE RelayAssumption DEF Inv
<1>1. TypeOK'
  BY DEF connectRefused4to6, dhcp6vars, TypeOK, Control, Datagram, ConnectionOrNone, ServerState, Response
<1>2. Control'
  BY DEF connectRefused4to6, dhcp6vars, TypeOK, Control
<1>3. Inbound'
  BY DEF connectRefused4to6, dhcp6vars, TypeOK, Control, Inbound
<1>4. Outbound'
  BY DEF connectRefused4to6, dhcp6vars, TypeOK, Control, Inbound, Outbound, Unwritten, Fresh, InFlight, Up, Down, Carries, Used
<1>5. Unwritten'
  <2>1. \A i \in 1..Len(fd_4to6') : fd_4to6'[i].query \in Query
    BY <1>1, QueueElement DEF TypeOK
  <2>2. conn6' # None => conn6'.query \in Query
    BY <1>1 DEF TypeOK, Connection, ConnectionOrNone
  <2> QED BY <2>1, <2>2 DEF connectRefused4to6, Unwritten
<1>6. AtMostOnce' /\ XidMatches'
  BY DEF connectRefused4to6, dhcp6vars, TypeOK, Control, Inbound, Outbound, AtMostOnce, XidMatches, Down, Carries, Used
<1> QED BY <1>1, <1>2, <1>3, <1>4, <1>5, <1>6

\* write4to6 preserves the invariant.
LEMMA write4to6Inv == ASSUME Inv, write4to6 PROVE Inv'
<1> USE RelayAssumption DEF Inv
<1>1. /\ fd_4to6' \in Seq(Connection) /\ Len(fd_4to6') = Len(fd_4to6)
      /\ \A i \in 1..Len(fd_4to6) :
            fd_4to6'[i].query = fd_4to6[i].query /\ (fd_4to6[i].query # work4 => fd_4to6'[i] = fd_4to6[i])
      /\ \A p : Holds(fd_4to6', p) <=> Holds(fd_4to6, p)
      /\ Distinct(fd_4to6')
  BY SettleQueue DEF write4to6, TypeOK, Outbound
<1>2. /\ conn6' \in ConnectionOrNone /\ (conn6 = None <=> conn6' = None)
      /\ conn6 # None => conn6'.query = conn6.query
      /\ conn6 # None /\ conn6.query # work4 => conn6' = conn6
      /\ \A p : Carries(conn6', p) <=> Carries(conn6, p)
  BY <1>1, SettleOne DEF write4to6, TypeOK, Outbound
<1>3. TypeOK'
  BY <1>1, <1>2 DEF write4to6, TypeOK, Control, Datagram, ConnectionOrNone, ServerState, Response
<1>4. Control'
  BY <1>1, <1>2 DEF write4to6, TypeOK, Control
<1>5. Inbound'
  BY <1>1, <1>2 DEF write4to6, TypeOK, Control, Inbound
<1>6. Outbound'
  BY <1>1, <1>2 DEF write4to6, TypeOK, Control, Inbound, Outbound, Unwritten, Fresh, InFlight, Up, Down, Carries, Used
<1>7. Unwritten'
  <2>1. \A i \in 1..Len(fd_4to6') : fd_4to6'[i].query \in Query
    BY <1>3, QueueElement DEF TypeOK
  <2>2. conn6' # None => conn6'.query \in Query
    BY <1>3 DEF TypeOK, Connection, ConnectionOrNone
  <2> QED BY <2>1, <2>2 DEF write4to6, Unwritten
<1>8. AtMostOnce' /\ XidMatches'
  BY <1>1, <1>2 DEF write4to6, TypeOK, Control, Inbound, Outbound, AtMostOnce, XidMatches, Down, Carries, Used
<1> QED BY <1>3, <1>4, <1>5, <1>6, <1>7, <1>8

\* Crash4 preserves the invariant.
LEMMA Crash4Inv == ASSUME Inv, Crash4 PROVE Inv'
<1> USE RelayAssumption DEF Inv
<1>1. /\ fd_4to6' \in Seq(Connection) /\ Len(fd_4to6') = Len(fd_4to6)
      /\ \A i \in 1..Len(fd_4to6) :
            fd_4to6'[i].query = fd_4to6[i].query /\ (fd_4to6[i].query # work4 => fd_4to6'[i] = fd_4to6[i])
      /\ \A p : Holds(fd_4to6', p) <=> Holds(fd_4to6, p)
      /\ Distinct(fd_4to6')
  BY SettleQueue DEF Crash4, TypeOK, Outbound
<1>2. /\ conn6' \in ConnectionOrNone /\ (conn6 = None <=> conn6' = None)
      /\ conn6 # None => conn6'.query = conn6.query
      /\ conn6 # None /\ conn6.query # work4 => conn6' = conn6
      /\ \A p : Carries(conn6', p) <=> Carries(conn6, p)
  BY <1>1, SettleOne DEF Crash4, TypeOK, Outbound
<1>3. TypeOK'
  BY EmptyQueue, <1>1, <1>2 DEF Crash4, TypeOK, Control, Datagram, ConnectionOrNone, ServerState, Response
<1>4. Control'
  BY EmptyQueue, <1>1, <1>2 DEF Crash4, TypeOK, Control
<1>5. Inbound'
  BY EmptyQueue, <1>1, <1>2 DEF Crash4, TypeOK, Control, Inbound
<1>6. Outbound'
  BY EmptyQueue, <1>1, <1>2 DEF Crash4, TypeOK, Control, Inbound, Outbound, Unwritten, Fresh, InFlight, Up, Down, Carries, Used
<1>7. Unwritten'
  <2>1. \A i \in 1..Len(fd_4to6') : fd_4to6'[i].query \in Query
    BY <1>3, QueueElement DEF TypeOK
  <2>2. conn6' # None => conn6'.query \in Query
    BY <1>3 DEF TypeOK, Connection, ConnectionOrNone
  <2> QED BY <2>1, <2>2 DEF Crash4, Unwritten
<1>8. AtMostOnce' /\ XidMatches'
  BY EmptyQueue, <1>1, <1>2 DEF Crash4, TypeOK, Control, Inbound, Outbound, AtMostOnce, XidMatches, Down, Carries, Used
<1> QED BY <1>3, <1>4, <1>5, <1>6, <1>7, <1>8

\* Start4 preserves the invariant.
LEMMA Start4Inv == ASSUME Inv, Start4 PROVE Inv'
<1> USE RelayAssumption DEF Inv
<1>1. TypeOK'
  BY DEF Start4, dhcp6vars, TypeOK, Control, Datagram, ConnectionOrNone, ServerState, Response
<1>2. Control'
  BY DEF Start4, dhcp6vars, TypeOK, Control
<1>3. Inbound'
  BY DEF Start4, dhcp6vars, TypeOK, Control, Inbound
<1>4. Outbound'
  BY DEF Start4, dhcp6vars, TypeOK, Control, Inbound, Outbound, Unwritten, Fresh, InFlight, Up, Down, Carries, Used
<1>5. Unwritten'
  BY DEF Start4, dhcp6vars, TypeOK, Control, Outbound, Unwritten, Up, Down, Carries, Holds, Connection, ConnectionOrNone
<1>6. AtMostOnce' /\ XidMatches'
  BY DEF Start4, dhcp6vars, TypeOK, Control, Inbound, Outbound, AtMostOnce, XidMatches, Down, Carries, Used
<1> QED BY <1>1, <1>2, <1>3, <1>4, <1>5, <1>6
-----------------------------------------------------------------------------
\* Both servers start with empty sockets and nothing remembered.
LEMMA InitInv == Init => Inv
<1> SUFFICES ASSUME Init PROVE Inv
  OBVIOUS
<1> USE RelayAssumption DEF Init
<1>1. TypeOK
  BY EmptyQueue DEF TypeOK, Datagram, ServerState, ConnectionOrNone
<1>2. Control /\ Inbound
  BY DEF Control, Inbound, Datagram
<1>3. Outbound /\ Unwritten
  BY EmptyQueue DEF Outbound, Unwritten, Up, Down, Used, Fresh, InFlight, Carries
<1>4. AtMostOnce /\ XidMatches
  BY DEF AtMostOnce, XidMatches
<1> QED BY <1>1, <1>2, <1>3, <1>4 DEF Inv

\* Every step of the servers, of the clients and of the network preserves Inv.
LEMMA NextInv == Inv /\ [Next]_vars => Inv'
<1> SUFFICES ASSUME Inv, [Next]_vars PROVE Inv'
  OBVIOUS
<1>1. CASE Server6
  BY <1>1, receive6QueryInv, receive6NativeInv, connect6to4Inv,
     connectRefused6to4Inv, write6to4Inv, receive4to6Inv,
     processDHCPv4ResponseInv, readEof4to6Inv, Start6Inv DEF Server6
<1>2. CASE Server4
  BY <1>2, receive4NativeInv, receive6to4Inv, process4o6Inv, readEof6to4Inv,
     connect4to6Inv, connectRefused4to6Inv, write4to6Inv, Start4Inv DEF Server4
<1>3. CASE Environment
  BY <1>3, ClientSendInv, UdpLossInv, Crash6Inv, Crash4Inv DEF Environment
<1>4. CASE UNCHANGED vars
  BY <1>4 DEF vars, Inv, TypeOK, Control, Inbound, Outbound, Unwritten, AtMostOnce,
     XidMatches, Up, Down, Used, Fresh, InFlight
<1> QED BY <1>1, <1>2, <1>3, <1>4 DEF Next

\* In every reachable state each query is in one place.
THEOREM Invariance == Spec => []Inv
BY InitInv, NextInv, PTL DEF Spec

\* The variables of both servers keep their types and the accept queues their
\* bounds.
THEOREM TypeCorrect == Spec => []TypeOK
<1>1. Inv => TypeOK
  BY DEF Inv
<1> QED BY <1>1, Invariance, PTL

\* No query is answered twice and no reply of b10-dhcp4 is delivered twice.
THEOREM AnsweredAtMostOnce == Spec => []AtMostOnce
<1>1. Inv => AtMostOnce
  BY DEF Inv
<1> QED BY <1>1, Invariance, PTL

\* A client gets replies of the transaction it asked about only.
THEOREM ReplyOfTransaction == Spec => []XidMatches
<1>1. Inv => XidMatches
  BY DEF Inv
<1> QED BY <1>1, Invariance, PTL

\* When no two clients use the same transaction id, a client gets replies to
\* its own queries only.
THEOREM ReplyToOwner ==
    ASSUME XidsPrivate
    PROVE  Spec => []OwnReply
<1>1. Inv => OwnReply
  BY RelayAssumption DEF XidsPrivate, Inv, TypeOK, Response, XidMatches, OwnReply
<1> QED BY <1>1, Invariance, PTL
=============================================================================
