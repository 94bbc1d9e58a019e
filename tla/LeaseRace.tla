----------------------------- MODULE LeaseRace -----------------------------
(***************************************************************************)
(* Several b10-dhcp4 processes that share one MySQL lease database.  Each  *)
(* statement is a transaction of its own (autocommit), so a process acts   *)
(* on what an earlier statement returned.  Clients send no client id and   *)
(* no hint; a REQUEST may be received by more than one process.            *)
(***************************************************************************)
EXTENDS Pools, FiniteSets

CONSTANTS
    Server,       \* the processes
    Device,       \* clients, known by their hardware addresses
    TheSubnet,    \* every process is configured with the same subnet
    attempts,     \* addresses tried before giving up
    ValidLft,     \* valid lifetime of a lease
    MaxTime,      \* the clock stops here
    MaxRequests,  \* bound on the REQUESTs of a device, copies included
    None

Address == {a \in IOAddress : inPool(TheSubnet.pools, a)}
Row == [hwaddr : Device, cltt : 0..MaxTime]

ASSUME RaceAssumption ==
    /\ TheSubnet \in Subnet /\ TheSubnet.pools # <<>>
    /\ attempts \in Nat \ {0} /\ ValidLft \in Nat /\ MaxTime \in Nat
    /\ MaxRequests \in Nat
    /\ 0 \notin Address /\ None \notin Device \cup Row

VARIABLES
    lease4,          \* the table: a row, or None, for each address (the key)
    pc,              \* the next statement of each process
    client,          \* the device whose REQUEST the process works on
    candidate,       \* the address the process is about to check or store
    tries,           \* attempts left
    last_allocated,  \* of the process's subnet object
    requests,        \* REQUESTs of each device received so far
    held,            \* the address each device may use, and until when
    now

vars == <<lease4, pc, client, candidate, tries, last_allocated, requests, held, now>>

NoAddress == [addr |-> 0, until |-> 0]
Holds(d) == held[d].addr # 0 /\ now <= held[d].until
Rows(d) == {a \in Address : lease4[a] # None /\ lease4[a].hwaddr = d}

Init ==
    /\ lease4 = [a \in Address |-> None]
    /\ pc = [p \in Server |-> "receive"]
    /\ client = [p \in Server |-> None]
    /\ candidate = [p \in Server |-> 0]
    /\ tries = [p \in Server |-> 0]
    /\ last_allocated = [p \in Server |-> lastAddrInPrefix(TheSubnet)]
    /\ requests = [d \in Device |-> 0]
    /\ held = [d \in Device |-> NoAddress]
    /\ now = 0

Goto(p, l) == pc' = [pc EXCEPT ![p] = l]

\* The message is dealt with.
Finish(p) ==
    /\ Goto(p, "receive")
    /\ client' = [client EXCEPT ![p] = None]
    /\ candidate' = [candidate EXCEPT ![p] = 0]
    /\ tries' = [tries EXCEPT ![p] = 0]

\* DHCPACK, received or lost.
Acknowledge(p) ==
    held' \in {held, [held EXCEPT ![client[p]] =
                        [addr |-> candidate[p], until |-> now + ValidLft]]}

\* DHCPNAK, received or lost.
Refuse(p) == held' \in {held, [held EXCEPT ![client[p]] = NoAddress]}

processRequest(p, d) ==
    /\ pc[p] = "receive"
    /\ requests[d] < MaxRequests
    /\ requests' = [requests EXCEPT ![d] = @ + 1]
    /\ client' = [client EXCEPT ![p] = d]
    /\ Goto(p, "getLease4")
    /\ UNCHANGED <<lease4, candidate, tries, last_allocated, held, now>>

\* pickAddress has no statement: it belongs to the step before it.
PickNext(p, left) ==
    /\ LET next == pickAddress(TheSubnet.pools, last_allocated[p])
       IN  /\ candidate' = [candidate EXCEPT ![p] = next]
           /\ last_allocated' = [last_allocated EXCEPT ![p] = next]
    /\ tries' = [tries EXCEPT ![p] = left]
    /\ Goto(p, "check")

\* Mutant: the attempts are not counted.
TryAgainForever(p) ==
    /\ PickNext(p, tries[p] - 1)
    /\ UNCHANGED <<client, held>>

\* One attempt is used up; the next address is tried, or the client refused.
TryAgain(p) ==
    \/ /\ tries[p] > 1
       /\ PickNext(p, tries[p] - 1)
       /\ UNCHANGED <<client, held>>
    \/ /\ tries[p] = 1
       /\ Refuse(p)
       /\ Finish(p)
       /\ UNCHANGED last_allocated

\* SELECT by hardware address: a returning client, a new one, or two rows, and
\* MultipleRecords is thrown.
getLease4(p) ==
    /\ pc[p] = "getLease4"
    /\ \/ /\ Cardinality(Rows(client[p])) = 1
          /\ candidate' = [candidate EXCEPT ![p] = CHOOSE a \in Rows(client[p]) : TRUE]
          /\ Goto(p, "update")
          /\ UNCHANGED <<client, tries, last_allocated, held>>
       \/ /\ Rows(client[p]) = {}
          /\ PickNext(p, attempts)
          /\ UNCHANGED <<client, held>>
       \/ /\ Cardinality(Rows(client[p])) > 1
          /\ Refuse(p)
          /\ Finish(p)
          /\ UNCHANGED last_allocated
    /\ UNCHANGED <<lease4, requests, now>>

\* SELECT by address: free, expired, or in use.
check(p) ==
    LET row == lease4[candidate[p]]
    IN  /\ pc[p] = "check"
        /\ \/ /\ row = None
              /\ Goto(p, "insert")
              /\ UNCHANGED <<client, candidate, tries, last_allocated, held>>
           \/ /\ row # None
              /\ row.cltt + ValidLft < now
              /\ Goto(p, "update")
              /\ UNCHANGED <<client, candidate, tries, last_allocated, held>>
           \/ /\ row # None
              /\ ~(row.cltt + ValidLft < now)
              /\ TryAgain(p)
        /\ UNCHANGED <<lease4, requests, now>>

\* Mutant: a row keeps the time it was first stored.
NewRowOld(p) ==
    [hwaddr |-> client[p],
     cltt |-> IF lease4[candidate[p]] = None THEN now ELSE lease4[candidate[p]].cltt]

NewRow(p) == [hwaddr |-> client[p], cltt |-> now]

\* Mutant: the insertion does not notice that the address is taken.
insertOver(p) ==
    /\ pc[p] = "insert"
    /\ lease4' = [lease4 EXCEPT ![candidate[p]] = NewRow(p)]
    /\ Acknowledge(p)
    /\ Finish(p)
    /\ UNCHANGED <<last_allocated, requests, now>>

\* INSERT: ER_DUP_ENTRY says that another process was first.
insert(p) ==
    /\ pc[p] = "insert"
    /\ \/ /\ lease4[candidate[p]] = None
          /\ lease4' = [lease4 EXCEPT ![candidate[p]] = NewRow(p)]
          /\ Acknowledge(p)
          /\ Finish(p)
          /\ UNCHANGED last_allocated
       \/ /\ lease4[candidate[p]] # None
          /\ TryAgain(p)
          /\ UNCHANGED lease4
    /\ UNCHANGED <<requests, now>>

\* UPDATE ... WHERE address = ?, for a renewal and for an expired lease.
update(p) ==
    /\ pc[p] = "update"
    /\ lease4' = [lease4 EXCEPT ![candidate[p]] = NewRow(p)]
    /\ Acknowledge(p)
    /\ Finish(p)
    /\ UNCHANGED <<last_allocated, requests, now>>

Tick ==
    /\ now < MaxTime
    /\ now' = now + 1
    /\ held' = [d \in Device |-> IF now + 1 <= held[d].until THEN held[d] ELSE NoAddress]
    /\ UNCHANGED <<lease4, pc, client, candidate, tries, last_allocated, requests>>

Next ==
    \/ \E p \in Server :
          \/ \E d \in Device : processRequest(p, d)
          \/ getLease4(p) \/ check(p) \/ insert(p) \/ update(p)
    \/ Tick

Spec == Init /\ [][Next]_vars
-----------------------------------------------------------------------------
\* Every variable keeps its type; a process that works has a client.
TypeOK ==
    /\ lease4 \in [Address -> Row \cup {None}]
    /\ pc \in [Server -> {"receive", "getLease4", "check", "insert", "update"}]
    /\ client \in [Server -> Device \cup {None}]
    /\ \A p \in Server : pc[p] # "receive" => client[p] # None
    /\ candidate \in [Server -> {0} \cup Address]
    /\ tries \in [Server -> 0..attempts]
    /\ last_allocated \in [Server -> IOAddress]
    /\ requests \in [Device -> 0..MaxRequests]
    /\ held \in [Device -> [addr : {0} \cup Address, until : 0..MaxTime + ValidLft]]
    /\ now \in 0..MaxTime

\* No address is in use by two devices, however the statements of the
\* processes interleave.
NoSharedAddress ==
    \A d, e \in Device : d # e /\ Holds(d) /\ Holds(e) => held[d].addr # held[e].addr

\* As long as no lease can have expired the INSERTs alone give addresses out,
\* and the primary key decides every race.
ExclusiveUntilExpiry == now <= ValidLft => NoSharedAddress

\* An address in use has a row that lasts as long as its user was told, whichever
\* process wrote the row last.
StoredLongEnough ==
    \A d \in Device : Holds(d) =>
        LET row == lease4[held[d].addr]
        IN  row # None /\ held[d].until <= row.cltt + ValidLft
=============================================================================
