----------------------------- MODULE Dhcp4Srv ------------------------------
(***************************************************************************)
(* Leases of one DHCPv4 server process with one subnet: Dhcpv4Srv,         *)
(* AllocEngine and a lease manager, either Memfile_LeaseMgr or             *)
(* MySqlLeaseMgr, and the devices that believe what the server tells them. *)
(*                                                                         *)
(* The memfile manager keeps pointers to leases in three ordered indexes   *)
(* and hands the pointers out: AllocEngine changes the stored lease itself *)
(* and the indexes by hardware address and by client id are not told.  The *)
(* MySQL manager hands out copies and searches the table.                  *)
(*                                                                         *)
(* One message is processed at a time; a step processes one message.       *)
(***************************************************************************)
EXTENDS Pools, LeaseIndex, FiniteSets

CONSTANTS
    Backend,        \* "memfile" or "mysql"
    TheSubnet,      \* the subnet the server is configured with
    Device,
    hwaddrs,        \* hwaddrs[d]: the hardware addresses device d may send from
    clientId,       \* clientId[d]: its client identifier, 0 if it sends none
    attempts,       \* addresses tried before giving up
    ValidLft,       \* valid lifetime of a lease
    MaxTime,        \* the clock stops here
    MaxConfigs,     \* bound on the identifiers of subnets
    MaxRestarts     \* bound on restarts

Address == {a \in IOAddress : inPool(TheSubnet.pools, a)}

Lease4 == [hwaddr : Nat, client_id : Nat, cltt : Nat, subnet_id : Nat]

ASSUME ServerAssumption ==
    /\ Backend \in {"memfile", "mysql"}
    /\ TheSubnet \in Subnet /\ TheSubnet.pools # <<>>
    /\ \A i \in 1..Len(TheSubnet.pools) : addPoolAccepts(TheSubnet, TheSubnet.pools[i])
    /\ hwaddrs \in [Device -> SUBSET (Nat \ {0})]
    /\ clientId \in [Device -> Nat]
    /\ attempts \in Nat \ {0} /\ ValidLft \in Nat \ {0}
    /\ MaxTime \in Nat /\ MaxConfigs \in Nat /\ MaxRestarts \in Nat
    /\ 0 \notin Address /\ NoLease \notin Address \cup Lease4

\* No two devices share a hardware address or a client identifier.
ASSUME IdentityAssumption ==
    \A d, e \in Device : d # e =>
        /\ hwaddrs[d] \cap hwaddrs[e] = {}
        /\ clientId[d] # 0 => clientId[d] # clientId[e]

\* LeaseIndex is exact for three leases.
ASSUME IndexAssumption == Backend = "memfile" => Cardinality(Address) <= 3

NoAddress == [addr |-> 0, until |-> 0]

VARIABLES
    lease,           \* lease[a]: the stored lease of address a, or NoLease
    hwIndex,         \* memfile: storage4_ by hardware address and subnet
    cidIndex,        \* memfile: storage4_ by client id and subnet
    last_allocated,  \* of the subnet in use
    subnet_id,       \* of the subnet in use
    nextID,          \* the identifier the next Subnet4 object gets
    configured,      \* CfgMgr holds the subnet
    leaseMgr,        \* LeaseMgrFactory holds a lease manager
    up,              \* the process runs
    now,             \* the clock
    restarts,        \* restarts so far
    held             \* held[d]: the address device d may use, and until when

storage == <<lease, hwIndex, cidIndex>>
config == <<subnet_id, nextID, configured, leaseMgr>>
vars == <<storage, last_allocated, config, up, now, restarts, held>>

Init ==
    /\ lease = [a \in Address |-> NoLease]
    /\ hwIndex = EmptyIndex
    /\ cidIndex = EmptyIndex
    /\ last_allocated = lastAddrInPrefix(TheSubnet)
    /\ subnet_id = 0
    /\ nextID = 1
    /\ configured = TRUE
    /\ leaseMgr = TRUE
    /\ up = TRUE
    /\ now = 0
    /\ restarts = 0
    /\ held = [d \in Device |-> NoAddress]
-----------------------------------------------------------------------------
(* The lease managers. *)

hwKey == [a \in Address |-> IF lease[a] = NoLease THEN <<0, 0>>
                            ELSE <<lease[a].hwaddr, lease[a].subnet_id>>]
cidKey == [a \in Address |-> IF lease[a] = NoLease THEN <<0, 0>>
                             ELSE <<lease[a].client_id, lease[a].subnet_id>>]

\* The rows a select on (hwaddr, subnet_id) or (client_id, subnet_id) returns.
Rows(key, k) == {a \in Address : lease[a] # NoLease /\ key[a] = k}

\* The index of the memfile, or the row of the MySQL table.
getLease4(index, key, k) ==
    IF Backend = "memfile" THEN Find(index, key, k)
    ELSE IF Rows(key, k) = {} THEN NoLease ELSE CHOOSE a \in Rows(key, k) : TRUE

\* KeyFromKeyExtractor follows the client id pointer of every lease compared;
\* the pointer of a lease without client id (0 here) is null.
NullDereferenced(k, side) ==
    /\ cidIndex.root # NoLease
    /\ \/ k[1] = 0
       \/ \E a \in Visited(cidIndex, side) : cidKey[a][1] = 0

\* addLease of a lease for an address that has none.  The memfile manager
\* ignores what insert() says: an index that refuses keeps the lease out of the
\* storage.  The process dies when a null client id is compared.
addLease(a, new) ==
    LET hk == <<new.hwaddr, new.subnet_id>>
        ck == <<new.client_id, new.subnet_id>>
    IN  IF Backend = "mysql"
          THEN lease' = [lease EXCEPT ![a] = new] /\ UNCHANGED <<hwIndex, cidIndex, up>>
        ELSE IF ~Accepts(hwIndex, hwKey, hk)
          THEN UNCHANGED <<storage, up>>
        ELSE IF NullDereferenced(ck, InsertSide(cidIndex, cidKey, ck))
          THEN up' = FALSE /\ UNCHANGED storage
        ELSE IF ~Accepts(cidIndex, cidKey, ck)
          THEN UNCHANGED <<storage, up>>
        ELSE /\ lease' = [lease EXCEPT ![a] = new]
             /\ hwIndex' = Insert(hwIndex, hwKey, hk, a)
             /\ cidIndex' = Insert(cidIndex, cidKey, ck, a)
             /\ UNCHANGED up

\* A lease that was found is changed: in place for the memfile, whose
\* updateLease4 does nothing, and by updateLease4 for MySQL.
changeLease(a, new, fake) ==
    /\ lease' = IF Backend = "mysql" /\ fake THEN lease ELSE [lease EXCEPT ![a] = new]
    /\ UNCHANGED <<hwIndex, cidIndex, up>>

\* Mutant: an index keeps the lease.
deleteLeaseHalf(a) ==
    /\ lease' = [lease EXCEPT ![a] = NoLease]
    /\ hwIndex' = IF Backend = "memfile" THEN Erase(hwIndex, a) ELSE hwIndex
    /\ UNCHANGED <<cidIndex, up>>

deleteLease(a) ==
    /\ lease' = [lease EXCEPT ![a] = NoLease]
    /\ hwIndex' = IF Backend = "memfile" THEN Erase(hwIndex, a) ELSE hwIndex
    /\ cidIndex' = IF Backend = "memfile" THEN Erase(cidIndex, a) ELSE cidIndex
    /\ UNCHANGED up
-----------------------------------------------------------------------------
(* The devices.  A reply reaches the device or is lost. *)

Holds(d) == held[d].addr # 0 /\ now <= held[d].until

\* DHCPACK for REQUEST, DHCPOFFER for DISCOVER: an offer promises nothing.
Acknowledge(d, a, fake) ==
    held' \in IF fake \/ ~up' THEN {held}
              ELSE {held, [held EXCEPT ![d] = [addr |-> a, until |-> now + ValidLft]]}

\* DHCPNAK: a device whose REQUEST is refused gives its address up.
Refuse(d, fake) ==
    held' \in IF fake THEN {held} ELSE {held, [held EXCEPT ![d] = NoAddress]}
-----------------------------------------------------------------------------
(* AllocEngine::allocateAddress4 and what it calls. *)

\* Mutant: a lease expires in its last second.
expiredEarly(l) == l.cltt + ValidLft <= now

\* Lease::expired
expired(l) == l.cltt + ValidLft < now

Lease(d, h) ==
    [hwaddr |-> h, client_id |-> clientId[d], cltt |-> now, subnet_id |-> subnet_id]

ByHWAddr(h) == getLease4(hwIndex, hwKey, <<h, subnet_id>>)
ByClientId(d) == getLease4(cidIndex, cidKey, <<clientId[d], subnet_id>>)

\* Mutant: a returning client is not searched by its client id.
ExistingHWAddrOnly(d, h) == ByHWAddr(h)

\* The lease of a returning client: by hardware address, then by client id.
Existing(d, h) ==
    IF ByHWAddr(h) # NoLease THEN ByHWAddr(h)
    ELSE IF clientId[d] # 0 THEN ByClientId(d) ELSE NoLease

\* The search by client id meets a lease without one.
SearchDies(d, h) ==
    /\ Backend = "memfile"
    /\ ByHWAddr(h) = NoLease /\ clientId[d] # 0
    /\ NullDereferenced(<<clientId[d], subnet_id>>,
                        FindSide(cidIndex, cidKey, <<clientId[d], subnet_id>>))

renewLease4(d, h, fake) ==
    LET a == Existing(d, h)
    IN  /\ a # NoLease
        /\ changeLease(a, Lease(d, h), fake)
        /\ Acknowledge(d, a, fake)
        /\ UNCHANGED last_allocated

Usable(a) == lease[a] # NoLease => expired(lease[a])

\* createLease4 for a free address, reuseExpiredLease for an expired lease.
TakeAddress(d, h, a, fake) ==
    /\ \/ /\ lease[a] = NoLease /\ ~fake
          /\ addLease(a, Lease(d, h))
       \/ /\ lease[a] = NoLease /\ fake
          /\ UNCHANGED <<storage, up>>
       \/ /\ lease[a] # NoLease
          /\ changeLease(a, Lease(d, h), fake)
    /\ Acknowledge(d, a, fake)

HintUsable(hint) == hint \in Address /\ Usable(hint)

allocateHint(d, h, hint, fake) ==
    /\ HintUsable(hint)
    /\ TakeAddress(d, h, hint, fake)
    /\ UNCHANGED last_allocated

\* The addresses pickAddress returns one after another; they belong to the pools.
Candidate[i \in 0..attempts] ==
    IF i = 0 THEN last_allocated ELSE pickAddress(TheSubnet.pools, Candidate[i - 1])

\* The search stops at the first candidate that can be used.
allocateCandidate(d, h, hint, fake) ==
    /\ ~HintUsable(hint)
    /\ \E i \in 1..attempts :
          /\ Candidate[i] \in Address /\ Usable(Candidate[i])
          /\ \A j \in 1..i - 1 : ~Usable(Candidate[j])
          /\ last_allocated' = Candidate[i]
          /\ TakeAddress(d, h, Candidate[i], fake)

allocationFails(d, hint, fake) ==
    /\ ~HintUsable(hint)
    /\ \A i \in 1..attempts : ~Usable(Candidate[i])
    /\ last_allocated' = Candidate[attempts]
    /\ Refuse(d, fake)
    /\ UNCHANGED <<storage, up>>

\* A statement fails (the connection is lost, say): DbOperationError ends the
\* allocation, before the candidates or at one of them.
databaseFails(d, h, hint, fake) ==
    /\ Backend = "mysql"
    /\ \E i \in 0..attempts :
          /\ i > 0 => Existing(d, h) = NoLease /\ ~HintUsable(hint)
          /\ \A j \in 1..i - 1 : ~Usable(Candidate[j])
          /\ last_allocated' = Candidate[i]
    /\ Refuse(d, fake)
    /\ UNCHANGED <<storage, up>>

\* selectSubnet finds nothing, or NoLeaseManager is thrown.
cannotServe(d, fake) ==
    /\ ~configured \/ ~leaseMgr
    /\ Refuse(d, fake)
    /\ UNCHANGED <<storage, up, last_allocated>>

assignLease(d, h, hint, fake) ==
    /\ up
    /\ \/ cannotServe(d, fake)
       \/ /\ configured /\ leaseMgr /\ SearchDies(d, h)
          /\ up' = FALSE
          /\ UNCHANGED <<storage, last_allocated, held>>
       \/ /\ configured /\ leaseMgr /\ ~SearchDies(d, h)
          /\ \/ renewLease4(d, h, fake)
             \/ databaseFails(d, h, hint, fake)
             \/ /\ Existing(d, h) = NoLease
                /\ \/ allocateHint(d, h, hint, fake)
                   \/ allocateCandidate(d, h, hint, fake)
                   \/ allocationFails(d, hint, fake)
    /\ UNCHANGED <<config, now, restarts>>
-----------------------------------------------------------------------------
processDiscover(d, h, hint) == assignLease(d, h, hint, TRUE)

processRequest(d, h, hint) == assignLease(d, h, hint, FALSE)

\* Mutant: any device may release a lease.
processReleaseAny(d, h, a) ==
    /\ up
    /\ IF leaseMgr /\ lease[a] # NoLease THEN deleteLease(a) ELSE UNCHANGED <<storage, up>>
    /\ held' = IF held[d].addr = a THEN [held EXCEPT ![d] = NoAddress] ELSE held
    /\ UNCHANGED <<last_allocated, config, now, restarts>>

\* A device that releases the address it holds stops using it, whether or not
\* the server finds the lease to be the device's and deletes it: a statement
\* may fail.
processRelease(d, h, a) ==
    /\ up
    /\ IF /\ leaseMgr
          /\ lease[a] # NoLease
          /\ lease[a].hwaddr = h
          /\ \/ lease[a].client_id = 0 \/ clientId[d] = 0
             \/ lease[a].client_id = clientId[d]
         THEN deleteLease(a) \/ (Backend = "mysql" /\ UNCHANGED <<storage, up>>)
         ELSE UNCHANGED <<storage, up>>
    /\ held' = IF held[d].addr = a THEN [held EXCEPT ![d] = NoAddress] ELSE held
    /\ UNCHANGED <<last_allocated, config, now, restarts>>

\* LeaseMgrFactory::destroy and create: the memfile starts empty.
createLeaseMgr ==
    /\ leaseMgr' = TRUE
    /\ IF Backend = "mysql" THEN UNCHANGED storage
       ELSE /\ lease' = [a \in Address |-> NoLease]
            /\ hwIndex' = EmptyIndex
            /\ cidIndex' = EmptyIndex

\* The database cannot be opened: the old manager is gone, there is no new one.
createFails ==
    /\ Backend = "mysql"
    /\ leaseMgr' = FALSE
    /\ UNCHANGED storage

\* The subnet parser has built a Subnet4 object, and CfgMgr gets it instead of
\* the one in use.
newSubnet(id) ==
    /\ subnet_id' = id
    /\ nextID' = id + 1
    /\ configured' = TRUE
    /\ last_allocated' = lastAddrInPrefix(TheSubnet)

\* lease-database is committed as soon as it is parsed.
configurationAccepted ==
    /\ createLeaseMgr
    /\ newSubnet(nextID)

\* The database, or an entry after it, is wrong.  The subnets built so far have
\* used up identifiers; the rollback covers neither them nor the lease manager.
configurationRejected ==
    /\ \/ createFails /\ UNCHANGED nextID
       \/ createLeaseMgr /\ nextID' \in {nextID, nextID + 1}
    /\ UNCHANGED <<last_allocated, subnet_id, configured>>

\* A configuration whose first entries are wrong changes nothing.
configureDhcp4Server ==
    /\ up
    /\ nextID <= MaxConfigs
    /\ configurationAccepted \/ configurationRejected
    /\ UNCHANGED <<up, now, restarts, held>>

\* The process ends, or has died, and is started again with the stored
\* configuration; it goes on without a subnet when the database is not there.
Restart ==
    /\ restarts < MaxRestarts
    /\ restarts' = restarts + 1
    /\ up' = TRUE
    /\ \/ createLeaseMgr /\ newSubnet(0)
       \/ /\ createFails
          /\ configured' = FALSE /\ subnet_id' = 0 /\ nextID' = 0
          /\ last_allocated' = lastAddrInPrefix(TheSubnet)
    /\ UNCHANGED <<now, held>>

\* Time passes; addresses held too long are given up.
Tick ==
    /\ now < MaxTime
    /\ now' = now + 1
    /\ held' = [d \in Device |-> IF now + 1 <= held[d].until THEN held[d] ELSE NoAddress]
    /\ UNCHANGED <<storage, last_allocated, config, up, restarts>>

Next ==
    \/ \E d \in Device : \E h \in hwaddrs[d] :
          \/ \E hint \in {0} \cup Address :
                processDiscover(d, h, hint) \/ processRequest(d, h, hint)
          \/ \E a \in Address : processRelease(d, h, a)
    \/ configureDhcp4Server
    \/ Restart
    \/ Tick

Spec == Init /\ [][Next]_vars
-----------------------------------------------------------------------------
\* Every variable keeps its type; a lease that is stored is whole.
TypeOK ==
    /\ lease \in [Address -> Lease4 \cup {NoLease}]
    /\ {hwIndex, cidIndex} \subseteq [{"left", "root", "right"} -> Address \cup {NoLease}]
    /\ last_allocated \in IOAddress
    /\ subnet_id \in 0..MaxConfigs /\ nextID \in 0..MaxConfigs + 1
    /\ {configured, leaseMgr} \subseteq BOOLEAN
    /\ up \in BOOLEAN
    /\ now \in 0..MaxTime
    /\ restarts \in 0..MaxRestarts
    /\ held \in [Device -> [addr : {0} \cup Address, until : 0..MaxTime + ValidLft]]

\* No address is in use by two devices: what allocateAddress4 grants is never
\* still granted to another device, through renewals, releases, expiry, lost
\* replies, reconfigurations and restarts.
NoSharedAddress ==
    \A d, e \in Device :
        d # e /\ Holds(d) /\ Holds(e) => held[d].addr # held[e].addr

\* An address a device was given is backed by a stored lease of that device
\* that lasts at least as long as the device was told.
IssuedStored ==
    \A d \in Device : Holds(d) =>
        LET l == lease[held[d].addr]
        IN  /\ l # NoLease
            /\ l.hwaddr \in hwaddrs[d]
            /\ held[d].until <= l.cltt + ValidLft

\* A search by hardware address or client id and subnet matches at most one
\* lease; MySqlLeaseMgr::getLease throws MultipleRecords at a second one.
OneRow ==
    \A a, b \in Address : a # b /\ lease[a] # NoLease /\ lease[b] # NoLease =>
        /\ hwKey[a] # hwKey[b]
        /\ lease[a].client_id # 0 => cidKey[a] # cidKey[b]

\* The indexes of the memfile find exactly the leases that are stored.
IndexExact ==
    Backend = "memfile" =>
        /\ Members(hwIndex) = {a \in Address : lease[a] # NoLease}
        /\ Members(cidIndex) = Members(hwIndex)
        /\ \A a \in Members(hwIndex) :
              /\ Find(hwIndex, hwKey, hwKey[a]) = a
              /\ Find(cidIndex, cidKey, cidKey[a]) = a

FoundAgain(d) == \A h \in hwaddrs[d] : Existing(d, h) = held[d].addr

\* A device whose lease runs, and was stored under the identifier the subnet
\* has now, finds it again: a REQUEST, from any of its cards, neither is refused
\* nor moves the device to another address.
KeepsAddress ==
    \A d \in Device :
        LET l == lease[held[d].addr]
        IN  Holds(d) /\ l # NoLease /\ l.subnet_id = subnet_id => FoundAgain(d)

\* The same whatever identifier the subnet has: a reconfiguration that leaves
\* the subnet as it is does not matter to a device whose lease runs.
KeepsAddressReconfigured == \A d \in Device : Holds(d) => FoundAgain(d)

\* A REQUEST is refused only when every address of the pools is leased: the
\* candidates the allocator proposes leave none out.
RefusedOnlyWhenFull ==
    (\A i \in 1..attempts : ~Usable(Candidate[i])) => \A a \in Address : ~Usable(a)
=============================================================================
