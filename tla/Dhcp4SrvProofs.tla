-------------------------- MODULE Dhcp4SrvProofs ---------------------------
(***************************************************************************)
(* Proofs about Dhcp4Srv with the MySQL lease manager, for any number of   *)
(* devices, addresses, reconfigurations and restarts.                      *)
(*                                                                         *)
(* That no address is shared is not inductive.  It follows from            *)
(* IssuedStored: what a device holds is backed by a stored lease with one  *)
(* of its hardware addresses.  A renewal that found the lease by client id *)
(* preserves IssuedStored only if the client id and the hardware address   *)
(* of a stored lease are of one device (OwnLease).                         *)
(***************************************************************************)
EXTENDS Dhcp4Srv, TLAPS

\* The part of the state the argument is about has its types.
Types ==
    /\ lease \in [Address -> Lease4 \cup {NoLease}]
    /\ now \in Nat
    /\ subnet_id \in Nat /\ nextID \in Nat
    /\ held \in [Device -> [addr : {0} \cup Address, until : Nat]]

Owns(d, l) == l.hwaddr \in hwaddrs[d] /\ l.client_id = clientId[d]

\* A stored lease is of one device.
OwnLease ==
    \A a \in Address : lease[a] # NoLease => \E d \in Device : Owns(d, lease[a])

\* No device was promised more than a lease granted now would last.
Promised == \A d \in Device : held[d].addr # 0 => held[d].until <= now + ValidLft

Inv == Types /\ OwnLease /\ Promised /\ IssuedStored /\ OneRow

\* The hardware address of a stored lease tells the device.
LEMMA OwnerByHWAddr ==
    ASSUME OwnLease, NEW a \in Address, lease[a] # NoLease,
           NEW d \in Device, lease[a].hwaddr \in hwaddrs[d]
    PROVE  Owns(d, lease[a])
BY IdentityAssumption DEF OwnLease, Owns

\* So does its client id, if it has one.
LEMMA OwnerByClientId ==
    ASSUME OwnLease, NEW a \in Address, lease[a] # NoLease,
           NEW d \in Device, clientId[d] # 0, lease[a].client_id = clientId[d]
    PROVE  Owns(d, lease[a])
BY IdentityAssumption DEF OwnLease, Owns

\* A lease found for a returning client is the client's, is the only one that
\* its hardware address leads to, and is the only one its client id leads to.
LEMMA ExistingOwned ==
    ASSUME Backend = "mysql", Inv, NEW d \in Device, NEW h \in hwaddrs[d],
           Existing(d, h) # NoLease
    PROVE  /\ Existing(d, h) \in Address
           /\ lease[Existing(d, h)] # NoLease
           /\ Owns(d, lease[Existing(d, h)])
           /\ \A b \in Address : b # Existing(d, h) /\ lease[b] # NoLease =>
                 /\ hwKey[b] # <<h, subnet_id>>
                 /\ clientId[d] # 0 => cidKey[b] # <<clientId[d], subnet_id>>
PROOF
<1> DEFINE a == Existing(d, h)
<1>1. CASE ByHWAddr(h) # NoLease
  <2>1. a \in Rows(hwKey, <<h, subnet_id>>)
        BY <1>1 DEF Existing, ByHWAddr, getLease4
  <2>2. a \in Address /\ lease[a] # NoLease /\ hwKey[a] = <<h, subnet_id>>
        BY <2>1 DEF Rows
  <2>3. lease[a].hwaddr = h /\ lease[a].subnet_id = subnet_id
        BY <2>2 DEF hwKey
  <2>4. Owns(d, lease[a])
        BY <2>2, <2>3, OwnerByHWAddr DEF Inv
  <2>5. cidKey[a] = <<clientId[d], subnet_id>> /\ lease[a].client_id = clientId[d]
        BY <2>2, <2>3, <2>4 DEF cidKey, Owns
  <2> QED BY <2>2, <2>4, <2>5 DEF Inv, OneRow
<1>2. CASE ByHWAddr(h) = NoLease
  <2>1. clientId[d] # 0 /\ a = ByClientId(d)
        BY <1>2 DEF Existing
  <2>2. a \in Rows(cidKey, <<clientId[d], subnet_id>>)
        BY <2>1 DEF ByClientId, getLease4
  <2>3. a \in Address /\ lease[a] # NoLease /\ cidKey[a] = <<clientId[d], subnet_id>>
        BY <2>2 DEF Rows
  <2>4. lease[a].client_id = clientId[d]
        BY <2>3 DEF cidKey
  <2>5. Owns(d, lease[a])
        BY <2>1, <2>3, <2>4, OwnerByClientId DEF Inv
  <2>6. \A b \in Address : lease[b] # NoLease => hwKey[b] # <<h, subnet_id>>
    <3> SUFFICES ASSUME NEW b \in Address, lease[b] # NoLease, hwKey[b] = <<h, subnet_id>>
                 PROVE  FALSE
          OBVIOUS
    <3>1. b \in Rows(hwKey, <<h, subnet_id>>)
          BY DEF Rows
    <3>2. ByHWAddr(h) \in Rows(hwKey, <<h, subnet_id>>)
          BY <3>1 DEF ByHWAddr, getLease4
    <3> QED BY <3>2, <1>2, ServerAssumption DEF Rows
  <2> QED BY <2>1, <2>3, <2>4, <2>5, <2>6 DEF Inv, OneRow
<1> QED BY <1>1, <1>2

\* A client without a lease: no stored lease has its keys.
LEMMA NoneExisting ==
    ASSUME Backend = "mysql", NEW d \in Device, NEW h \in hwaddrs[d],
           Existing(d, h) = NoLease
    PROVE  \A b \in Address : lease[b] # NoLease =>
              /\ hwKey[b] # <<h, subnet_id>>
              /\ clientId[d] # 0 => cidKey[b] # <<clientId[d], subnet_id>>
PROOF
<1> SUFFICES ASSUME NEW b \in Address, lease[b] # NoLease
             PROVE  /\ hwKey[b] # <<h, subnet_id>>
                    /\ clientId[d] # 0 => cidKey[b] # <<clientId[d], subnet_id>>
      OBVIOUS
<1>1. ASSUME hwKey[b] = <<h, subnet_id>> PROVE FALSE
  <2>1. b \in Rows(hwKey, <<h, subnet_id>>)
        BY <1>1 DEF Rows
  <2>2. ByHWAddr(h) \in Rows(hwKey, <<h, subnet_id>>)
        BY <2>1 DEF ByHWAddr, getLease4
  <2>3. ByHWAddr(h) # NoLease
        BY <2>2, ServerAssumption DEF Rows
  <2> QED BY <2>3 DEF Existing
<1>2. ASSUME clientId[d] # 0, cidKey[b] = <<clientId[d], subnet_id>> PROVE FALSE
  <2>1. b \in Rows(cidKey, <<clientId[d], subnet_id>>)
        BY <1>2 DEF Rows
  <2>2. ByClientId(d) \in Rows(cidKey, <<clientId[d], subnet_id>>)
        BY <2>1 DEF ByClientId, getLease4
  <2>3. ByClientId(d) # NoLease
        BY <2>2, ServerAssumption DEF Rows
  <2> QED BY <2>3, <1>2 DEF Existing
<1> QED BY <1>1, <1>2
-----------------------------------------------------------------------------
\* An address that can be used is held by nobody.
LEMMA UsableNotHeld ==
    ASSUME Inv, NEW a \in Address, Usable(a), NEW e \in Device, Holds(e)
    PROVE  held[e].addr # a
PROOF
<1> SUFFICES ASSUME held[e].addr = a PROVE FALSE
      OBVIOUS
<1>1. lease[a] # NoLease /\ held[e].until <= lease[a].cltt + ValidLft
      BY DEF Inv, IssuedStored
<1>2. lease[a] \in Lease4
      BY <1>1 DEF Inv, Types
<1>3. now <= held[e].until
      BY DEF Holds
<1>4. lease[a].cltt + ValidLft < now
      BY <1>1 DEF Usable, expired
<1> QED BY <1>1, <1>2, <1>3, <1>4, ServerAssumption DEF Inv, Types, Lease4

\* Storing a lease for a device, told to the device or not, preserves Inv when
\* no other device holds the address and no other lease has the device's keys.
LEMMA GrantInv ==
    ASSUME Inv, NEW d \in Device, NEW h \in hwaddrs[d], NEW a \in Address,
           \A e \in Device : e # d /\ Holds(e) => held[e].addr # a,
           \A b \in Address : b # a /\ lease[b] # NoLease =>
              /\ hwKey[b] # <<h, subnet_id>>
              /\ clientId[d] # 0 => cidKey[b] # <<clientId[d], subnet_id>>,
           lease' = [lease EXCEPT ![a] = Lease(d, h)],
           \/ held' = held
           \/ held' = [held EXCEPT ![d] = [addr |-> a, until |-> now + ValidLft]],
           now' = now, subnet_id' = subnet_id, nextID' = nextID
    PROVE  Inv'
PROOF
<1> DEFINE new == Lease(d, h)
<1> USE ServerAssumption
<1>1. /\ new \in Lease4 /\ new # NoLease
      /\ new.hwaddr = h /\ new.client_id = clientId[d]
      /\ new.cltt = now /\ new.subnet_id = subnet_id
      BY DEF Lease, Lease4, Inv, Types
<1>2. lease'[a] = new /\ \A b \in Address : b # a => lease'[b] = lease[b]
      BY DEF Inv, Types
<1>3. \A e \in Device : \/ held'[e] = held[e]
                        \/ e = d /\ held'[e] = [addr |-> a, until |-> now + ValidLft]
      BY DEF Inv, Types
<1> HIDE DEF new
<1>4. Types'
  <2>1. lease' \in [Address -> Lease4 \cup {NoLease}]
        BY <1>1 DEF new, Inv, Types
  <2>2. [addr |-> a, until |-> now + ValidLft] \in [addr : {0} \cup Address, until : Nat]
        BY DEF Inv, Types
  <2>3. held' \in [Device -> [addr : {0} \cup Address, until : Nat]]
        BY <2>2 DEF Inv, Types
  <2> QED BY <2>1, <2>3 DEF Inv, Types
<1>5. OwnLease'
      BY <1>1, <1>2 DEF Inv, OwnLease, Owns
<1>6. Promised'
      BY <1>3 DEF Inv, Types, Promised
<1>7. IssuedStored'
  <2> SUFFICES ASSUME NEW e \in Device, Holds(e)'
               PROVE  LET l == lease'[held'[e].addr]
                      IN  /\ l # NoLease
                          /\ l.hwaddr \in hwaddrs[e]
                          /\ held'[e].until <= l.cltt + ValidLft
        BY DEF IssuedStored
  <2>1. CASE held'[e] = held[e] /\ held[e].addr = a
    <3>1. Holds(e)
          BY <2>1 DEF Holds
    <3>2. e = d /\ held[e].until <= now + ValidLft
          BY <2>1, <3>1 DEF Inv, Promised, Holds
    <3> QED BY <2>1, <3>2, <1>1, <1>2
  <2>2. CASE held'[e] = held[e] /\ held[e].addr # a
    <3>1. Holds(e) /\ held[e].addr \in Address
          BY <2>2 DEF Holds, Inv, Types
    <3> QED BY <2>2, <3>1, <1>2 DEF Inv, IssuedStored
  <2>3. CASE e = d /\ held'[e] = [addr |-> a, until |-> now + ValidLft]
    <3>1. held'[e].addr = a /\ held'[e].until = now + ValidLft
          BY <2>3
    <3> QED BY <2>3, <3>1, <1>1, <1>2 DEF Inv, Types
  <2> QED BY <1>3, <2>1, <2>2, <2>3
<1>8. OneRow'
  <2>1. /\ hwKey'[a] = <<h, subnet_id>> /\ cidKey'[a] = <<clientId[d], subnet_id>>
        /\ \A b \in Address : b # a => hwKey'[b] = hwKey[b] /\ cidKey'[b] = cidKey[b]
        BY <1>1, <1>2 DEF hwKey, cidKey
  <2>2. \A b \in Address : b # a /\ lease[b] # NoLease /\ lease[b].client_id # 0
                             /\ clientId[d] = 0 => cidKey[b] # <<clientId[d], subnet_id>>
        BY DEF cidKey
  <2>3. \A b \in Address : b # a /\ lease[b] # NoLease =>
           /\ hwKey'[b] # hwKey'[a]
           /\ lease[b].client_id # 0 \/ clientId[d] # 0 => cidKey'[b] # cidKey'[a]
        BY <2>1, <2>2
  <2> QED BY <1>1, <1>2, <2>1, <2>3 DEF Inv, OneRow
<1> QED BY <1>4, <1>5, <1>6, <1>7, <1>8 DEF Inv

\* Giving addresses up and letting time pass preserves Inv.
LEMMA GiveUpInv ==
    ASSUME Inv, lease' = lease, now' \in Nat, now' >= now, subnet_id' \in Nat, nextID' \in Nat,
           held' \in [Device -> [addr : {0} \cup Address, until : Nat]],
           \A e \in Device : held'[e] = held[e] \/ held'[e] = NoAddress
    PROVE  Inv'
PROOF
<1> USE ServerAssumption
<1>1. Types'
      BY DEF Inv, Types
<1>2. OwnLease'
      BY DEF Inv, OwnLease
<1>3. Promised'
      BY DEF Inv, Types, Promised, NoAddress
<1>4. ASSUME NEW e \in Device, Holds(e)' PROVE held'[e] = held[e] /\ Holds(e)
      BY <1>4 DEF Holds, NoAddress, Inv, Types
<1>5. IssuedStored'
      BY <1>4 DEF Inv, IssuedStored
<1>6. OneRow'
      BY DEF Inv, OneRow, hwKey, cidKey
<1> QED BY <1>1, <1>2, <1>3, <1>5, <1>6 DEF Inv
-----------------------------------------------------------------------------
LEMMA InitInv == Init => Inv
BY ServerAssumption DEF Init, Inv, Types, OwnLease, Promised, IssuedStored, OneRow,
   Holds, NoAddress

\* Changing a found lease, for a DISCOVER or for a REQUEST.
LEMMA ChangeInv ==
    ASSUME Backend = "mysql", Inv, NEW d \in Device, NEW h \in hwaddrs[d],
           NEW a \in Address, NEW fake \in BOOLEAN,
           \A e \in Device : e # d /\ Holds(e) => held[e].addr # a,
           \A b \in Address : b # a /\ lease[b] # NoLease =>
              /\ hwKey[b] # <<h, subnet_id>>
              /\ clientId[d] # 0 => cidKey[b] # <<clientId[d], subnet_id>>,
           changeLease(a, Lease(d, h), fake), Acknowledge(d, a, fake),
           now' = now, subnet_id' = subnet_id, nextID' = nextID
    PROVE  Inv'
PROOF
<1>1. CASE fake
  <2>1. lease' = lease /\ held' = held
        BY <1>1 DEF changeLease, Acknowledge
  <2> QED BY <2>1, GiveUpInv DEF Inv, Types
<1>2. CASE ~fake
  <2>1. lease' = [lease EXCEPT ![a] = Lease(d, h)]
        BY <1>2 DEF changeLease
  <2>2. \/ held' = held
        \/ held' = [held EXCEPT ![d] = [addr |-> a, until |-> now + ValidLft]]
        BY DEF Acknowledge
  <2> QED BY <2>1, <2>2, GrantInv
<1> QED BY <1>1, <1>2

LEMMA RenewInv ==
    ASSUME Backend = "mysql", Inv, NEW d \in Device, NEW h \in hwaddrs[d],
           NEW fake \in BOOLEAN, renewLease4(d, h, fake),
           now' = now, subnet_id' = subnet_id, nextID' = nextID
    PROVE  Inv'
PROOF
<1> DEFINE a == Existing(d, h)
<1>1. /\ a # NoLease
      /\ changeLease(a, Lease(d, h), fake) /\ Acknowledge(d, a, fake)
      BY DEF renewLease4
<1>2. /\ a \in Address
      /\ lease[a] # NoLease /\ Owns(d, lease[a])
      /\ \A b \in Address : b # a /\ lease[b] # NoLease =>
            /\ hwKey[b] # <<h, subnet_id>>
            /\ clientId[d] # 0 => cidKey[b] # <<clientId[d], subnet_id>>
      BY <1>1, ExistingOwned
<1>3. ASSUME NEW e \in Device, e # d, Holds(e) PROVE held[e].addr # a
      BY <1>2, <1>3, IdentityAssumption DEF Inv, IssuedStored, Owns
<1> HIDE DEF a
<1> QED BY <1>1, <1>2, <1>3, ChangeInv

LEMMA TakeInv ==
    ASSUME Backend = "mysql", Inv, NEW d \in Device, NEW h \in hwaddrs[d],
           NEW a \in Address, NEW fake \in BOOLEAN,
           Existing(d, h) = NoLease, Usable(a), TakeAddress(d, h, a, fake),
           now' = now, subnet_id' = subnet_id, nextID' = nextID
    PROVE  Inv'
PROOF
<1>1. \A e \in Device : e # d /\ Holds(e) => held[e].addr # a
      BY UsableNotHeld
<1>2. \A b \in Address : b # a /\ lease[b] # NoLease =>
         /\ hwKey[b] # <<h, subnet_id>>
         /\ clientId[d] # 0 => cidKey[b] # <<clientId[d], subnet_id>>
      BY NoneExisting
<1>3. CASE lease[a] = NoLease /\ ~fake /\ addLease(a, Lease(d, h))
  <2>1. lease' = [lease EXCEPT ![a] = Lease(d, h)]
        BY <1>3 DEF addLease
  <2>2. \/ held' = held
        \/ held' = [held EXCEPT ![d] = [addr |-> a, until |-> now + ValidLft]]
        BY DEF TakeAddress, Acknowledge
  <2> QED BY <2>1, <2>2, <1>1, <1>2, GrantInv
<1>4. CASE fake /\ UNCHANGED <<storage, up>>
  <2>1. lease' = lease /\ held' = held
        BY <1>4 DEF TakeAddress, Acknowledge, storage
  <2> QED BY <2>1, GiveUpInv DEF Inv, Types
<1>5. CASE changeLease(a, Lease(d, h), fake)
  <2>1. Acknowledge(d, a, fake)
        BY DEF TakeAddress
  <2> QED BY <2>1, <1>5, <1>1, <1>2, ChangeInv
<1> QED BY <1>3, <1>4, <1>5 DEF TakeAddress

LEMMA AssignInv ==
    ASSUME Backend = "mysql", Inv, NEW d \in Device, NEW h \in hwaddrs[d],
           NEW hint, NEW fake \in BOOLEAN, assignLease(d, h, hint, fake)
    PROVE  Inv'
PROOF
<1>1. now' = now /\ subnet_id' = subnet_id /\ nextID' = nextID
      BY DEF assignLease, config
<1>2. ~SearchDies(d, h)
      BY DEF SearchDies
<1>3. CASE renewLease4(d, h, fake)
      BY <1>1, <1>3, RenewInv
<1>4. CASE Existing(d, h) = NoLease /\ allocateHint(d, h, hint, fake)
  <2>1. hint \in Address /\ Usable(hint) /\ TakeAddress(d, h, hint, fake)
        BY <1>4 DEF allocateHint, HintUsable
  <2> QED BY <1>1, <1>4, <2>1, TakeInv
<1>5. CASE Existing(d, h) = NoLease /\ allocateCandidate(d, h, hint, fake)
  <2>1. PICK i \in 1..attempts : /\ Candidate[i] \in Address /\ Usable(Candidate[i])
                                 /\ TakeAddress(d, h, Candidate[i], fake)
        BY <1>5 DEF allocateCandidate
  <2> QED BY <1>1, <1>5, <2>1, TakeInv
<1>6. CASE \/ allocationFails(d, hint, fake) \/ databaseFails(d, h, hint, fake)
           \/ cannotServe(d, fake)
  <2>1. /\ lease' = lease
        /\ held' = held \/ held' = [held EXCEPT ![d] = NoAddress]
        BY <1>6 DEF allocationFails, databaseFails, cannotServe, Refuse, storage
  <2>2. NoAddress \in [addr : {0} \cup Address, until : Nat]
        BY DEF NoAddress
  <2> QED BY <1>1, <2>1, <2>2, GiveUpInv DEF Inv, Types
<1> QED BY <1>2, <1>3, <1>4, <1>5, <1>6 DEF assignLease

\* A release removes a lease of the device itself, which stops using it.
LEMMA ReleaseInv ==
    ASSUME Backend = "mysql", Inv, NEW d \in Device, NEW h \in hwaddrs[d],
           NEW a \in Address, processRelease(d, h, a)
    PROVE  Inv'
PROOF
<1>1. now' = now /\ subnet_id' = subnet_id /\ nextID' = nextID
      BY DEF processRelease, config
<1>2. /\ held' \in [Device -> [addr : {0} \cup Address, until : Nat]]
      /\ \A e \in Device : held'[e] = held[e] \/ held'[e] = NoAddress
      /\ held[d].addr = a => held'[d] = NoAddress
  <2>1. NoAddress \in [addr : {0} \cup Address, until : Nat]
        BY DEF NoAddress
  <2> QED BY <2>1 DEF processRelease, Inv, Types
<1>3. CASE UNCHANGED <<storage, up>>
      BY <1>1, <1>2, <1>3, GiveUpInv DEF storage, Inv, Types
<1>4. CASE lease[a] # NoLease /\ lease[a].hwaddr = h /\ deleteLease(a)
  <2>1. /\ lease' = [lease EXCEPT ![a] = NoLease]
        /\ lease'[a] = NoLease
        /\ \A b \in Address : b # a => lease'[b] = lease[b]
        BY <1>4 DEF deleteLease, Inv, Types
  <2>2. Types'
        BY <1>1, <1>2, <2>1 DEF Inv, Types
  <2>3. OwnLease'
        BY <2>1 DEF Inv, OwnLease
  <2>4. Promised'
        BY <1>1, <1>2 DEF Inv, Promised, NoAddress
  <2>5. ASSUME NEW e \in Device, Holds(e)'
        PROVE  held'[e] = held[e] /\ Holds(e) /\ held[e].addr # a
    <3>1. held'[e] = held[e] /\ Holds(e)
          BY <1>1, <1>2, <2>5 DEF Holds, NoAddress
    <3>2. ASSUME held[e].addr = a PROVE e = d
          BY <1>4, <3>1, <3>2, IdentityAssumption DEF Inv, IssuedStored
    <3>3. held'[e] # NoAddress
          BY <2>5 DEF Holds, NoAddress
    <3> QED BY <1>2, <3>1, <3>2, <3>3
  <2>6. IssuedStored'
        BY <2>1, <2>5 DEF Inv, IssuedStored, Types, Holds
  <2>7. OneRow'
        BY <1>1, <2>1 DEF Inv, OneRow, hwKey, cidKey
  <2> QED BY <2>2, <2>3, <2>4, <2>6, <2>7 DEF Inv
<1> QED BY <1>3, <1>4 DEF processRelease

LEMMA NextInv ==
    ASSUME Backend = "mysql", Inv, [Next]_vars
    PROVE  Inv'
PROOF
<1>1. ASSUME NEW d \in Device, NEW h \in hwaddrs[d], NEW hint \in {0} \cup Address,
             processDiscover(d, h, hint)
      PROVE  Inv'
      BY <1>1, AssignInv DEF processDiscover
<1>2. ASSUME NEW d \in Device, NEW h \in hwaddrs[d], NEW hint \in {0} \cup Address,
             processRequest(d, h, hint)
      PROVE  Inv'
      BY <1>2, AssignInv DEF processRequest
<1>3. ASSUME NEW d \in Device, NEW h \in hwaddrs[d], NEW a \in Address,
             processRelease(d, h, a)
      PROVE  Inv'
      BY <1>3, ReleaseInv
<1>4. CASE configureDhcp4Server \/ Restart
  <2>1. /\ lease' = lease /\ held' = held /\ now' = now
        /\ subnet_id' \in Nat /\ nextID' \in Nat
        BY <1>4 DEF configureDhcp4Server, configurationAccepted, configurationRejected,
                    Restart, createLeaseMgr, createFails, newSubnet, storage, Inv, Types
  <2> QED BY <2>1, GiveUpInv DEF Inv, Types
<1>5. CASE Tick
  <2>1. lease' = lease /\ now' = now + 1 /\ subnet_id' = subnet_id /\ nextID' = nextID
        BY <1>5 DEF Tick, storage, config
  <2>2. /\ held' \in [Device -> [addr : {0} \cup Address, until : Nat]]
        /\ \A e \in Device : held'[e] = held[e] \/ held'[e] = NoAddress
    <3>1. NoAddress \in [addr : {0} \cup Address, until : Nat]
          BY DEF NoAddress
    <3> QED BY <1>5, <3>1 DEF Tick, Inv, Types
  <2> QED BY <2>1, <2>2, GiveUpInv DEF Inv, Types
<1>6. CASE UNCHANGED vars
      BY <1>6, GiveUpInv DEF vars, storage, config, Inv, Types
<1> QED BY <1>1, <1>2, <1>3, <1>4, <1>5, <1>6 DEF Next
-----------------------------------------------------------------------------
\* With the MySQL lease manager Inv holds in every reachable state.
THEOREM Invariance ==
    ASSUME Backend = "mysql"
    PROVE  Spec => []Inv
PROOF
<1>1. Inv /\ [Next]_vars => Inv'
      BY NextInv
<1> QED BY <1>1, InitInv, PTL DEF Spec

\* Every address in use is backed by a stored lease of the device that uses it
\* and that lasts long enough.
THEOREM LeasesStored ==
    ASSUME Backend = "mysql"
    PROVE  Spec => []IssuedStored
PROOF
<1>1. Inv => IssuedStored
      BY DEF Inv
<1> QED BY <1>1, Invariance, PTL

\* No two devices ever use one address.
THEOREM AddressesExclusive ==
    ASSUME Backend = "mysql"
    PROVE  Spec => []NoSharedAddress
PROOF
<1>1. Inv => NoSharedAddress
      BY IdentityAssumption DEF Inv, IssuedStored, NoSharedAddress
<1> QED BY <1>1, Invariance, PTL

\* A search for the lease of a client never meets two leases.
THEOREM SearchesUnambiguous ==
    ASSUME Backend = "mysql"
    PROVE  Spec => []OneRow
PROOF
<1>1. Inv => OneRow
      BY DEF Inv
<1> QED BY <1>1, Invariance, PTL
=============================================================================
