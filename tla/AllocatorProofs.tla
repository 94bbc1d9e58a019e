-------------------------- MODULE AllocatorProofs --------------------------
(***************************************************************************)
(* The allocator stays in the pools, for every address space and every     *)
(* list of pools, overlapping ones included.                               *)
(***************************************************************************)
EXTENDS Allocator, WellFoundedInduction, SequenceTheorems, TLAPS

\* A set of natural numbers has a least one.
LEMMA LeastNumber ==
    ASSUME NEW S \in SUBSET Nat, S # {}
    PROVE  \E i \in S : \A j \in S : i <= j
PROOF
<1> DEFINE R == {p \in Nat \X Nat : p[1] < p[2]}
<1>1. IsWellFoundedOn(R, Nat)
      BY NatLessThanWellFounded, Zenon DEF OpToRel
<1>2. \A i, j \in Nat : <<j, i>> \notin R => i <= j
      OBVIOUS
<1> HIDE DEF R
<1>3. PICK i \in S : \A j \in S : ~(<<j, i>> \in R)
      BY <1>1, WFMin
<1> QED BY <1>2, <1>3

\* An address that is in some pool is in a first one.
LEMMA FirstPool ==
    ASSUME NEW ps \in Seq(Pool), NEW a, inPool(ps, a)
    PROVE  \E i \in 1..Len(ps) : /\ inRange(ps[i], a)
                                 /\ \A j \in 1..i - 1 : ~inRange(ps[j], a)
PROOF
<1> DEFINE S == {i \in 1..Len(ps) : inRange(ps[i], a)}
<1>1. S \in SUBSET Nat /\ S # {}
      BY DEF inPool
<1>2. PICK i \in S : \A j \in S : i <= j
      BY <1>1, LeastNumber
<1>3. i \in 1..Len(ps) /\ inRange(ps[i], a)
      BY <1>2
<1>4. Len(ps) \in Nat
      BY LenProperties
<1>5. ASSUME NEW j \in 1..i - 1, inRange(ps[j], a) PROVE FALSE
  <2>1. j \in 1..Len(ps) /\ ~(i <= j)
        BY <1>3, <1>4
  <2> QED BY <1>2, <1>5, <2>1
<1> QED BY <1>3, <1>5

\* pickAddress returns an address of a pool.
LEMMA PickedInPool ==
    ASSUME NEW ps \in Seq(Pool), ps # <<>>, NEW last \in IOAddress
    PROVE  pickAddress(ps, last) \in IOAddress /\ inPool(ps, pickAddress(ps, last))
PROOF
<1> DEFINE it == CHOOSE i \in 1..Len(ps) :
                     /\ inRange(ps[i], last)
                     /\ \A j \in 1..i - 1 : ~inRange(ps[j], last)
           next == increaseAddress(last)
<1>1. \A i \in 1..Len(ps) : /\ ps[i] \in Pool
                            /\ ps[i].first \in IOAddress
                            /\ inRange(ps[i], ps[i].first)
      BY DEF Pool, inRange, IOAddress
<1>2. Len(ps) \in Nat /\ Len(ps) # 0
      BY EmptySeq
<1>3. next \in IOAddress
      BY AddressSpaceAssumption DEF increaseAddress, IOAddress
<1>4. inPool(ps, last) => it \in 1..Len(ps)
      BY FirstPool
<1>5. CASE pickAddress(ps, last) = ps[1].first
      BY <1>1, <1>2, <1>5 DEF inPool
<1>6. CASE /\ inPool(ps, last)
           /\ inRange(ps[it], next)
           /\ pickAddress(ps, last) = next
      BY <1>3, <1>4, <1>6 DEF inPool
<1>7. CASE /\ inPool(ps, last)
           /\ it # Len(ps)
           /\ pickAddress(ps, last) = ps[it + 1].first
  <2>1. it + 1 \in 1..Len(ps)
        BY <1>2, <1>4, <1>7
  <2> QED BY <1>1, <1>7, <2>1 DEF inPool
<1> QED BY <1>5, <1>6, <1>7 DEF pickAddress

\* The address a new subnet starts with is an address: a prefix and its length
\* stand for a part of the address space.
LEMMA LastInPrefix ==
    ASSUME NEW s \in Subnets
    PROVE  lastAddrInPrefix(s) \in IOAddress
PROOF
<1> DEFINE q == s.prefix \div s.size
           n == AddressSpace \div s.size
<1>1. /\ s.prefix \in 0..AddressSpace - 1
      /\ s.size \in Nat \ {0} /\ AddressSpace % s.size = 0
      BY SubnetsAssumption DEF Subnet, IOAddress
<1>2. q \in Nat /\ n \in Nat /\ AddressSpace = n * s.size
      BY <1>1, AddressSpaceAssumption
<1>3. q * s.size <= s.prefix
      BY <1>1
<1>4. q < n
      BY <1>1, <1>2, <1>3
<1>5. (q + 1) * s.size <= n * s.size
  <2> DEFINE k == s.size
  <2>1. k \in Nat /\ q \in Nat /\ n \in Nat /\ q + 1 <= n
        BY <1>1, <1>2, <1>4
  <2> HIDE DEF k, q, n
  <2>2. \A x, y, z \in Nat : x <= y => x * z <= y * z
        OBVIOUS
  <2>3. q + 1 \in Nat
        BY <2>1
  <2> QED BY <2>1, <2>2, <2>3 DEF k
<1> QED BY <1>1, <1>2, <1>5 DEF lastAddrInPrefix, firstAddrInPrefix, IOAddress

LEMMA TypeInv ==
    ASSUME TypeOK, [Next]_allocVars
    PROVE  TypeOK' /\ (UNCHANGED allocVars \/ inPool(pools, last_allocated'))
BY PickedInPool DEF TypeOK, Next, Pick, PickFails, allocVars

\* The address tried last is an address of the family.
THEOREM TypeCorrect == Spec => []TypeOK
PROOF
<1>1. Init => TypeOK
      BY LastInPrefix, SubnetsAssumption DEF Init, TypeOK, Subnet
<1>2. TypeOK /\ [Next]_allocVars => TypeOK'
      BY TypeInv
<1> QED BY <1>1, <1>2, PTL DEF Spec

\* Every address pickAddress proposes belongs to a configured pool.
THEOREM StaysInPools == Spec => PicksFromPools
PROOF
<1>1. TypeOK /\ [Next]_allocVars => [inPool(pools, last_allocated')]_allocVars
      BY TypeInv
<1> QED BY <1>1, TypeCorrect, PTL DEF Spec, PicksFromPools
=============================================================================
