----------------------------- MODULE Allocator -----------------------------
(***************************************************************************)
(* AllocEngine::IterativeAllocator over the pools of one subnet: the       *)
(* subnet remembers the address tried last, and each call moves on.        *)
(***************************************************************************)
EXTENDS Pools

CONSTANT Subnets  \* the subnets considered

\* The length of a prefix stands for a power of two of the address space.
ASSUME SubnetsAssumption ==
    /\ Subnets \subseteq Subnet
    /\ \A s \in Subnets : AddressSpace % s.size = 0
-----------------------------------------------------------------------------
VARIABLES
    pools,          \* the pools of the subnet
    last_allocated  \* the address tried last

allocVars == <<pools, last_allocated>>

\* Subnet::Subnet, and addPool for each configured pool: the subnet starts with
\* the last address of its prefix as the address tried last, which may or may
\* not belong to a pool.
Init ==
    \E s \in Subnets :
        /\ \A i \in 1..Len(s.pools) : addPoolAccepts(s, s.pools[i])
        /\ pools = s.pools
        /\ last_allocated = lastAddrInPrefix(s)

Pick ==
    /\ pools # <<>>
    /\ last_allocated' = pickAddress(pools, last_allocated)
    /\ UNCHANGED pools

\* A subnet without pools: AllocFailed is thrown before anything changes.
PickFails ==
    /\ pools = <<>>
    /\ UNCHANGED allocVars

Next == Pick \/ PickFails

Spec == Init /\ [][Next]_allocVars

\* allocateAddress4 and allocateAddress6 try again until an address is found.
FairSpec == Spec /\ WF_allocVars(Pick)
-----------------------------------------------------------------------------
Overlap(p, q) == p.first <= q.last /\ q.first <= p.last

PoolsDisjoint ==
    \A i, j \in 1..Len(pools) : i # j => ~Overlap(pools[i], pools[j])

\* The address tried last is an address of the family.
TypeOK ==
    /\ pools \in Seq(Pool)
    /\ last_allocated \in IOAddress

\* pickAddress never leaves the configured pools, whatever address it starts
\* from and wherever the pools lie in the address space.
PicksFromPools == [][inPool(pools, last_allocated')]_allocVars

\* The search covers the pools: every address of every pool is tried again and
\* again, as long as the pools do not overlap.
CoversPools ==
    \A a \in IOAddress :
        [](PoolsDisjoint /\ inPool(pools, a) => <>(last_allocated = a))
=============================================================================
