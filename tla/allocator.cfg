\* Every subnet of a small address space with up to two pools.
CONSTANTS
    Bits = 3
    MaxPools = 2
    AddressSpace <- Space
    Subnets <- SmallSubnets
SPECIFICATION FairSpec
INVARIANTS TypeOK
PROPERTIES PicksFromPools CoversPools
