\* An expired lease is given to another device.
CONSTANTS
    AddressSpace = 4
    NoLease = NoLease
    Backend = "memfile"
    TheSubnet <- ThreeAddresses
    Device <- ThreeDevices
    hwaddrs <- OneCard
    clientId <- ClientIds
    attempts = 3
    ValidLft = 1
    MaxTime = 2
    MaxConfigs = 0
    MaxRestarts = 0
SPECIFICATION Spec
INVARIANTS IssuedStored
CHECK_DEADLOCK FALSE
