\* The memfile without expiry, restart and reconfiguration.  The process may
\* die of the device without client identifier.
CONSTANTS
    AddressSpace = 4
    NoLease = NoLease
    Backend = "memfile"
    TheSubnet <- ThreeAddresses
    Device <- FourDevices
    hwaddrs <- OneCard
    clientId <- SomeClientIds
    attempts = 3
    ValidLft = 1
    MaxTime = 1
    MaxConfigs = 0
    MaxRestarts = 0
SPECIFICATION Spec
INVARIANTS  NoSharedAddress IssuedStored   
CHECK_DEADLOCK FALSE
