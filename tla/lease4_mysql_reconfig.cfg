\* A reconfiguration moves a device whose lease runs.
CONSTANTS
    AddressSpace = 4
    NoLease = NoLease
    Backend = "mysql"
    TheSubnet <- TwoAddresses
    Device <- TwoDevices
    hwaddrs <- Cards
    clientId <- SomeClientIds
    attempts = 3
    ValidLft = 1
    MaxTime = 2
    MaxConfigs = 1
    MaxRestarts = 0
SPECIFICATION Spec
INVARIANTS KeepsAddressReconfigured
CHECK_DEADLOCK FALSE
