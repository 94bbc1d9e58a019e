\* Expiry, a reconfiguration, a restart and failing statements with MySQL.
CONSTANTS
    AddressSpace = 4
    NoLease = NoLease
    Backend = "mysql"
    TheSubnet <- TwoAddresses
    Device <- ThreeDevices
    hwaddrs <- Cards
    clientId <- SomeClientIds
    attempts = 2
    ValidLft = 1
    MaxTime = 2
    MaxConfigs = 1
    MaxRestarts = 1
SPECIFICATION Spec
INVARIANTS TypeOK NoSharedAddress IssuedStored OneRow KeepsAddress 
