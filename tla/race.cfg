\* Two processes, copies of REQUESTs, and leases that expire.
CONSTANTS
    AddressSpace = 4
    None = None
    Server = {p, q}
    Device = {d, e, f}
    TheSubnet <- TwoAddresses
    attempts = 2
    ValidLft = 1
    MaxTime = 2
    MaxRequests = 3
SPECIFICATION Spec
SYMMETRY Interchangeable
INVARIANTS TypeOK ExclusiveUntilExpiry 
CHECK_DEADLOCK FALSE
