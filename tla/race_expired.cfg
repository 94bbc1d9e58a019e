\* Two processes take over one expired lease.
CONSTANTS
    AddressSpace = 4
    None = None
    Server = {p, q}
    Device = {d, e, f}
    TheSubnet <- TwoAddresses
    attempts = 2
    ValidLft = 1
    MaxTime = 2
    MaxRequests = 2
SPECIFICATION Spec
SYMMETRY Interchangeable
INVARIANTS NoSharedAddress
CHECK_DEADLOCK FALSE
