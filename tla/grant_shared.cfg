SPECIFICATION Spec
CONSTANTS
    a1 = a1
    a2 = a2
    Addresses = {a1, a2}
    MaxDevices = 2
    MaxJobs = 5
    MaxSyncs = 1
SYMMETRY AddressSymmetry
INVARIANTS
    GrantIsExclusive
