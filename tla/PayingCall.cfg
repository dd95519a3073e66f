CONSTANTS
    k1 = k1
    k2 = k2
    a1 = a1
    a2 = a2
    zero = zero
    aggregatorUtilities = au
    blsRegistration = br
    Keys = {k1, k2}
    Addresses = {a1, a2, au, br}
    Bundles <- PayingBundles
    WordSize = 16777216
    MaxExponent = 2
    FirstAddressId = 65535
    FirstKeyId = 8388607
    MaxRegistrations = 4
SPECIFICATION Spec
INVARIANTS
    ExpandsToBundle
CHECK_DEADLOCK FALSE
