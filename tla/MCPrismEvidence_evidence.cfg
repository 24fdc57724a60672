SPECIFICATION Spec
CONSTANTS
    Keys = {k1, k2}
    Loans = {l1, l2}
    Commitments = {c1}
    Vaults = {v1}
    Batches = {b1}
    MaxKeys = 2
    MaxNonce = 2
    MaxMessages = 2
    MaxPayouts = 1
INVARIANTS
    TypeOK
    StatusIsEvidenced
PROPERTIES
    NonceGrows
    ListStaysSound
SYMMETRY Symmetry
