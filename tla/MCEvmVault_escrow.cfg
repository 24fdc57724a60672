SPECIFICATION Spec
CONSTANTS
    Loans = {l1, l2}
    Tokens = {usdc}
    Eth = eth
    Users = {alice, treasury}
    Vault = vault
    Funds = 2
    MaxDepth = 2
INVARIANTS
    TypeOK
    Solvent
    NeverTrapped
PROPERTY ImplementsEscrow
CHECK_DEADLOCK FALSE
