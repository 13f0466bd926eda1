\* Two operators and a client.
SPECIFICATION Spec
CONSTANTS
    Merchants = {m1, m2}
    NoMerchant = NoMerchant
    KeyIds = {k1, k2, k3, k4}
    NoKey = NoKey
    Operators = {o1, o2}
    Clients = {c1}
SYMMETRY Exchangeable
INVARIANTS
    KeysInv
    OnlyOverlapLocksOut
