CONSTANTS
    k1 = k1
    k2 = k2
    w1 = w1
    w2 = w2
    a1 = a1
    own = own
    other = other
    ownAdmin = ownAdmin
    otherAdmin = otherAdmin
    WEEK = 1
    RecoveryHashes <- RecoverByAny
    NoHash = NoHash
    Gateways = {own, other}
    NoGateway = NoGateway
    AdminCalls = {}
    NoCall = NoCall
    Keys = {k1, k2}
    NoKey = NoKey
    Wallets = {w1, w2}
    NoWallet = NoWallet
    Create2 <- TwoWallets
    Accounts = {a1}
    This = own
    ProxyAdmins = {ownAdmin, otherAdmin}
    AdminOf <- OwnAdmins
    Expiries = {3}
    MaxTime = 2
    MaxNonce = 2
    MaxOps = 2
    MaxCalls = 1
    MaxDepth = 2
SPECIFICATION KeysSpec
INVARIANTS
    RunsOnSignedWallet
