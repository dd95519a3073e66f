CONSTANTS
    k1 = k1
    k2 = k2
    w1 = w1
    w2 = w2
    a1 = a1
    own = own
    other = other
    ownAdmin = ownAdmin
    otherAdmin = otherAdmin
    WEEK = 1
    RecoveryHashes <- RecoverAnyhow
    NoHash = NoHash
    Gateways = {own, other}
    NoGateway = NoGateway
    AdminCalls <- AdminCallsOfW1
    NoCall = NoCall
    Keys = {k1, k2}
    NoKey = NoKey
    Wallets = {w1, w2}
    NoWallet = NoWallet
    Create2 <- TwoWallets
    Accounts = {a1}
    This = own
    ProxyAdmins = {ownAdmin, otherAdmin}
    AdminOf <- OwnAdmins
    Expiries = {7}
    MaxTime = 6
    MaxNonce = 4
    MaxOps = 1
    MaxCalls = 1
    MaxDepth = 4
SPECIFICATION WalletChangesSpec
INVARIANTS
    TypeOK
    ControllerSigns
    EachNonceOnce
    DeployedIffRegistered
PROPERTIES
    KeyChangesWait
    GuardedChangesWait
