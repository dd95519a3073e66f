------------------------------ MODULE BLSWallet ------------------------------
(****************************************************************************)
(* The storage of one BLSWallet proxy and what each of its methods does to  *)
(* it (contracts/contracts/BLSWallet.sol).  A method is an operator from    *)
(* the storage b before the call to the storage after it; who may call it   *)
(* (onlyThis, onlyTrustedGateway) is a guard of the caller, and is stated   *)
(* here as an operator of its own so that the caller names it.              *)
(*                                                                          *)
(* A bytes32 hash is the value it commits to; the zero hash and the zero    *)
(* address are the No... constants.                                         *)
(****************************************************************************)
EXTENDS Naturals

CONSTANTS
    WEEK,             \* the delay of every guarded change: 604800 seconds
    RecoveryHashes,   \* keccak256(sender, key hash, salt), as <<sender, key>>
    NoHash,           \* bytes32(0)
    Gateways,         \* contracts a wallet may trust as its gateway
    NoGateway,        \* address(0)
    AdminCalls,       \* encoded calls of a ProxyAdmin
    NoCall            \* bytes32(0), as the hash of an encoded call

ASSUME WalletAssumption ==
    /\ WEEK \in Nat \ {0}
    /\ NoHash \notin RecoveryHashes
    /\ NoGateway \notin Gateways
    /\ NoCall \notin AdminCalls

WalletStorage ==
    [ initialized: BOOLEAN,
      nonce: Nat,
      recoveryHash: RecoveryHashes \union {NoHash},
      pendingRecoveryHash: RecoveryHashes \union {NoHash},
      pendingRecoveryHashTime: Nat,
      approvedProxyAdminFunctionHash: AdminCalls \union {NoCall},
      pendingPAFunctionHash: AdminCalls \union {NoCall},
      pendingPAFunctionTime: Nat,
      trustedBLSGateway: Gateways \union {NoGateway},
      pendingBLSGateway: Gateways \union {NoGateway},
      pendingGatewayTime: Nat ]

\* The storage at an address where no proxy has been created yet.
NotDeployed ==
    [ initialized |-> FALSE,
      nonce |-> 0,
      recoveryHash |-> NoHash,
      pendingRecoveryHash |-> NoHash,
      pendingRecoveryHashTime |-> 0,
      approvedProxyAdminFunctionHash |-> NoCall,
      pendingPAFunctionHash |-> NoCall,
      pendingPAFunctionTime |-> 0,
      trustedBLSGateway |-> NoGateway,
      pendingBLSGateway |-> NoGateway,
      pendingGatewayTime |-> 0 ]

\* A proxy is initialized, once, by the transaction that creates it.
Deployed(b) == b.initialized

OnlyTrustedGateway(b, sender) == b.trustedBLSGateway = sender

Elapsed(time, now) == time # 0 /\ now > time

Initialize(b, blsGateway) ==
    [b EXCEPT !.initialized = TRUE, !.nonce = 0,
              !.trustedBLSGateway = blsGateway]

ClearPendingRecoveryHash(b) ==
    [b EXCEPT !.pendingRecoveryHash = NoHash, !.pendingRecoveryHashTime = 0]

\* Mutated: a second request keeps the clock of the first.
SetRecoveryHashKeepsClock(b, hash, now) ==
    IF b.recoveryHash = NoHash
    THEN ClearPendingRecoveryHash([b EXCEPT !.recoveryHash = hash])
    ELSE [b EXCEPT !.pendingRecoveryHash = hash,
                   !.pendingRecoveryHashTime = IF @ = 0 THEN now + WEEK ELSE @]

\* The first recovery hash is set at once, a later one after a week.
SetRecoveryHash(b, hash, now) ==
    IF b.recoveryHash = NoHash
    THEN ClearPendingRecoveryHash([b EXCEPT !.recoveryHash = hash])
    ELSE [b EXCEPT !.pendingRecoveryHash = hash,
                   !.pendingRecoveryHashTime = now + WEEK]

SetTrustedGateway(b, blsGateway, now) ==
    [b EXCEPT !.pendingBLSGateway = blsGateway,
              !.pendingGatewayTime = now + WEEK]

SetProxyAdminFunctionHash(b, call, now) ==
    [b EXCEPT !.pendingPAFunctionHash = call,
              !.pendingPAFunctionTime = now + WEEK]

ApplyRecoveryHash(b, now) ==
    IF Elapsed(b.pendingRecoveryHashTime, now)
    THEN ClearPendingRecoveryHash(
            [b EXCEPT !.recoveryHash = b.pendingRecoveryHash])
    ELSE b

ApplyGateway(b, now) ==
    IF Elapsed(b.pendingGatewayTime, now)
    THEN [b EXCEPT !.trustedBLSGateway = b.pendingBLSGateway,
                   !.pendingGatewayTime = 0,
                   !.pendingBLSGateway = NoGateway]
    ELSE b

ApplyPAFunction(b, now) ==
    IF Elapsed(b.pendingPAFunctionTime, now)
    THEN [b EXCEPT !.approvedProxyAdminFunctionHash = b.pendingPAFunctionHash,
                   !.pendingPAFunctionTime = 0,
                   !.pendingPAFunctionHash = NoCall]
    ELSE b

SetAnyPending(b, now) ==
    ApplyPAFunction(ApplyGateway(ApplyRecoveryHash(b, now), now), now)

\* Mutated: the time of the pending gateway is not reset.
RecoverKeepsGatewayTime(b) ==
    [ClearPendingRecoveryHash(b) EXCEPT
        !.pendingBLSGateway = NoGateway,
        !.pendingPAFunctionTime = 0,
        !.pendingPAFunctionHash = NoCall]

Recover(b) ==
    [ClearPendingRecoveryHash(b) EXCEPT
        !.pendingGatewayTime = 0,
        !.pendingBLSGateway = NoGateway,
        !.pendingPAFunctionTime = 0,
        !.pendingPAFunctionHash = NoCall]

\* Taken before the operation's actions, so that none of them can replay it.
IncrementNonce(b) == [b EXCEPT !.nonce = @ + 1]

\* Mutated: nonces that are not reached yet are accepted.
ThisNonceOrLater(b, nonce) == nonce >= b.nonce

ThisNonce(b, nonce) == nonce = b.nonce

ClearApprovedProxyAdminFunctionHash(b) ==
    [b EXCEPT !.approvedProxyAdminFunctionHash = NoCall]
=============================================================================
