------------------------- MODULE VerificationGateway -------------------------
(****************************************************************************)
(* The VerificationGateway contract together with the wallets it deploys    *)
(* (contracts/contracts/VerificationGateway.sol, BLSWallet.sol).            *)
(*                                                                          *)
(* The chain runs one transaction at a time, but a transaction is a tree of *)
(* calls: a bundle performs operations, an operation makes calls, and one   *)
(* of these may be processBundle again.  Each call is one action here, the  *)
(* call stack is explicit, and every frame keeps the storage to return to   *)
(* when it reverts.  Which calls an operation makes is chosen while it      *)
(* runs: its key signed them, whatever they are.                            *)
(*                                                                          *)
(* A call that returns without writing storage is left out, and any call    *)
(* may fail (a require, or no gas left): OperationReverts, BundleReverts.   *)
(****************************************************************************)
EXTENDS BLSWallet, Sequences

CONSTANTS
    Keys,        \* BLS public keys; a key also stands for its keccak256 hash
    NoKey,       \* the zero key, the zero hash
    Wallets,     \* wallet addresses
    NoWallet,    \* address(0)
    Create2,     \* the address a proxy created with salt hash(key) gets
    Accounts,    \* externally owned accounts
    This,        \* this gateway, a member of Gateways
    ProxyAdmins, \* ProxyAdmin contracts
    AdminOf,     \* the walletProxyAdmin of each gateway
    Expiries,    \* signature expiry timestamps
    MaxTime,     \* bound on the clock
    MaxNonce,    \* bound on wallet nonces
    MaxOps,      \* bound on the operations of a bundle
    MaxCalls,    \* bound on the calls of an operation
    MaxDepth     \* bound on the height of the call stack

ASSUME GatewayAssumption ==
    /\ NoKey \notin Keys
    /\ NoWallet \notin Wallets
    /\ Create2 \in [Keys -> Wallets]
    /\ \A j, k \in Keys : Create2[j] = Create2[k] => j = k
    /\ This \in Gateways
    /\ AdminOf \in [Gateways -> ProxyAdmins]
    /\ AdminCalls \subseteq [selector: STRING, proxy: Wallets, to: ProxyAdmins]
    /\ Expiries \subseteq Nat
    /\ {MaxTime, MaxNonce, MaxOps, MaxCalls, MaxDepth} \subseteq Nat

VARIABLES
    gateway,     \* the mappings of VerificationGateway
    wallet,      \* the storage of each wallet
    proxyAdmin,  \* the admin of each wallet's TransparentUpgradeableProxy
    history,     \* what properties remember of the past; not in the code
    stack,       \* frames of the running transaction, the innermost last
    now          \* block.timestamp

vars == <<gateway, wallet, proxyAdmin, history, stack, now>>

\* A signature of an address and an expiry, by the key it comes with.
Signatures == [wallet: Wallets, expiry: Expiries]
NoSignature == [wallet |-> NoWallet, expiry |-> 0]

\* An operation: who signed it, for which wallet, with which nonce.
Operations == [key: Keys, wallet: Wallets, nonce: 0..MaxNonce]
Bundles == UNION {[1..n -> Operations] : n \in 1..MaxOps}

GatewayStorage ==
    [ walletFromHash: [Keys -> Wallets \union {NoWallet}],
      hashFromWallet: [Wallets -> Keys \union {NoKey}],
      BLSPublicKeyFromHash: [Keys -> Keys \union {NoKey}],
      pendingBLSPublicKeyFromHash: [Keys -> Keys \union {NoKey}],
      pendingMessageSenderSignatureFromHash:
          [Keys -> Signatures \union {NoSignature}],
      pendingBLSPublicKeyTimeFromHash: [Keys -> Nat] ]

\* A request for a guarded change: what was asked, when, and whether it may
\* still take effect: the wallet was not recovered since, or a key, which is
\* asked for under the hash of the key to replace, was not adopted since.
Requests(V) == [value: V, at: Nat, live: BOOLEAN]
Request(v) == [value |-> v, at |-> now, live |-> TRUE]
NoRequest(none) == [value |-> none, at |-> 0, live |-> FALSE]

History ==
    [ performed: [Wallets -> [0..MaxNonce -> Nat]],
      askedHash: [Wallets -> Requests(RecoveryHashes \union {NoHash})],
      askedGateway: [Wallets -> Requests(Gateways \union {NoGateway})],
      askedCall: [Wallets -> Requests(AdminCalls \union {NoCall})],
      askedKey: [Keys -> Requests(Keys \union {NoKey})] ]

Snapshots ==
    [ gateway: GatewayStorage,
      wallet: [Wallets -> WalletStorage],
      proxyAdmin: [Wallets -> ProxyAdmins],
      history: History ]

\* A frame of processBundle has no wallet, and the operations still to run;
\* a frame of performOperation has the wallet that runs it, the wallet its
\* signature names, and the number of calls made so far.
Frames ==
    [ wallet: Wallets \union {NoWallet},
      signed: Wallets \union {NoWallet},
      ops: Seq(Operations),
      calls: Nat,
      saved: Snapshots ]

\* A key waits exactly as long as its time does.
PendingKeys(g) ==
    \A key \in Keys :
        g.pendingBLSPublicKeyFromHash[key] = NoKey
            <=> g.pendingBLSPublicKeyTimeFromHash[key] = 0

\* Every variable has its type, and no time waits without a key to adopt: a
\* wallet never adopts the zero key (setBLSKeyForWallet, safeSetWallet).
TypeOK ==
    /\ gateway \in GatewayStorage
    /\ PendingKeys(gateway)
    /\ wallet \in [Wallets -> WalletStorage]
    /\ proxyAdmin \in [Wallets -> ProxyAdmins]
    /\ history \in History
    /\ stack \in Seq(Frames)
    /\ now \in Nat

Init ==
    /\ gateway =
        [ walletFromHash |-> [k \in Keys |-> NoWallet],
          hashFromWallet |-> [w \in Wallets |-> NoKey],
          BLSPublicKeyFromHash |-> [k \in Keys |-> NoKey],
          pendingBLSPublicKeyFromHash |-> [k \in Keys |-> NoKey],
          pendingMessageSenderSignatureFromHash |-> [k \in Keys |-> NoSignature],
          pendingBLSPublicKeyTimeFromHash |-> [k \in Keys |-> 0] ]
    /\ wallet = [w \in Wallets |-> NotDeployed]
    /\ proxyAdmin = [w \in Wallets |-> AdminOf[This]]
    /\ history =
        [ performed |-> [w \in Wallets |-> [n \in 0..MaxNonce |-> 0]],
          askedHash |-> [w \in Wallets |-> NoRequest(NoHash)],
          askedGateway |-> [w \in Wallets |-> NoRequest(NoGateway)],
          askedCall |-> [w \in Wallets |-> NoRequest(NoCall)],
          askedKey |-> [k \in Keys |-> NoRequest(NoKey)] ]
    /\ stack = <<>>
    /\ now = 0

-----------------------------------------------------------------------------
(* The call stack                                                           *)

Depth == Len(stack)
Top == stack[Depth]
Pop(n) == SubSeq(stack, 1, Depth - n)
InBundle == stack # <<>> /\ Top.wallet = NoWallet
InOperation == stack # <<>> /\ Top.wallet # NoWallet

Snapshot ==
    [ gateway |-> gateway, wallet |-> wallet,
      proxyAdmin |-> proxyAdmin, history |-> history ]

RevertTo(s) ==
    /\ gateway' = s.gateway
    /\ wallet' = s.wallet
    /\ proxyAdmin' = s.proxyAdmin
    /\ history' = s.history

\* The wallet that runs the innermost operation has a call left to make.
MayCall(w) == InOperation /\ Top.wallet = w /\ Top.calls < MaxCalls

Called == [stack EXCEPT ![Depth].calls = @ + 1]

\* msg.sender = w
CallBy(w) == MayCall(w) /\ stack' = Called

\* A contract is called by a transaction of its own or by a running operation.
MayEnter == stack = <<>> \/ (InOperation /\ MayCall(Top.wallet))
Entered == IF stack = <<>> THEN <<>> ELSE Called

\* msg.sender = s: a wallet in its operation, or an account's transaction
CallFrom(s) ==
    \/ s \in Wallets /\ CallBy(s)
    \/ s \in Accounts /\ stack = <<>> /\ UNCHANGED stack

-----------------------------------------------------------------------------
(* The mappings between keys and wallets                                    *)

\* Mutated: the hash the wallet had keeps its route.
KeepOldHash(g, key, w) ==
    [g EXCEPT !.walletFromHash[key] = w,
              !.hashFromWallet[w] = key,
              !.BLSPublicKeyFromHash[key] = key]

\* The wallet leaves the hash it had (writing slot 0 when it had none).
UpdateWalletHashMappings(g, key, w) ==
    LET oldHash == g.hashFromWallet[w]
        Replace(f, none, v) ==
            [k \in Keys |->
                IF k = key THEN v ELSE IF k = oldHash THEN none ELSE f[k]]
    IN  [g EXCEPT
            !.walletFromHash = Replace(@, NoWallet, w),
            !.hashFromWallet[w] = key,
            !.BLSPublicKeyFromHash = Replace(@, NoKey, key)]

\* What safeSetWallet requires: key signed this wallet, and this expiry.
MaySetWallet(signature, w, expiry) ==
    /\ now < expiry
    /\ signature = [wallet |-> w, expiry |-> expiry]

\* The wallet an operation signed by key is for.
SignedWallet(key) ==
    IF gateway.walletFromHash[key] = NoWallet
    THEN Create2[key]
    ELSE gateway.walletFromHash[key]

Verify(bundle) ==
    \A i \in DOMAIN bundle : bundle[i].wallet = SignedWallet(bundle[i].key)

\* A signature that the gateway accepts for wallet w (ERC-1271): key's.
IsValidSignature(w, key) ==
    /\ gateway.hashFromWallet[w] # NoKey
    /\ gateway.BLSPublicKeyFromHash[gateway.hashFromWallet[w]] = key

OnlyWallet(w, key) == gateway.walletFromHash[key] = w

MayGetOrCreate(key) ==
    \/ gateway.walletFromHash[key] # NoWallet
    \/ ~Deployed(wallet[Create2[key]])

\* The wallet that runs key's operation, with the storage once it exists.
GetOrCreateWallet(key) ==
    LET w == SignedWallet(key) IN
    IF gateway.walletFromHash[key] # NoWallet
    THEN [to |-> w, gateway |-> gateway, wallet |-> wallet]
    ELSE [to |-> w,
          gateway |-> UpdateWalletHashMappings(gateway, key, w),
          wallet |-> [wallet EXCEPT ![w] = Initialize(@, This)]]

-----------------------------------------------------------------------------
(* processBundle                                                            *)

BundleFrame(bundle) ==
    [ wallet |-> NoWallet, signed |-> NoWallet, ops |-> bundle,
      calls |-> 0, saved |-> Snapshot ]

ProcessBundle(bundle) ==
    /\ MayEnter /\ Depth < MaxDepth
    /\ Verify(bundle)
    /\ stack' = Append(Entered, BundleFrame(bundle))
    /\ UNCHANGED <<gateway, wallet, proxyAdmin, history, now>>

RemainingOps == [stack EXCEPT ![Depth].ops = Tail(@)]

\* The next operation's nonce is not the wallet's: nothing is performed.
SkipOperation ==
    /\ InBundle /\ Top.ops # <<>>
    /\ LET op == Head(Top.ops)
           got == GetOrCreateWallet(op.key)
       IN  /\ MayGetOrCreate(op.key)
           /\ ~ThisNonce(got.wallet[got.to], op.nonce)
           /\ gateway' = got.gateway
           /\ wallet' = got.wallet
    /\ stack' = RemainingOps
    /\ UNCHANGED <<proxyAdmin, history, now>>

Performed(w, n) == [history EXCEPT !.performed[w][n] = @ + 1]

\* The wallet takes its nonce and starts the operation; if an action fails it
\* returns to the storage it has now, the nonce taken.
PerformOperation ==
    /\ InBundle /\ Top.ops # <<>> /\ Depth < MaxDepth
    /\ LET op == Head(Top.ops)
           got == GetOrCreateWallet(op.key)
           b == got.wallet[got.to]
       IN  /\ MayGetOrCreate(op.key)
           /\ OnlyTrustedGateway(b, This) /\ ThisNonce(b, op.nonce)
           /\ b.nonce < MaxNonce
           /\ gateway' = got.gateway
           /\ wallet' = [got.wallet EXCEPT ![got.to] = IncrementNonce(b)]
           /\ history' = Performed(got.to, op.nonce)
           /\ stack' = Append(RemainingOps,
                 [ wallet |-> got.to, signed |-> op.wallet, ops |-> <<>>,
                   calls |-> 0,
                   saved |-> [gateway |-> gateway', wallet |-> wallet',
                              proxyAdmin |-> proxyAdmin, history |-> history'] ])
    /\ UNCHANGED <<proxyAdmin, now>>

\* The gateway a wallet moved to has it perform an operation (external).
ForeignOperation(w) ==
    LET b == wallet[w] IN
    /\ MayEnter /\ Depth < MaxDepth
    /\ b.trustedBLSGateway \in Gateways \ {This}
    /\ b.nonce < MaxNonce
    /\ wallet' = [wallet EXCEPT ![w] = IncrementNonce(b)]
    /\ history' = Performed(w, b.nonce)
    /\ stack' = Append(Entered,
           [ wallet |-> w, signed |-> w, ops |-> <<>>, calls |-> 0,
             saved |-> [gateway |-> gateway, wallet |-> wallet',
                        proxyAdmin |-> proxyAdmin, history |-> history'] ])
    /\ UNCHANGED <<gateway, proxyAdmin, now>>

OperationSucceeds ==
    /\ InOperation
    /\ stack' = Pop(1)
    /\ UNCHANGED <<gateway, wallet, proxyAdmin, history, now>>

\* One action failed: the wallet catches it, the operation has no effect.
OperationReverts ==
    /\ InOperation
    /\ RevertTo(Top.saved)
    /\ stack' = Pop(1)
    /\ UNCHANGED now

BundleEnds ==
    /\ InBundle /\ Top.ops = <<>>
    /\ stack' = Pop(1)
    /\ UNCHANGED <<gateway, wallet, proxyAdmin, history, now>>

\* processBundle itself failed.  The transaction did nothing, or a contract
\* that called it in between caught that; or the operation around it fails.
BundleReverts ==
    /\ InBundle
    /\ \/ RevertTo(Top.saved) /\ stack' = Pop(1)
       \/ /\ Depth > 1
          /\ RevertTo(stack[Depth - 1].saved) /\ stack' = Pop(2)
    /\ UNCHANGED now

-----------------------------------------------------------------------------
(* The calls an operation or an account makes                               *)

\* Mutated: the zero key is not refused.
SetAnyBLSKey(w, signature, key) ==
    LET existingHash == gateway.hashFromWallet[w] IN
    /\ CallBy(w)
    /\ existingHash # NoKey
    /\ gateway' = [gateway EXCEPT
           !.pendingMessageSenderSignatureFromHash[existingHash] = signature,
           !.pendingBLSPublicKeyFromHash[existingHash] = key,
           !.pendingBLSPublicKeyTimeFromHash[existingHash] = now + WEEK]
    /\ history' = [history EXCEPT !.askedKey[existingHash] = Request(key)]
    /\ UNCHANGED <<wallet, proxyAdmin, now>>

SetBLSKeyForWallet(w, signature, key) ==
    LET existingHash == gateway.hashFromWallet[w] IN
    /\ CallBy(w)
    /\ key # NoKey
    /\ existingHash # NoKey
    /\ gateway' = [gateway EXCEPT
           !.pendingMessageSenderSignatureFromHash[existingHash] = signature,
           !.pendingBLSPublicKeyFromHash[existingHash] = key,
           !.pendingBLSPublicKeyTimeFromHash[existingHash] = now + WEEK]
    /\ history' = [history EXCEPT !.askedKey[existingHash] = Request(key)]
    /\ UNCHANGED <<wallet, proxyAdmin, now>>

\* Clears what waits under the hash the wallet had before the change.
ClearPendingKey(g, hash) ==
    [g EXCEPT !.pendingMessageSenderSignatureFromHash[hash] = NoSignature,
              !.pendingBLSPublicKeyTimeFromHash[hash] = 0,
              !.pendingBLSPublicKeyFromHash[hash] = NoKey]

\* Mutated: a pending key is set whether or not its week has passed.
SetPendingAtOnce(w, expiry) ==
    LET existingHash == gateway.hashFromWallet[w] IN
    /\ CallBy(w)
    /\ existingHash # NoKey
    /\ gateway.pendingBLSPublicKeyTimeFromHash[existingHash] # 0
    /\ MaySetWallet(gateway.pendingMessageSenderSignatureFromHash[existingHash],
                    w, expiry)
    /\ gateway' = ClearPendingKey(
           UpdateWalletHashMappings(
               gateway, gateway.pendingBLSPublicKeyFromHash[existingHash], w),
           existingHash)
    /\ history' = [history EXCEPT !.askedKey[existingHash].live = FALSE]
    /\ UNCHANGED <<wallet, proxyAdmin, now>>

SetPendingBLSKeyForWallet(w, expiry) ==
    LET existingHash == gateway.hashFromWallet[w] IN
    /\ CallBy(w)
    /\ existingHash # NoKey
    /\ Elapsed(gateway.pendingBLSPublicKeyTimeFromHash[existingHash], now)
    /\ MaySetWallet(gateway.pendingMessageSenderSignatureFromHash[existingHash],
                    w, expiry)
    /\ gateway' = ClearPendingKey(
           UpdateWalletHashMappings(
               gateway, gateway.pendingBLSPublicKeyFromHash[existingHash], w),
           existingHash)
    /\ history' = [history EXCEPT !.askedKey[existingHash].live = FALSE]
    /\ UNCHANGED <<wallet, proxyAdmin, now>>

Unowned == {"transferOwnership", "renounceOwnership"}
Upgrades == {"upgrade", "upgradeAndCall"}

\* The first call asks for an admin call; the same call a week later makes it.
WalletAdminCall(w, key, call) ==
    LET b == SetAnyPending(wallet[w], now) IN
    /\ CallBy(w)
    /\ OnlyWallet(w, key)
    /\ call.selector \notin Unowned \union Upgrades
    /\ call.selector # "owner" => call.proxy = w
    /\ OnlyTrustedGateway(b, This)
    /\ IF call = b.approvedProxyAdminFunctionHash
       THEN /\ call.selector # "owner" => proxyAdmin[w] = AdminOf[This]
            /\ proxyAdmin' = IF call.selector = "changeProxyAdmin"
                             THEN [proxyAdmin EXCEPT ![w] = call.to]
                             ELSE proxyAdmin
            /\ wallet' = [wallet EXCEPT
                   ![w] = ClearApprovedProxyAdminFunctionHash(b)]
            /\ UNCHANGED history
       ELSE /\ wallet' = [wallet EXCEPT
                   ![w] = SetProxyAdminFunctionHash(b, call, now)]
            /\ history' = [history EXCEPT !.askedCall[w] = Request(call)]
            /\ UNCHANGED proxyAdmin
    /\ UNCHANGED <<gateway, now>>

\* Another gateway is asked whether it recognises the wallet; both answers
\* are possible, and an action that is not taken stands for "no".
SetTrustedBLSGateway(w, key, blsGateway) ==
    /\ CallBy(w)
    /\ OnlyWallet(w, key)
    /\ AdminOf[blsGateway] = proxyAdmin[w]
    /\ OnlyTrustedGateway(wallet[w], This)
    /\ wallet' = [wallet EXCEPT
           ![w] = SetTrustedGateway(@, blsGateway, now)]
    /\ history' = [history EXCEPT !.askedGateway[w] = Request(blsGateway)]
    /\ UNCHANGED <<gateway, proxyAdmin, now>>

\* A recovery ends every request the wallet itself keeps.
Revoked(w) ==
    [history EXCEPT
        !.askedHash[w].live = FALSE,
        !.askedGateway[w].live = FALSE,
        !.askedCall[w].live = FALSE]

RecoverWallet(sender, signature, key, newKey, expiry) ==
    LET w == gateway.walletFromHash[key] IN
    /\ CallFrom(sender)
    /\ w # NoWallet
    /\ wallet[w].recoveryHash = <<sender, key>>
    /\ MaySetWallet(signature, w, expiry)
    /\ OnlyTrustedGateway(wallet[w], This)
    /\ gateway' = UpdateWalletHashMappings(gateway, newKey, w)
    /\ wallet' = [wallet EXCEPT ![w] = Recover(@)]
    /\ history' = Revoked(w)
    /\ UNCHANGED <<proxyAdmin, now>>

\* What else the gateway a wallet moved to may call on it: its code is not
\* known, and the wallet checks only who calls (external).
ForeignCall(w) ==
    /\ MayEnter
    /\ wallet[w].trustedBLSGateway \in Gateways \ {This}
    /\ \/ \E blsGateway \in Gateways \union {NoGateway} :
              /\ wallet' = [wallet EXCEPT
                     ![w] = SetTrustedGateway(@, blsGateway, now)]
              /\ history' = [history EXCEPT
                     !.askedGateway[w] = Request(blsGateway)]
       \/ \E call \in AdminCalls \union {NoCall} :
              /\ wallet' = [wallet EXCEPT
                     ![w] = SetProxyAdminFunctionHash(@, call, now)]
              /\ history' = [history EXCEPT !.askedCall[w] = Request(call)]
       \/ /\ wallet' = [wallet EXCEPT ![w] = Recover(@)]
          /\ history' = Revoked(w)
       \/ /\ wallet' = [wallet EXCEPT
                 ![w] = ClearApprovedProxyAdminFunctionHash(@)]
          /\ UNCHANGED history
    /\ stack' = Entered
    /\ UNCHANGED <<gateway, proxyAdmin, now>>

SetRecoveryHashOf(w, hash) ==
    /\ CallBy(w)
    /\ wallet' = [wallet EXCEPT ![w] = SetRecoveryHash(@, hash, now)]
    /\ history' = [history EXCEPT !.askedHash[w] = Request(hash)]
    /\ UNCHANGED <<gateway, proxyAdmin, now>>

SetAnyPendingOf(sender, w) ==
    /\ CallFrom(sender)
    /\ Deployed(wallet[w])
    /\ wallet' = [wallet EXCEPT ![w] = SetAnyPending(@, now)]
    /\ UNCHANGED <<gateway, proxyAdmin, history, now>>

Tick ==
    /\ stack = <<>>
    /\ now < MaxTime
    /\ now' = now + 1
    /\ UNCHANGED <<gateway, wallet, proxyAdmin, history, stack>>

-----------------------------------------------------------------------------

Bundle ==
    \/ \E bundle \in Bundles : ProcessBundle(bundle)
    \/ SkipOperation
    \/ PerformOperation
    \/ \E w \in Wallets : ForeignOperation(w)
    \/ OperationSucceeds
    \/ OperationReverts
    \/ BundleEnds
    \/ BundleReverts

KeyChange ==
    \/ \E w \in Wallets, signature \in Signatures,
          key \in Keys \union {NoKey} :
           SetBLSKeyForWallet(w, signature, key)
    \/ \E w \in Wallets, expiry \in Expiries :
           SetPendingBLSKeyForWallet(w, expiry)
    \/ \E sender \in Wallets \union Accounts, signature \in Signatures,
          key, newKey \in Keys, expiry \in Expiries :
           RecoverWallet(sender, signature, key, newKey, expiry)

WalletChange ==
    \/ \E w \in Wallets, key \in Keys, call \in AdminCalls :
           WalletAdminCall(w, key, call)
    \/ \E w \in Wallets, key \in Keys, blsGateway \in Gateways :
           SetTrustedBLSGateway(w, key, blsGateway)
    \/ \E w \in Wallets : ForeignCall(w)
    \/ \E w \in Wallets, hash \in RecoveryHashes \union {NoHash} :
           SetRecoveryHashOf(w, hash)
    \/ \E sender \in Wallets \union Accounts, w \in Wallets :
           SetAnyPendingOf(sender, w)

Next == Bundle \/ KeyChange \/ WalletChange \/ Tick

Spec == Init /\ [][Next]_vars

-----------------------------------------------------------------------------
(* Properties                                                               *)

\* The key that routes to a wallet is the key the wallet registered, and the
\* only one whose signatures it accepts: no step of a key change, a recovery,
\* a deployment or a rollback leaves a former key in control of a wallet
\* (walletFromHash, hashFromWallet and BLSPublicKeyFromHash agree).
ControllerSigns ==
    \A key \in Keys, w \in Wallets :
        gateway.walletFromHash[key] = w =>
            /\ gateway.hashFromWallet[w] = key
            /\ \A k \in Keys : IsValidSignature(w, k) <=> k = key

\* v took effect for a wallet that asked for it, more than a week ago, and
\* neither asked for another since nor was recovered.
Waited(request, v) ==
    request.value = v /\ request.live /\ now > request.at + WEEK

\* A proxy exists exactly when the gateway has registered it, so create2
\* fails only where the gateway made a wallet before; and a wallet trusts the
\* zero address, which nobody can call from, only if a gateway it had moved
\* to asked for just that, a week before, and for nothing since: no recovery
\* or repeated request leaves it there (getOrCreateWallet, setAnyPending,
\* recover, setTrustedBLSGateway).
DeployedIffRegistered ==
    \A w \in Wallets :
        /\ Deployed(wallet[w]) <=> gateway.hashFromWallet[w] # NoKey
        /\ Deployed(wallet[w]) /\ wallet[w].trustedBLSGateway = NoGateway
               => Waited(history.askedGateway[w], NoGateway)

\* Every nonce below a wallet's nonce was used by exactly one operation that
\* was not undone, and no other was: an operation cannot run again from a
\* bundle nested in itself, nor after it failed (performOperation).
EachNonceOnce ==
    \A w \in Wallets : \A n \in 0..MaxNonce :
        history.performed[w][n] = IF n < wallet[w].nonce THEN 1 ELSE 0

RollsBack == Len(stack') < Len(stack)

\* A wallet's recovery hash (once it has one), its trusted gateway and its
\* approved admin call become what that wallet asked for more than a week
\* before: asking again starts the week again, a recovery ends the request,
\* and a rolled back request never counts (setAnyPending).
GuardedChange(w) ==
    /\ LET old == wallet[w].recoveryHash
           new == wallet'[w].recoveryHash
       IN  new # old /\ old # NoHash => Waited(history.askedHash[w], new)
    /\ LET old == wallet[w].trustedBLSGateway
           new == wallet'[w].trustedBLSGateway
       IN  new # old /\ Deployed(wallet[w]) => Waited(history.askedGateway[w], new)
    /\ LET old == wallet[w].approvedProxyAdminFunctionHash
           new == wallet'[w].approvedProxyAdminFunctionHash
       IN  new # old /\ new # NoCall => Waited(history.askedCall[w], new)

GuardedChangesWait ==
    [][RollsBack \/ \A w \in Wallets : GuardedChange(w)]_vars

RecoverableFrom(w, key) ==
    \E s \in Wallets \union Accounts : wallet[w].recoveryHash = <<s, key>>

\* A wallet leaves its key only for one asked for under that key more than a
\* week before, not asked for anew and not adopted since, unless its recovery
\* hash commits to the key it leaves (setPendingBLSKeyForWallet).
KeyChangeOf(w) ==
    LET old == gateway.hashFromWallet[w]
        new == gateway'.hashFromWallet[w]
    IN  new # old /\ old # NoKey =>
            Waited(history.askedKey[old], new) \/ RecoverableFrom(w, old)

KeyChangesWait == [][RollsBack \/ \A w \in Wallets : KeyChangeOf(w)]_vars

\* Stated by recovery-test.ts:561, "should NOT allow a bundle to be executed
\* on a wallet with the same BLS pubkey but different address": an operation
\* runs on the wallet whose address its signature covers (processBundle).
RunsOnSignedWallet ==
    \A i \in DOMAIN stack : stack[i].signed = stack[i].wallet
=============================================================================
