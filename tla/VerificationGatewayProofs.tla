---------------------- MODULE VerificationGatewayProofs ----------------------
(****************************************************************************)
(* For every value of the constants: the types of VerificationGateway, that *)
(* the key which routes to a wallet is its one registered key               *)
(* (ControllerSigns), that a wallet is deployed exactly when registered and *)
(* trusts nobody only if it was asked to (DeployedIffRegistered), that no   *)
(* nonce is used twice (EachNonceOnce), and that guarded changes and        *)
(* changes of keys wait a week (GuardedChangesWait, KeyChangesWait).        *)
(*                                                                          *)
(* A rollback returns to a storage saved in the call stack, so the          *)
(* inductive invariants say of every saved storage what they say of the     *)
(* current one.  IInv is about the mappings and nonces.  WaitInv adds what  *)
(* the week needs: what a wallet or a key keeps pending, with the time it   *)
(* may take effect, is the request history remembers as the last one, and   *)
(* that request still counts.                                               *)
(****************************************************************************)
EXTENDS VerificationGateway, SequenceTheorems, TLAPS

\* The three mappings agree on every key that routes to a wallet.
RoutesAgree(g) ==
    \A key \in Keys, w \in Wallets :
        g.walletFromHash[key] = w =>
            g.hashFromWallet[w] = key /\ g.BLSPublicKeyFromHash[key] = key

\* Nothing happened yet to a wallet that is not deployed.
WalletOK(b) ==
    ~Deployed(b) =>
        /\ b.nonce = 0
        /\ b.trustedBLSGateway = NoGateway
        /\ b.pendingGatewayTime = 0

Registrations(g, b) ==
    \A w \in Wallets :
        /\ WalletOK(b[w])
        /\ Deployed(b[w]) <=> g.hashFromWallet[w] # NoKey

Nonces(b, h) ==
    \A w \in Wallets : \A n \in 0..MaxNonce :
        h.performed[w][n] = IF n < b[w].nonce THEN 1 ELSE 0

StorageOK(g, b, p, h) ==
    /\ g \in GatewayStorage
    /\ b \in [Wallets -> WalletStorage]
    /\ p \in [Wallets -> ProxyAdmins]
    /\ h \in History
    /\ RoutesAgree(g)
    /\ PendingKeys(g)
    /\ Registrations(g, b)
    /\ Nonces(b, h)

\* A frame whose saved storage a rollback may return to.
GoodFrames ==
    {f \in Frames : StorageOK(f.saved.gateway, f.saved.wallet,
                              f.saved.proxyAdmin, f.saved.history)}

IInv ==
    /\ StorageOK(gateway, wallet, proxyAdmin, history)
    /\ stack \in Seq(GoodFrames)
    /\ now \in Nat

-----------------------------------------------------------------------------
(* What the methods of a wallet return                                      *)

\* A method that leaves the nonce and the deployment of the wallet alone.
Settles(b, c) ==
    /\ c \in WalletStorage
    /\ c.nonce = b.nonce
    /\ Deployed(c) <=> Deployed(b)
    /\ WalletOK(c)

LEMMA NotDeployedOK ==
    NotDeployed \in WalletStorage /\ WalletOK(NotDeployed) /\ ~Deployed(NotDeployed)
  BY DEF NotDeployed, WalletStorage, Deployed, WalletOK

LEMMA InitializeOK ==
  ASSUME NEW b \in WalletStorage, WalletOK(b)
  PROVE  /\ Initialize(b, This) \in WalletStorage
         /\ WalletOK(Initialize(b, This))
         /\ Deployed(Initialize(b, This))
         /\ ~Deployed(b) => Initialize(b, This).nonce = b.nonce
  BY GatewayAssumption, WalletAssumption
     DEF Initialize, WalletStorage, Deployed, WalletOK

LEMMA IncrementNonceOK ==
  ASSUME NEW b \in WalletStorage, WalletOK(b), Deployed(b)
  PROVE  /\ IncrementNonce(b) \in WalletStorage
         /\ IncrementNonce(b).nonce = b.nonce + 1
         /\ Deployed(IncrementNonce(b))
         /\ WalletOK(IncrementNonce(b))
  BY DEF IncrementNonce, WalletStorage, Deployed, WalletOK

LEMMA SetRecoveryHashSettles ==
  ASSUME NEW b \in WalletStorage, WalletOK(b), NEW t \in Nat,
         NEW hash \in RecoveryHashes \union {NoHash}
  PROVE  Settles(b, SetRecoveryHash(b, hash, t))
<1>1. t + WEEK \in Nat
  BY WalletAssumption
<1> QED
  BY <1>1 DEF Settles, SetRecoveryHash, ClearPendingRecoveryHash,
              WalletStorage, Deployed, WalletOK

LEMMA SetTrustedGatewaySettles ==
  ASSUME NEW b \in WalletStorage, WalletOK(b), Deployed(b), NEW t \in Nat,
         NEW g \in Gateways \union {NoGateway}
  PROVE  Settles(b, SetTrustedGateway(b, g, t))
<1>1. t + WEEK \in Nat
  BY WalletAssumption
<1> QED
  BY <1>1 DEF Settles, SetTrustedGateway, WalletStorage, Deployed, WalletOK

LEMMA SetProxyAdminFunctionHashSettles ==
  ASSUME NEW b \in WalletStorage, WalletOK(b), NEW t \in Nat,
         NEW call \in AdminCalls \union {NoCall}
  PROVE  Settles(b, SetProxyAdminFunctionHash(b, call, t))
<1>1. t + WEEK \in Nat
  BY WalletAssumption
<1> QED
  BY <1>1 DEF Settles, SetProxyAdminFunctionHash, WalletStorage, Deployed,
              WalletOK

LEMMA ClearApprovedSettles ==
  ASSUME NEW b \in WalletStorage, WalletOK(b)
  PROVE  Settles(b, ClearApprovedProxyAdminFunctionHash(b))
  BY DEF Settles, ClearApprovedProxyAdminFunctionHash, WalletStorage, Deployed,
         WalletOK

LEMMA RecoverSettles ==
  ASSUME NEW b \in WalletStorage, WalletOK(b)
  PROVE  Settles(b, Recover(b))
  BY DEF Settles, Recover, ClearPendingRecoveryHash, WalletStorage, Deployed,
         WalletOK

LEMMA SettlesTransitive ==
  ASSUME NEW b, NEW c, NEW d, Settles(b, c), Settles(c, d)
  PROVE  Settles(b, d)
  BY DEF Settles

\* No pending change waits for a wallet that is not deployed.
LEMMA SetAnyPendingSettles ==
  ASSUME NEW b \in WalletStorage, WalletOK(b), NEW t \in Nat
  PROVE  Settles(b, SetAnyPending(b, t))
<1> DEFINE c == ApplyRecoveryHash(b, t)
           d == ApplyGateway(c, t)
           e == ApplyPAFunction(d, t)
<1>1. Settles(b, c)
  BY DEF Settles, ApplyRecoveryHash, ClearPendingRecoveryHash, WalletStorage,
         Deployed, WalletOK
<1>2. Settles(c, d)
  BY <1>1, WalletAssumption
     DEF Settles, ApplyGateway, Elapsed, WalletStorage, Deployed, WalletOK
<1>3. Settles(d, e)
  BY <1>2 DEF Settles, ApplyPAFunction, WalletStorage, Deployed, WalletOK
<1>4. SetAnyPending(b, t) = e
  BY DEF SetAnyPending
<1> HIDE DEF c, d, e
<1> QED
  BY <1>1, <1>2, <1>3, <1>4, SettlesTransitive

-----------------------------------------------------------------------------
(* What the updates of the gateway's mappings return                        *)

LEMMA UpdateKeepsType ==
  ASSUME NEW g \in GatewayStorage, NEW key \in Keys, NEW w \in Wallets
  PROVE  UpdateWalletHashMappings(g, key, w) \in GatewayStorage
  BY DEF UpdateWalletHashMappings, GatewayStorage

\* The wallet has the key, no other wallet's key changes, and nothing pending.
LEMMA UpdateEffect ==
  ASSUME NEW g \in GatewayStorage, NEW key \in Keys, NEW w \in Wallets
  PROVE  LET h == UpdateWalletHashMappings(g, key, w) IN
         /\ h.hashFromWallet = [g.hashFromWallet EXCEPT ![w] = key]
         /\ h.pendingBLSPublicKeyFromHash = g.pendingBLSPublicKeyFromHash
         /\ h.pendingMessageSenderSignatureFromHash
                = g.pendingMessageSenderSignatureFromHash
         /\ h.pendingBLSPublicKeyTimeFromHash
                = g.pendingBLSPublicKeyTimeFromHash
  BY DEF UpdateWalletHashMappings, GatewayStorage

LEMMA UpdateKeepsRoutes ==
  ASSUME NEW g \in GatewayStorage, NEW key \in Keys, NEW w \in Wallets,
         RoutesAgree(g)
  PROVE  RoutesAgree(UpdateWalletHashMappings(g, key, w))
<1> DEFINE h == UpdateWalletHashMappings(g, key, w)
           old == g.hashFromWallet[w]
<1>1. \A k \in Keys :
        /\ h.walletFromHash[k] = IF k = key THEN w
               ELSE IF k = old THEN NoWallet ELSE g.walletFromHash[k]
        /\ h.BLSPublicKeyFromHash[k] = IF k = key THEN key
               ELSE IF k = old THEN NoKey ELSE g.BLSPublicKeyFromHash[k]
  BY DEF UpdateWalletHashMappings, GatewayStorage
<1>2. \A u \in Wallets :
        h.hashFromWallet[u] = IF u = w THEN key ELSE g.hashFromWallet[u]
  BY DEF UpdateWalletHashMappings, GatewayStorage
<1> HIDE DEF h
<1>3. SUFFICES ASSUME NEW k \in Keys, NEW u \in Wallets,
                      h.walletFromHash[k] = u
               PROVE  h.hashFromWallet[u] = k /\ h.BLSPublicKeyFromHash[k] = k
  BY DEF RoutesAgree, h
<1>4. CASE k = key
  BY <1>1, <1>2, <1>3, <1>4
<1>5. CASE k # key
  <2>1. k # old /\ g.walletFromHash[k] = u
    BY <1>1, <1>3, <1>5, GatewayAssumption
  <2>2. g.hashFromWallet[u] = k /\ g.BLSPublicKeyFromHash[k] = k
    BY <2>1 DEF RoutesAgree
  <2>3. u # w
    BY <2>1, <2>2
  <2> QED
    BY <1>1, <1>2, <1>5, <2>1, <2>2, <2>3
<1> QED
  BY <1>4, <1>5

LEMMA ClearPendingKeyOK ==
  ASSUME NEW g \in GatewayStorage, NEW hash \in Keys, RoutesAgree(g),
         PendingKeys(g)
  PROVE  LET h == ClearPendingKey(g, hash) IN
         /\ h \in GatewayStorage
         /\ RoutesAgree(h)
         /\ PendingKeys(h)
         /\ h.hashFromWallet = g.hashFromWallet
<1>1. NoSignature \in Signatures \union {NoSignature}
  OBVIOUS
<1> QED
  BY <1>1 DEF ClearPendingKey, GatewayStorage, RoutesAgree, PendingKeys

-----------------------------------------------------------------------------
(* Storage                                                                  *)

\* A wallet's method changes one wallet, and perhaps a request or the admin.
LEMMA SettlesKeepsStorage ==
  ASSUME StorageOK(gateway, wallet, proxyAdmin, history),
         NEW w \in Wallets, NEW c, Settles(wallet[w], c),
         NEW p \in [Wallets -> ProxyAdmins],
         NEW h \in History, h.performed = history.performed
  PROVE  StorageOK(gateway, [wallet EXCEPT ![w] = c], p, h)
<1> DEFINE b == [wallet EXCEPT ![w] = c]
<1>1. /\ b \in [Wallets -> WalletStorage]
      /\ \A u \in Wallets : b[u] = IF u = w THEN c ELSE wallet[u]
  BY DEF StorageOK, Settles
<1> HIDE DEF b
<1>2. Registrations(gateway, b)
  BY <1>1 DEF StorageOK, Registrations, Settles
<1>3. Nonces(b, h)
  <2>1. \A u \in Wallets : b[u].nonce = wallet[u].nonce
    BY <1>1 DEF Settles
  <2> QED
    BY <2>1 DEF StorageOK, Nonces
<1> QED
  BY <1>1, <1>2, <1>3 DEF StorageOK, b

\* A registered wallet takes another key.
LEMMA UpdateKeepsStorage ==
  ASSUME StorageOK(gateway, wallet, proxyAdmin, history),
         NEW w \in Wallets, gateway.hashFromWallet[w] # NoKey,
         NEW key \in Keys
  PROVE  StorageOK(UpdateWalletHashMappings(gateway, key, w),
                   wallet, proxyAdmin, history)
<1> DEFINE g == UpdateWalletHashMappings(gateway, key, w)
<1>1. g \in GatewayStorage /\ RoutesAgree(g)
  BY UpdateKeepsType, UpdateKeepsRoutes DEF StorageOK
<1>2. /\ g.hashFromWallet = [gateway.hashFromWallet EXCEPT ![w] = key]
      /\ g.pendingBLSPublicKeyFromHash = gateway.pendingBLSPublicKeyFromHash
      /\ g.pendingBLSPublicKeyTimeFromHash
             = gateway.pendingBLSPublicKeyTimeFromHash
  BY UpdateEffect DEF StorageOK
<1> HIDE DEF g
<1>3. PendingKeys(g)
  BY <1>2 DEF StorageOK, PendingKeys
<1>4. \A u \in Wallets : g.hashFromWallet[u] # NoKey
                             <=> gateway.hashFromWallet[u] # NoKey
  BY <1>2, GatewayAssumption DEF StorageOK, GatewayStorage
<1>5. Registrations(g, wallet)
  BY <1>4 DEF StorageOK, Registrations
<1> QED
  BY <1>1, <1>3, <1>5 DEF StorageOK, g

\* The wallet that runs an operation, created if there was none.
LEMMA GetOrCreateOK ==
  ASSUME StorageOK(gateway, wallet, proxyAdmin, history),
         NEW key \in Keys, MayGetOrCreate(key)
  PROVE  LET got == GetOrCreateWallet(key) IN
         /\ got.to \in Wallets
         /\ StorageOK(got.gateway, got.wallet, proxyAdmin, history)
<1> DEFINE w == SignedWallet(key)
           g == UpdateWalletHashMappings(gateway, key, w)
           c == Initialize(wallet[w], This)
           b == [wallet EXCEPT ![w] = c]
<1>1. w \in Wallets
  BY GatewayAssumption DEF SignedWallet, StorageOK, GatewayStorage
<1>2. CASE gateway.walletFromHash[key] # NoWallet
  BY <1>1, <1>2 DEF GetOrCreateWallet
<1>3. CASE gateway.walletFromHash[key] = NoWallet
  <2>1. w = Create2[key] /\ ~Deployed(wallet[w])
    BY <1>3 DEF MayGetOrCreate, SignedWallet
  <2>2. wallet[w] \in WalletStorage /\ WalletOK(wallet[w])
    BY <1>1 DEF StorageOK, Registrations
  <2>3. /\ c \in WalletStorage
        /\ WalletOK(c) /\ Deployed(c) /\ c.nonce = wallet[w].nonce
    BY <2>1, <2>2, InitializeOK
  <2>4. g \in GatewayStorage /\ RoutesAgree(g)
    BY <1>1, UpdateKeepsType, UpdateKeepsRoutes DEF StorageOK
  <2>5. /\ g.hashFromWallet = [gateway.hashFromWallet EXCEPT ![w] = key]
        /\ g.pendingBLSPublicKeyFromHash = gateway.pendingBLSPublicKeyFromHash
        /\ g.pendingBLSPublicKeyTimeFromHash
               = gateway.pendingBLSPublicKeyTimeFromHash
    BY <1>1, UpdateEffect DEF StorageOK
  <2>6. GetOrCreateWallet(key) = [to |-> w, gateway |-> g, wallet |-> b]
    BY <1>3 DEF GetOrCreateWallet
  <2> HIDE DEF w, g, c
  <2>7. /\ b \in [Wallets -> WalletStorage]
        /\ \A u \in Wallets : b[u] = IF u = w THEN c ELSE wallet[u]
    BY <1>1, <2>3 DEF StorageOK
  <2>8. \A u \in Wallets : g.hashFromWallet[u] =
            IF u = w THEN key ELSE gateway.hashFromWallet[u]
    BY <1>1, <2>5 DEF StorageOK, GatewayStorage
  <2>9. PendingKeys(g)
    BY <2>5 DEF StorageOK, PendingKeys
  <2> HIDE DEF b
  <2>10. Registrations(g, b)
    BY <2>3, <2>7, <2>8, GatewayAssumption DEF StorageOK, Registrations
  <2>11. Nonces(b, history)
    <3>1. \A u \in Wallets : b[u].nonce = wallet[u].nonce
      BY <2>3, <2>7
    <3> QED
      BY <3>1 DEF StorageOK, Nonces
  <2>12. StorageOK(g, b, proxyAdmin, history)
    BY <2>4, <2>7, <2>9, <2>10, <2>11 DEF StorageOK
  <2> QED
    BY <1>1, <2>6, <2>12
<1> QED
  BY <1>2, <1>3

\* An operation takes the nonce of its wallet.
LEMMA TakeNonceOK ==
  ASSUME NEW g, NEW b,
         StorageOK(g, b, proxyAdmin, history),
         NEW w \in Wallets, Deployed(b[w]), b[w].nonce < MaxNonce
  PROVE  StorageOK(g, [b EXCEPT ![w] = IncrementNonce(b[w])], proxyAdmin,
                   Performed(w, b[w].nonce))
<1> DEFINE n == b[w].nonce
           c == IncrementNonce(b[w])
           d == [b EXCEPT ![w] = c]
           h == Performed(w, n)
<1>1. b[w] \in WalletStorage /\ WalletOK(b[w]) /\ n \in 0..MaxNonce
  BY GatewayAssumption DEF StorageOK, Registrations, WalletStorage
<1>2. /\ c \in WalletStorage /\ c.nonce = n + 1
      /\ Deployed(c) /\ WalletOK(c)
  BY <1>1, IncrementNonceOK
<1>3. /\ h \in History
      /\ \A u \in Wallets : \A m \in 0..MaxNonce :
            h.performed[u][m] = IF u = w /\ m = n
                                THEN history.performed[u][m] + 1
                                ELSE history.performed[u][m]
  <2> DEFINE count == history.performed[w][n] + 1
             row == [history.performed[w] EXCEPT ![n] = count]
             table == [history.performed EXCEPT ![w] = row]
  <2>1. history.performed \in [Wallets -> [0..MaxNonce -> Nat]]
    BY DEF StorageOK, History
  <2>2. history.performed[w] \in [0..MaxNonce -> Nat] /\ count \in Nat
    <3>1. history.performed[w] \in [0..MaxNonce -> Nat]
      BY <2>1
    <3>2. history.performed[w][n] \in Nat
      BY <1>1, <3>1
    <3> QED
      BY <3>1, <3>2
  <2>3. /\ row \in [0..MaxNonce -> Nat]
        /\ \A m \in 0..MaxNonce :
              row[m] = IF m = n THEN count ELSE history.performed[w][m]
    BY <2>2
  <2>4. h = [history EXCEPT !.performed = table]
    BY DEF Performed
  <2> HIDE DEF row
  <2>5. /\ table \in [Wallets -> [0..MaxNonce -> Nat]]
        /\ \A u \in Wallets :
              table[u] = IF u = w THEN row ELSE history.performed[u]
    BY <2>1, <2>3
  <2> HIDE DEF table, h
  <2>6. h \in History /\ h.performed = table
    BY <2>4, <2>5 DEF StorageOK, History
  <2> QED
    BY <2>3, <2>5, <2>6
<1> HIDE DEF c, h
<1>4. /\ d \in [Wallets -> WalletStorage]
      /\ \A u \in Wallets : d[u] = IF u = w THEN c ELSE b[u]
  BY <1>2 DEF StorageOK
<1> HIDE DEF d
<1>5. Registrations(g, d)
  BY <1>2, <1>4 DEF StorageOK, Registrations
<1>6. Nonces(d, h)
  <2> SUFFICES ASSUME NEW u \in Wallets, NEW m \in 0..MaxNonce
               PROVE  h.performed[u][m] = IF m < d[u].nonce THEN 1 ELSE 0
    BY DEF Nonces
  <2>1. history.performed[u][m] = IF m < b[u].nonce THEN 1 ELSE 0
    BY DEF StorageOK, Nonces
  <2>2. MaxNonce \in Nat /\ m \in Nat /\ n \in Nat
    BY <1>1, GatewayAssumption
  <2>3. CASE u = w
    BY <1>2, <1>3, <1>4, <2>1, <2>2, <2>3
  <2>4. CASE u # w
    BY <1>3, <1>4, <2>1, <2>4
  <2> QED
    BY <2>3, <2>4
<1> QED
  BY <1>3, <1>4, <1>5, <1>6 DEF StorageOK, c, d, h

-----------------------------------------------------------------------------
(* The call stack                                                           *)

LEMMA TopOK ==
  ASSUME stack \in Seq(GoodFrames), stack # <<>>
  PROVE  /\ Depth \in 1..Depth
         /\ Top \in GoodFrames
  BY EmptySeq, ElementOfSeq DEF Top, Depth

LEMMA PopOK ==
  ASSUME stack \in Seq(GoodFrames), NEW n \in Nat
  PROVE  Pop(n) \in Seq(GoodFrames)
<1>1. Depth \in Nat /\ \A i \in 1..(Depth - n) : stack[i] \in GoodFrames
  BY ElementOfSeq, LenProperties DEF Depth
<1> QED
  BY <1>1, SubSeqProperties DEF Pop

LEMMA CalledOK ==
  ASSUME stack \in Seq(GoodFrames), stack # <<>>
  PROVE  Called \in Seq(GoodFrames)
<1> DEFINE f == [Top EXCEPT !.calls = @ + 1]
<1>1. Top \in GoodFrames /\ Depth \in 1..Len(stack)
  BY TopOK DEF Depth
<1>2. f \in GoodFrames
  <2> DEFINE t == Top
  <2>1. t \in Frames /\ t.calls + 1 \in Nat
    BY <1>1 DEF GoodFrames, Frames
  <2>2. f = [t EXCEPT !.calls = t.calls + 1]
    OBVIOUS
  <2> HIDE DEF f, t
  <2>3. f \in Frames /\ f.saved = t.saved
    BY <2>1, <2>2 DEF Frames
  <2> QED
    BY <1>1, <2>3 DEF GoodFrames, t
<1>3. Called = [stack EXCEPT ![Depth] = f]
  BY DEF Called, Top
<1> HIDE DEF f
<1> QED
  BY <1>1, <1>2, <1>3, ExceptSeq

LEMMA EnteredOK ==
  ASSUME stack \in Seq(GoodFrames), MayEnter
  PROVE  Entered \in Seq(GoodFrames)
  BY CalledOK, EmptySeq DEF MayEnter, Entered, InOperation

LEMMA RemainingOpsOK ==
  ASSUME stack \in Seq(GoodFrames), stack # <<>>, Top.ops # <<>>
  PROVE  /\ RemainingOps \in Seq(GoodFrames)
         /\ Head(Top.ops) \in Operations
<1> DEFINE f == [Top EXCEPT !.ops = Tail(@)]
<1>1. Top \in GoodFrames /\ Depth \in 1..Len(stack)
  BY TopOK DEF Depth
<1>2. Top.ops \in Seq(Operations)
  BY <1>1 DEF GoodFrames, Frames
<1>3. Tail(Top.ops) \in Seq(Operations) /\ Head(Top.ops) \in Operations
  BY <1>2, HeadTailProperties
<1>4. f \in GoodFrames
  BY <1>1, <1>3 DEF GoodFrames, Frames
<1>5. RemainingOps = [stack EXCEPT ![Depth] = f]
  BY DEF RemainingOps, Top
<1> HIDE DEF f
<1> QED
  BY <1>1, <1>3, <1>4, <1>5, ExceptSeq

LEMMA CallByOK ==
  ASSUME stack \in Seq(GoodFrames), NEW w, CallBy(w)
  PROVE  stack' \in Seq(GoodFrames)
  BY CalledOK DEF CallBy, MayCall, InOperation

LEMMA CallFromOK ==
  ASSUME stack \in Seq(GoodFrames), NEW sender, CallFrom(sender)
  PROVE  stack' \in Seq(GoodFrames)
  BY CallByOK DEF CallFrom

-----------------------------------------------------------------------------
(* Each step keeps the invariant                                            *)

LEMMA InitOK == Init => IInv
<1> SUFFICES ASSUME Init PROVE IInv
  OBVIOUS
<1>1. gateway \in GatewayStorage /\ RoutesAgree(gateway) /\ PendingKeys(gateway)
  BY GatewayAssumption DEF Init, GatewayStorage, RoutesAgree, PendingKeys
<1>2. wallet \in [Wallets -> WalletStorage]
  BY NotDeployedOK DEF Init
<1>3. proxyAdmin \in [Wallets -> ProxyAdmins]
  BY GatewayAssumption DEF Init
<1>4. Registrations(gateway, wallet)
  BY NotDeployedOK DEF Init, Registrations
<1>5. history \in History
  BY DEF Init, History, Requests, NoRequest
<1>6. Nonces(wallet, history)
  BY GatewayAssumption DEF Init, Nonces, NotDeployed
<1>7. stack \in Seq(GoodFrames) /\ now \in Nat
  BY EmptySeq DEF Init
<1> QED
  BY <1>1, <1>2, <1>3, <1>4, <1>5, <1>6, <1>7 DEF IInv, StorageOK

LEMMA BundleFrameOK ==
  ASSUME IInv, NEW bundle \in Bundles
  PROVE  BundleFrame(bundle) \in GoodFrames
<1>1. bundle \in Seq(Operations)
  BY GatewayAssumption, SeqDef DEF Bundles
<1> QED
  BY <1>1 DEF IInv, StorageOK, BundleFrame, Snapshot, GoodFrames, Frames,
              Snapshots

LEMMA ProcessBundleOK ==
  ASSUME IInv, NEW bundle \in Bundles, ProcessBundle(bundle)
  PROVE  IInv'
<1>1. BundleFrame(bundle) \in GoodFrames
  BY BundleFrameOK
<1>2. stack' \in Seq(GoodFrames)
  BY <1>1, EnteredOK DEF ProcessBundle, IInv
<1> QED
  BY <1>2 DEF IInv, ProcessBundle, StorageOK

LEMMA SkipOperationOK ==
  ASSUME IInv, SkipOperation
  PROVE  IInv'
<1> DEFINE op == Head(Top.ops)
<1>1. stack' \in Seq(GoodFrames) /\ op.key \in Keys
  BY RemainingOpsOK DEF SkipOperation, InBundle, IInv, Operations
<1>2. StorageOK(gateway', wallet', proxyAdmin, history)
  BY <1>1, GetOrCreateOK DEF SkipOperation, IInv
<1> QED
  BY <1>1, <1>2 DEF IInv, SkipOperation

LEMMA PerformOperationOK ==
  ASSUME IInv, PerformOperation
  PROVE  IInv'
<1> DEFINE op == Head(Top.ops)
           got == GetOrCreateWallet(op.key)
           b == got.wallet[got.to]
           f == [ wallet |-> got.to, signed |-> op.wallet, ops |-> <<>>,
                  calls |-> 0,
                  saved |-> [gateway |-> gateway', wallet |-> wallet',
                             proxyAdmin |-> proxyAdmin, history |-> history'] ]
<1>1. /\ RemainingOps \in Seq(GoodFrames)
      /\ op.key \in Keys /\ op.wallet \in Wallets
  BY RemainingOpsOK DEF PerformOperation, InBundle, IInv, Operations
<1>2. /\ got.to \in Wallets
      /\ StorageOK(got.gateway, got.wallet, proxyAdmin, history)
  BY <1>1, GetOrCreateOK DEF PerformOperation, IInv
<1>3. /\ b.trustedBLSGateway = This /\ op.nonce = b.nonce /\ b.nonce < MaxNonce
      /\ gateway' = got.gateway
      /\ wallet' = [got.wallet EXCEPT ![got.to] = IncrementNonce(b)]
      /\ history' = Performed(got.to, op.nonce)
      /\ stack' = Append(RemainingOps, f)
      /\ proxyAdmin' = proxyAdmin /\ now' = now
  BY DEF PerformOperation, OnlyTrustedGateway, ThisNonce
<1> HIDE DEF op, got
<1>4. Deployed(b)
  BY <1>2, <1>3, GatewayAssumption, WalletAssumption
     DEF StorageOK, Registrations, WalletOK
<1>5. StorageOK(gateway', wallet', proxyAdmin, history')
  BY <1>2, <1>3, <1>4, TakeNonceOK
<1>6. f \in GoodFrames
  BY <1>1, <1>2, <1>5, EmptySeq
     DEF GoodFrames, Frames, Snapshots, StorageOK
<1> HIDE DEF f, b
<1>7. stack' \in Seq(GoodFrames)
  BY <1>1, <1>3, <1>6
<1> QED
  BY <1>3, <1>5, <1>7 DEF IInv

LEMMA ForeignOperationOK ==
  ASSUME IInv, NEW w \in Wallets, ForeignOperation(w)
  PROVE  IInv'
<1> DEFINE f == [ wallet |-> w, signed |-> w, ops |-> <<>>, calls |-> 0,
                  saved |-> [gateway |-> gateway, wallet |-> wallet',
                             proxyAdmin |-> proxyAdmin, history |-> history'] ]
<1>1. /\ wallet[w].trustedBLSGateway \in Gateways
      /\ wallet[w].nonce < MaxNonce
      /\ wallet' = [wallet EXCEPT ![w] = IncrementNonce(wallet[w])]
      /\ history' = Performed(w, wallet[w].nonce)
      /\ stack' = Append(Entered, f) /\ Entered \in Seq(GoodFrames)
      /\ gateway' = gateway /\ proxyAdmin' = proxyAdmin /\ now' = now
  BY EnteredOK DEF ForeignOperation, IInv
<1>2. Deployed(wallet[w])
  BY <1>1, WalletAssumption DEF IInv, StorageOK, Registrations, WalletOK
<1>3. StorageOK(gateway, wallet', proxyAdmin, history')
  BY <1>1, <1>2, TakeNonceOK DEF IInv
<1>4. f \in GoodFrames
  BY <1>3, EmptySeq DEF GoodFrames, Frames, Snapshots, StorageOK
<1> HIDE DEF f
<1> QED
  BY <1>1, <1>3, <1>4 DEF IInv

LEMMA OperationRevertsOK ==
  ASSUME IInv, OperationReverts
  PROVE  IInv'
<1>1. Top \in GoodFrames
  BY TopOK DEF IInv, OperationReverts, InOperation
<1>2. StorageOK(gateway', wallet', proxyAdmin', history')
  BY <1>1 DEF OperationReverts, RevertTo, GoodFrames
<1> QED
  BY <1>2, PopOK DEF IInv, OperationReverts

LEMMA BundleRevertsOK ==
  ASSUME IInv, BundleReverts
  PROVE  IInv'
<1>1. Top \in GoodFrames /\ Depth \in 1..Depth
  BY TopOK DEF IInv, BundleReverts, InBundle
<1>2. CASE RevertTo(Top.saved) /\ stack' = Pop(1)
  <2>1. StorageOK(gateway', wallet', proxyAdmin', history')
    BY <1>1, <1>2 DEF RevertTo, GoodFrames
  <2> QED
    BY <1>2, <2>1, PopOK DEF IInv, BundleReverts
<1>3. CASE /\ Depth > 1
           /\ RevertTo(stack[Depth - 1].saved) /\ stack' = Pop(2)
  <2> DEFINE n == Len(stack)
  <2>1. n - 1 \in 1..n /\ Depth = n
    <3>1. n \in Nat /\ n > 1
      BY <1>3, LenProperties DEF IInv, Depth
    <3> HIDE DEF n
    <3>2. n - 1 \in 1..n
      BY <3>1
    <3> QED
      BY <3>2 DEF Depth, n
  <2>2. stack[Depth - 1] \in GoodFrames
    BY <2>1, ElementOfSeq DEF IInv
  <2>3. StorageOK(gateway', wallet', proxyAdmin', history')
    BY <1>3, <2>2 DEF RevertTo, GoodFrames
  <2> QED
    BY <1>3, <2>3, PopOK DEF IInv, BundleReverts
<1> QED
  BY <1>2, <1>3 DEF BundleReverts

LEMMA PopsOK ==
  ASSUME IInv, OperationSucceeds \/ BundleEnds
  PROVE  IInv'
  BY PopOK DEF IInv, OperationSucceeds, BundleEnds

LEMMA SetBLSKeyForWalletOK ==
  ASSUME IInv, NEW w \in Wallets, NEW signature \in Signatures,
         NEW key \in Keys \union {NoKey}, SetBLSKeyForWallet(w, signature, key)
  PROVE  IInv'
<1> DEFINE hash == gateway.hashFromWallet[w]
<1>1. hash \in Keys /\ key \in Keys /\ key # NoKey
      /\ now + WEEK \in Nat \ {0}
  BY GatewayAssumption, WalletAssumption DEF IInv, StorageOK, GatewayStorage, SetBLSKeyForWallet
<1>2. gateway' = [gateway EXCEPT
        !.pendingMessageSenderSignatureFromHash =
            [@ EXCEPT ![hash] = signature],
        !.pendingBLSPublicKeyFromHash = [@ EXCEPT ![hash] = key],
        !.pendingBLSPublicKeyTimeFromHash = [@ EXCEPT ![hash] = now + WEEK]]
  BY DEF SetBLSKeyForWallet
<1> HIDE DEF hash
<1>3. /\ gateway' \in GatewayStorage
      /\ gateway'.walletFromHash = gateway.walletFromHash
      /\ gateway'.hashFromWallet = gateway.hashFromWallet
      /\ gateway'.BLSPublicKeyFromHash = gateway.BLSPublicKeyFromHash
  BY <1>1, <1>2 DEF IInv, StorageOK, GatewayStorage
<1>4. PendingKeys(gateway')
  BY <1>1, <1>2 DEF IInv, StorageOK, GatewayStorage, PendingKeys
<1>5. RoutesAgree(gateway') /\ Registrations(gateway', wallet)
  BY <1>3 DEF IInv, StorageOK, RoutesAgree, Registrations
<1>6. history' \in History /\ history'.performed = history.performed
  <2> DEFINE table == [history.askedKey EXCEPT ![hash] = Request(key)]
  <2>1. Request(key) \in Requests(Keys \union {NoKey})
    BY DEF IInv, Request, Requests
  <2>2. table \in [Keys -> Requests(Keys \union {NoKey})]
    BY <2>1 DEF IInv, StorageOK, History
  <2>3. history' = [history EXCEPT !.askedKey = table]
    BY DEF SetBLSKeyForWallet, hash
  <2> HIDE DEF table
  <2> QED
    BY <2>2, <2>3 DEF IInv, StorageOK, History
<1>7. Nonces(wallet, history')
  BY <1>6 DEF IInv, StorageOK, Nonces
<1>8. stack' \in Seq(GoodFrames)
  BY CallByOK DEF SetBLSKeyForWallet, IInv
<1> QED
  BY <1>3, <1>4, <1>5, <1>6, <1>7, <1>8
     DEF IInv, StorageOK, SetBLSKeyForWallet

LEMMA SetPendingBLSKeyForWalletOK ==
  ASSUME IInv, NEW w \in Wallets, NEW expiry \in Expiries,
         SetPendingBLSKeyForWallet(w, expiry)
  PROVE  IInv'
<1> DEFINE hash == gateway.hashFromWallet[w]
           key == gateway.pendingBLSPublicKeyFromHash[hash]
           g == UpdateWalletHashMappings(gateway, key, w)
<1>1. hash \in Keys /\ hash # NoKey
  BY DEF IInv, StorageOK, GatewayStorage, SetPendingBLSKeyForWallet
<1>2. key \in Keys
  <2>1. gateway.pendingBLSPublicKeyTimeFromHash[hash] # 0
    BY DEF SetPendingBLSKeyForWallet, Elapsed
  <2> QED
    BY <1>1, <2>1 DEF IInv, StorageOK, PendingKeys, GatewayStorage
<1>3. /\ gateway' = ClearPendingKey(g, hash)
      /\ wallet' = wallet /\ proxyAdmin' = proxyAdmin /\ now' = now
  BY DEF SetPendingBLSKeyForWallet
<1>4. StorageOK(g, wallet, proxyAdmin, history)
  BY <1>1, <1>2, UpdateKeepsStorage DEF IInv
<1>5. history' \in History /\ history'.performed = history.performed
  <2> DEFINE r == [history.askedKey[hash] EXCEPT !.live = FALSE]
             table == [history.askedKey EXCEPT ![hash] = r]
  <2>1. r \in Requests(Keys \union {NoKey})
    <3>1. history.askedKey[hash] \in Requests(Keys \union {NoKey})
      BY <1>1 DEF IInv, StorageOK, History
    <3> QED
      BY <3>1 DEF Requests
  <2>2. history' = [history EXCEPT !.askedKey = table]
    BY DEF SetPendingBLSKeyForWallet
  <2> HIDE DEF r
  <2>3. table \in [Keys -> Requests(Keys \union {NoKey})]
    BY <2>1 DEF IInv, StorageOK, History
  <2> HIDE DEF table
  <2> QED
    BY <2>2, <2>3 DEF IInv, StorageOK, History
<1> HIDE DEF g, key
<1>6. /\ gateway' \in GatewayStorage
      /\ RoutesAgree(gateway') /\ PendingKeys(gateway')
      /\ gateway'.hashFromWallet = g.hashFromWallet
  BY <1>1, <1>3, <1>4, ClearPendingKeyOK DEF StorageOK
<1>7. Registrations(gateway', wallet)
  BY <1>4, <1>6 DEF StorageOK, Registrations
<1>8. Nonces(wallet, history')
  BY <1>5 DEF IInv, StorageOK, Nonces
<1>9. stack' \in Seq(GoodFrames)
  BY CallByOK DEF SetPendingBLSKeyForWallet, IInv
<1> QED
  BY <1>3, <1>5, <1>6, <1>7, <1>8, <1>9 DEF IInv, StorageOK

\* A recovery changes which requests count, not which nonces were used.
LEMMA RevokedOK ==
  ASSUME IInv, NEW w \in Wallets
  PROVE  Revoked(w) \in History /\ Revoked(w).performed = history.performed
<1>1. ASSUME NEW V, NEW f \in [Wallets -> Requests(V)]
      PROVE  [f EXCEPT ![w] = [f[w] EXCEPT !.live = FALSE]]
                 \in [Wallets -> Requests(V)]
  BY DEF Requests
<1> DEFINE Ended(f) == [f EXCEPT ![w] = [f[w] EXCEPT !.live = FALSE]]
           a == Ended(history.askedHash)
           b == Ended(history.askedGateway)
           d == Ended(history.askedCall)
<1>2. Revoked(w) = [history EXCEPT !.askedHash = a, !.askedGateway = b,
                                   !.askedCall = d]
  BY DEF Revoked
<1>3. /\ a \in [Wallets -> Requests(RecoveryHashes \union {NoHash})]
      /\ b \in [Wallets -> Requests(Gateways \union {NoGateway})]
      /\ d \in [Wallets -> Requests(AdminCalls \union {NoCall})]
  BY <1>1 DEF IInv, StorageOK, History
<1> HIDE DEF a, b, d
<1> QED
  BY <1>2, <1>3 DEF IInv, StorageOK, History

LEMMA RecoverWalletOK ==
  ASSUME IInv, NEW sender, NEW signature \in Signatures, NEW key \in Keys,
         NEW newKey \in Keys, NEW expiry \in Expiries,
         RecoverWallet(sender, signature, key, newKey, expiry)
  PROVE  IInv'
<1> DEFINE w == gateway.walletFromHash[key]
           g == UpdateWalletHashMappings(gateway, newKey, w)
           c == Recover(wallet[w])
<1>1. w \in Wallets /\ gateway.hashFromWallet[w] # NoKey
  <2>1. w # NoWallet
    BY DEF RecoverWallet
  <2>2. w \in Wallets
    BY <2>1 DEF IInv, StorageOK, GatewayStorage
  <2>3. gateway.hashFromWallet[w] = key
    BY <2>2 DEF IInv, StorageOK, RoutesAgree
  <2> QED
    BY <2>2, <2>3, GatewayAssumption
<1>2. /\ gateway' = g
      /\ wallet' = [wallet EXCEPT ![w] = c]
      /\ history' = Revoked(w)
      /\ proxyAdmin' = proxyAdmin /\ now' = now
      /\ CallFrom(sender)
  BY DEF RecoverWallet
<1>3. Revoked(w) \in History /\ Revoked(w).performed = history.performed
  BY <1>1, RevokedOK
<1>4. StorageOK(g, wallet, proxyAdmin, history)
  BY <1>1, UpdateKeepsStorage DEF IInv
<1>5. Settles(wallet[w], c)
  BY <1>1, RecoverSettles DEF IInv, StorageOK, Registrations
<1> HIDE DEF g, c, w
<1>6. StorageOK(gateway, wallet', proxyAdmin, history')
  BY <1>1, <1>2, <1>3, <1>5, SettlesKeepsStorage DEF IInv, StorageOK
<1>7. Registrations(g, wallet')
  <2>1. \A u \in Wallets : g.hashFromWallet[u] # NoKey
                               <=> gateway.hashFromWallet[u] # NoKey
    BY <1>4 DEF IInv, StorageOK, Registrations
  <2> QED
    BY <1>6, <2>1 DEF StorageOK, Registrations
<1>8. stack' \in Seq(GoodFrames)
  BY <1>2, CallFromOK DEF IInv
<1> QED
  BY <1>2, <1>4, <1>6, <1>7, <1>8 DEF IInv, StorageOK

\* A request changes the history, but not which nonces were used.
LEMMA RequestOK ==
  ASSUME IInv, NEW w \in Wallets, NEW V, NEW v \in V,
         NEW asked \in [Wallets -> Requests(V)]
  PROVE  [asked EXCEPT ![w] = Request(v)] \in [Wallets -> Requests(V)]
<1>1. Request(v) \in Requests(V)
  BY DEF IInv, Request, Requests
<1> QED
  BY <1>1

LEMMA WalletAdminCallOK ==
  ASSUME IInv, NEW w \in Wallets, NEW key \in Keys, NEW call \in AdminCalls,
         WalletAdminCall(w, key, call)
  PROVE  IInv'
<1> DEFINE b == SetAnyPending(wallet[w], now)
           c == ClearApprovedProxyAdminFunctionHash(b)
           d == SetProxyAdminFunctionHash(b, call, now)
<1>1. wallet[w] \in WalletStorage /\ WalletOK(wallet[w])
  BY DEF IInv, StorageOK, Registrations
<1>2. Settles(wallet[w], b)
  BY <1>1, SetAnyPendingSettles DEF IInv
<1>3. b \in WalletStorage /\ WalletOK(b)
  BY <1>2 DEF Settles
<1>4. Settles(wallet[w], c) /\ Settles(wallet[w], d)
  BY <1>2, <1>3, ClearApprovedSettles, SetProxyAdminFunctionHashSettles,
     SettlesTransitive DEF IInv
<1>5. call.to \in ProxyAdmins
  BY GatewayAssumption
<1>6. stack' \in Seq(GoodFrames) /\ gateway' = gateway /\ now' = now
  BY CallByOK DEF WalletAdminCall, IInv
<1>7. CASE /\ proxyAdmin' = IF call.selector = "changeProxyAdmin"
                            THEN [proxyAdmin EXCEPT ![w] = call.to]
                            ELSE proxyAdmin
           /\ wallet' = [wallet EXCEPT ![w] = c]
           /\ history' = history
  <2>1. proxyAdmin' \in [Wallets -> ProxyAdmins] /\ history \in History
    BY <1>5, <1>7 DEF IInv, StorageOK
  <2> HIDE DEF b, c, d
  <2>2. StorageOK(gateway, wallet', proxyAdmin', history)
    BY <1>4, <1>7, <2>1, SettlesKeepsStorage DEF IInv
  <2> QED
    BY <1>6, <1>7, <2>2 DEF IInv
<1>8. CASE /\ wallet' = [wallet EXCEPT ![w] = d]
           /\ history' = [history EXCEPT !.askedCall[w] = Request(call)]
           /\ proxyAdmin' = proxyAdmin
  <2> DEFINE table == [history.askedCall EXCEPT ![w] = Request(call)]
  <2>1. table \in [Wallets -> Requests(AdminCalls \union {NoCall})]
    BY RequestOK DEF IInv, StorageOK, History
  <2>2. history' = [history EXCEPT !.askedCall = table]
    BY <1>8
  <2> HIDE DEF b, c, d, table
  <2>3. history' \in History /\ history'.performed = history.performed
    BY <2>1, <2>2 DEF IInv, StorageOK, History
  <2>4. StorageOK(gateway, wallet', proxyAdmin', history')
    BY <1>4, <1>8, <2>3, SettlesKeepsStorage DEF IInv, StorageOK
  <2> QED
    BY <1>6, <1>8, <2>4 DEF IInv
<1> QED
  BY <1>7, <1>8 DEF WalletAdminCall

LEMMA SetTrustedBLSGatewayOK ==
  ASSUME IInv, NEW w \in Wallets, NEW key \in Keys, NEW new \in Gateways,
         SetTrustedBLSGateway(w, key, new)
  PROVE  IInv'
<1> DEFINE c == SetTrustedGateway(wallet[w], new, now)
           table == [history.askedGateway EXCEPT ![w] = Request(new)]
<1>1. /\ wallet[w].trustedBLSGateway = This
      /\ wallet' = [wallet EXCEPT ![w] = c]
      /\ history' = [history EXCEPT !.askedGateway = table]
      /\ gateway' = gateway /\ proxyAdmin' = proxyAdmin /\ now' = now
  BY DEF SetTrustedBLSGateway, OnlyTrustedGateway
<1>2. Deployed(wallet[w])
  BY <1>1, GatewayAssumption, WalletAssumption
     DEF IInv, StorageOK, Registrations, WalletOK
<1>3. Settles(wallet[w], c)
  BY <1>2, SetTrustedGatewaySettles DEF IInv, StorageOK, Registrations
<1>4. table \in [Wallets -> Requests(Gateways \union {NoGateway})]
  BY RequestOK DEF IInv, StorageOK, History
<1> HIDE DEF c, table
<1>5. history' \in History /\ history'.performed = history.performed
  BY <1>1, <1>4 DEF IInv, StorageOK, History
<1>6. StorageOK(gateway, wallet', proxyAdmin, history')
  BY <1>1, <1>3, <1>5, SettlesKeepsStorage DEF IInv, StorageOK
<1>7. stack' \in Seq(GoodFrames)
  BY CallByOK DEF SetTrustedBLSGateway, IInv
<1> QED
  BY <1>1, <1>6, <1>7 DEF IInv

\* Whatever another gateway calls, the wallet stays deployed and its nonce.
LEMMA ForeignCallOK ==
  ASSUME IInv, NEW w \in Wallets, ForeignCall(w)
  PROVE  IInv'
<1> DEFINE b == wallet[w]
<1>1. /\ stack' \in Seq(GoodFrames)
      /\ gateway' = gateway /\ proxyAdmin' = proxyAdmin /\ now' = now
  BY EnteredOK DEF ForeignCall, IInv
<1>2. b \in WalletStorage /\ WalletOK(b) /\ Deployed(b)
  BY WalletAssumption DEF ForeignCall, IInv, StorageOK, Registrations, WalletOK
<1>3. ASSUME NEW c, Settles(b, c), wallet' = [wallet EXCEPT ![w] = c],
             history' \in History, history'.performed = history.performed
      PROVE  IInv'
  <2>1. StorageOK(gateway, wallet', proxyAdmin, history')
    BY <1>3, SettlesKeepsStorage DEF IInv, StorageOK
  <2> QED
    BY <1>1, <2>1 DEF IInv
<1>4. ASSUME NEW new \in Gateways \union {NoGateway},
             wallet' = [wallet EXCEPT ![w] = SetTrustedGateway(b, new, now)],
             history' = [history EXCEPT !.askedGateway[w] = Request(new)]
      PROVE  IInv'
  <2> DEFINE table == [history.askedGateway EXCEPT ![w] = Request(new)]
  <2>1. table \in [Wallets -> Requests(Gateways \union {NoGateway})]
    BY RequestOK DEF IInv, StorageOK, History
  <2>2. history' = [history EXCEPT !.askedGateway = table]
    BY <1>4
  <2> HIDE DEF table
  <2>3. history' \in History /\ history'.performed = history.performed
    BY <2>1, <2>2 DEF IInv, StorageOK, History
  <2>4. Settles(b, SetTrustedGateway(b, new, now))
    BY <1>2, SetTrustedGatewaySettles DEF IInv
  <2> QED
    BY <1>3, <1>4, <2>3, <2>4
<1>5. ASSUME NEW call \in AdminCalls \union {NoCall},
             wallet' = [wallet EXCEPT
                 ![w] = SetProxyAdminFunctionHash(b, call, now)],
             history' = [history EXCEPT !.askedCall[w] = Request(call)]
      PROVE  IInv'
  <2> DEFINE table == [history.askedCall EXCEPT ![w] = Request(call)]
  <2>1. table \in [Wallets -> Requests(AdminCalls \union {NoCall})]
    BY RequestOK DEF IInv, StorageOK, History
  <2>2. history' = [history EXCEPT !.askedCall = table]
    BY <1>5
  <2> HIDE DEF table
  <2>3. history' \in History /\ history'.performed = history.performed
    BY <2>1, <2>2 DEF IInv, StorageOK, History
  <2>4. Settles(b, SetProxyAdminFunctionHash(b, call, now))
    BY <1>2, SetProxyAdminFunctionHashSettles DEF IInv
  <2> QED
    BY <1>3, <1>5, <2>3, <2>4
<1>6. CASE wallet' = [wallet EXCEPT ![w] = Recover(b)] /\ history' = Revoked(w)
  BY <1>2, <1>3, <1>6, RecoverSettles, RevokedOK
<1>7. CASE /\ wallet' = [wallet EXCEPT
                ![w] = ClearApprovedProxyAdminFunctionHash(b)]
           /\ history' = history
  BY <1>2, <1>3, <1>7, ClearApprovedSettles DEF IInv, StorageOK
<1> QED
  BY <1>4, <1>5, <1>6, <1>7 DEF ForeignCall

LEMMA SetRecoveryHashOfOK ==
  ASSUME IInv, NEW w \in Wallets, NEW hash \in RecoveryHashes \union {NoHash},
         SetRecoveryHashOf(w, hash)
  PROVE  IInv'
<1> DEFINE c == SetRecoveryHash(wallet[w], hash, now)
           table == [history.askedHash EXCEPT ![w] = Request(hash)]
<1>1. /\ wallet' = [wallet EXCEPT ![w] = c]
      /\ history' = [history EXCEPT !.askedHash = table]
      /\ gateway' = gateway /\ proxyAdmin' = proxyAdmin /\ now' = now
  BY DEF SetRecoveryHashOf
<1>2. Settles(wallet[w], c)
  BY SetRecoveryHashSettles DEF IInv, StorageOK, Registrations
<1>3. table \in [Wallets -> Requests(RecoveryHashes \union {NoHash})]
  BY RequestOK DEF IInv, StorageOK, History
<1> HIDE DEF c, table
<1>4. history' \in History /\ history'.performed = history.performed
  BY <1>1, <1>3 DEF IInv, StorageOK, History
<1>5. StorageOK(gateway, wallet', proxyAdmin, history')
  BY <1>1, <1>2, <1>4, SettlesKeepsStorage DEF IInv, StorageOK
<1>6. stack' \in Seq(GoodFrames)
  BY CallByOK DEF SetRecoveryHashOf, IInv
<1> QED
  BY <1>1, <1>5, <1>6 DEF IInv

LEMMA SetAnyPendingOfOK ==
  ASSUME IInv, NEW sender, NEW w \in Wallets, SetAnyPendingOf(sender, w)
  PROVE  IInv'
<1> DEFINE c == SetAnyPending(wallet[w], now)
<1>1. /\ wallet' = [wallet EXCEPT ![w] = c]
      /\ gateway' = gateway /\ proxyAdmin' = proxyAdmin
      /\ history' = history /\ now' = now
  BY DEF SetAnyPendingOf
<1>2. Settles(wallet[w], c)
  BY SetAnyPendingSettles DEF IInv, StorageOK, Registrations
<1> HIDE DEF c
<1>3. StorageOK(gateway, wallet', proxyAdmin, history)
  BY <1>1, <1>2, SettlesKeepsStorage DEF IInv, StorageOK
<1>4. stack' \in Seq(GoodFrames)
  BY CallFromOK DEF SetAnyPendingOf, IInv
<1> QED
  BY <1>1, <1>3, <1>4 DEF IInv

LEMMA TickOK == IInv /\ Tick => IInv'
  BY DEF IInv, Tick

LEMMA NextOK == IInv /\ [Next]_vars => IInv'
<1> SUFFICES ASSUME IInv, [Next]_vars PROVE IInv'
  OBVIOUS
<1>1. CASE Bundle
  BY <1>1, ProcessBundleOK, SkipOperationOK, PerformOperationOK,
     ForeignOperationOK, OperationRevertsOK, BundleRevertsOK, PopsOK DEF Bundle
<1>2. CASE KeyChange
  BY <1>2, SetBLSKeyForWalletOK, SetPendingBLSKeyForWalletOK, RecoverWalletOK
     DEF KeyChange
<1>3. CASE WalletChange
  BY <1>3, WalletAdminCallOK, SetTrustedBLSGatewayOK, ForeignCallOK,
     SetRecoveryHashOfOK, SetAnyPendingOfOK DEF WalletChange
<1>4. CASE Tick
  BY <1>4, TickOK
<1>5. CASE UNCHANGED vars
  BY <1>5 DEF IInv, vars
<1> QED
  BY <1>1, <1>2, <1>3, <1>4, <1>5 DEF Next

\* Every reachable storage, and every storage a rollback would return to, is
\* good (VerificationGateway.sol and BLSWallet.sol, all their methods).
THEOREM Invariance == Spec => []IInv
  BY InitOK, NextOK, PTL DEF Spec

\* The types of the gateway's mappings, the wallets and the call stack.
THEOREM TypeCorrect == Spec => []TypeOK
<1>1. IInv => TypeOK
  <2> SUFFICES ASSUME IInv PROVE TypeOK
    OBVIOUS
  <2>1. stack \in Seq(Frames)
    BY SeqMonotonic DEF IInv, GoodFrames
  <2> QED
    BY <2>1 DEF IInv, StorageOK, TypeOK
<1> QED
  BY <1>1, Invariance, PTL

\* Through every key change, recovery and rollback, the key that routes to a
\* wallet is its registered key and the only one it accepts signatures of
\* (updateWalletHashMappings, isValidSignature).
THEOREM OneKeyControls == Spec => []ControllerSigns
<1>1. IInv => ControllerSigns
  BY GatewayAssumption
     DEF IInv, StorageOK, RoutesAgree, ControllerSigns, IsValidSignature
<1> QED
  BY <1>1, Invariance, PTL

\* No operation is performed twice, whatever is nested in it and whether or
\* not it fails (performOperation, incrementNonce).
THEOREM NoReplay == Spec => []EachNonceOnce
<1>1. IInv => EachNonceOnce
  BY DEF IInv, StorageOK, Nonces, EachNonceOnce
<1> QED
  BY <1>1, Invariance, PTL

-----------------------------------------------------------------------------
(* Changes that wait                                                        *)

\* What waits until time is what was asked for, a week before that time.
AsAsked(pending, time, request) ==
    time # 0 =>
        /\ request.live
        /\ request.value = pending
        /\ time = request.at + WEEK

\* By time t a deployed wallet trusts the zero address only as asked for.
ZeroAsAsked(b, request, t) ==
    Deployed(b) /\ b.trustedBLSGateway = NoGateway =>
        /\ request.live
        /\ request.value = NoGateway
        /\ t > request.at + WEEK

WalletAsAsked(b, w, h, t) ==
    /\ AsAsked(b.pendingRecoveryHash, b.pendingRecoveryHashTime,
               h.askedHash[w])
    /\ AsAsked(b.pendingBLSGateway, b.pendingGatewayTime,
               h.askedGateway[w])
    /\ AsAsked(b.pendingPAFunctionHash, b.pendingPAFunctionTime,
               h.askedCall[w])
    /\ ZeroAsAsked(b, h.askedGateway[w], t)

KeyAsAsked(g, k, h) ==
    AsAsked(g.pendingBLSPublicKeyFromHash[k],
            g.pendingBLSPublicKeyTimeFromHash[k], h.askedKey[k])

StorageAsAsked(g, b, h, t) ==
    /\ \A w \in Wallets : WalletAsAsked(b[w], w, h, t)
    /\ \A k \in Keys : KeyAsAsked(g, k, h)

SavedAsAsked(s, t) ==
    \A i \in DOMAIN s :
        StorageAsAsked(s[i].saved.gateway, s[i].saved.wallet,
                       s[i].saved.history, t)

WaitInv ==
    /\ IInv
    /\ StorageAsAsked(gateway, wallet, history, now)
    /\ SavedAsAsked(stack, now)

\* A step from storage b of wallet w to storage c makes no guarded change but
\* one that was asked for in time.
GuardedFrom(b, c, w) ==
    /\ c.recoveryHash # b.recoveryHash /\ b.recoveryHash # NoHash =>
           Waited(history.askedHash[w], c.recoveryHash)
    /\ c.trustedBLSGateway # b.trustedBLSGateway /\ Deployed(b) =>
           Waited(history.askedGateway[w], c.trustedBLSGateway)
    /\ c.approvedProxyAdminFunctionHash # b.approvedProxyAdminFunctionHash
       /\ c.approvedProxyAdminFunctionHash # NoCall =>
           Waited(history.askedCall[w], c.approvedProxyAdminFunctionHash)

\* What a step that does not roll back may do to each wallet.
Waits == \A w \in Wallets : GuardedChange(w) /\ KeyChangeOf(w)

-----------------------------------------------------------------------------
(* What the methods of a wallet do to what waits                            *)

\* A time and what waits for it are dropped, or both kept.
Keeps(time, pending, time2, pending2) ==
    time2 = 0 \/ (time2 = time /\ pending2 = pending)

\* A method that asks for nothing and makes no guarded change.
Quiet(b, c) ==
    /\ Keeps(b.pendingRecoveryHashTime, b.pendingRecoveryHash,
             c.pendingRecoveryHashTime, c.pendingRecoveryHash)
    /\ Keeps(b.pendingGatewayTime, b.pendingBLSGateway,
             c.pendingGatewayTime, c.pendingBLSGateway)
    /\ Keeps(b.pendingPAFunctionTime, b.pendingPAFunctionHash,
             c.pendingPAFunctionTime, c.pendingPAFunctionHash)
    /\ c.recoveryHash = b.recoveryHash
    /\ \/ /\ c.trustedBLSGateway = b.trustedBLSGateway
          /\ Deployed(c) <=> Deployed(b)
       \/ c.trustedBLSGateway # NoGateway /\ ~Deployed(b)
    /\ \/ c.approvedProxyAdminFunctionHash = b.approvedProxyAdminFunctionHash
       \/ c.approvedProxyAdminFunctionHash = NoCall

LEMMA QuietReflexive == ASSUME NEW b PROVE Quiet(b, b)
  BY DEF Quiet, Keeps

LEMMA QuietTransitive ==
  ASSUME NEW b, NEW c, NEW d, Quiet(b, c), Quiet(c, d)
  PROVE  Quiet(b, d)
  BY DEF Quiet, Keeps

LEMMA InitializeIsQuiet ==
  ASSUME NEW b \in WalletStorage, ~Deployed(b)
  PROVE  Quiet(b, Initialize(b, This))
  BY GatewayAssumption, WalletAssumption
     DEF Quiet, Keeps, Initialize, WalletStorage, Deployed

LEMMA IncrementNonceIsQuiet ==
  ASSUME NEW b \in WalletStorage
  PROVE  Quiet(b, IncrementNonce(b))
  BY DEF Quiet, Keeps, Deployed, IncrementNonce, WalletStorage

LEMMA RecoverDropsAll ==
  ASSUME NEW b \in WalletStorage
  PROVE  /\ Quiet(b, Recover(b))
         /\ Recover(b).pendingRecoveryHashTime = 0
         /\ Recover(b).pendingGatewayTime = 0
         /\ Recover(b).pendingPAFunctionTime = 0
  BY DEF Quiet, Keeps, Deployed, Recover, ClearPendingRecoveryHash, WalletStorage

LEMMA ClearApprovedIsQuiet ==
  ASSUME NEW b \in WalletStorage
  PROVE  Quiet(b, ClearApprovedProxyAdminFunctionHash(b))
  BY DEF Quiet, Keeps, Deployed, ClearApprovedProxyAdminFunctionHash, WalletStorage

\* What is asked for stays asked for, and nothing guarded changes.
LEMMA QuietWaits ==
  ASSUME NEW w, NEW b, NEW c, Quiet(b, c)
  PROVE  /\ \A h : WalletAsAsked(b, w, h, now) => WalletAsAsked(c, w, h, now)
         /\ GuardedFrom(b, c, w)
  BY DEF Quiet, Keeps, WalletAsAsked, AsAsked, ZeroAsAsked, GuardedFrom

\* A pending change takes effect only after the week of its request.
LEMMA SetAnyPendingWaits ==
  ASSUME NEW w, NEW b \in WalletStorage, WalletAsAsked(b, w, history, now)
  PROVE  LET c == SetAnyPending(b, now) IN
         /\ WalletAsAsked(c, w, history, now)
         /\ GuardedFrom(b, c, w)
<1> DEFINE c == ApplyRecoveryHash(b, now)
           d == ApplyGateway(c, now)
           e == ApplyPAFunction(d, now)
<1>1. /\ c \in WalletStorage
      /\ c = b \/ /\ Elapsed(b.pendingRecoveryHashTime, now)
                  /\ c.recoveryHash = b.pendingRecoveryHash
                  /\ c.pendingRecoveryHashTime = 0
      /\ c.pendingGatewayTime = b.pendingGatewayTime
      /\ c.pendingBLSGateway = b.pendingBLSGateway
      /\ c.pendingPAFunctionTime = b.pendingPAFunctionTime
      /\ c.pendingPAFunctionHash = b.pendingPAFunctionHash
      /\ c.trustedBLSGateway = b.trustedBLSGateway
      /\ Deployed(c) <=> Deployed(b)
      /\ c.approvedProxyAdminFunctionHash = b.approvedProxyAdminFunctionHash
  BY DEF Deployed, ApplyRecoveryHash, ClearPendingRecoveryHash, WalletStorage
<1> HIDE DEF c
<1>2. /\ d \in WalletStorage
      /\ d = c \/ /\ Elapsed(c.pendingGatewayTime, now)
                  /\ d.trustedBLSGateway = c.pendingBLSGateway
                  /\ d.pendingGatewayTime = 0
      /\ d.pendingRecoveryHashTime = c.pendingRecoveryHashTime
      /\ d.pendingRecoveryHash = c.pendingRecoveryHash
      /\ d.pendingPAFunctionTime = c.pendingPAFunctionTime
      /\ d.pendingPAFunctionHash = c.pendingPAFunctionHash
      /\ d.recoveryHash = c.recoveryHash
      /\ Deployed(d) <=> Deployed(c)
      /\ d.approvedProxyAdminFunctionHash = c.approvedProxyAdminFunctionHash
  <2>1. CASE Elapsed(c.pendingGatewayTime, now)
    BY <1>1, <2>1 DEF Deployed, ApplyGateway, WalletStorage
  <2>2. CASE ~Elapsed(c.pendingGatewayTime, now)
    BY <1>1, <2>2 DEF ApplyGateway
  <2> QED
    BY <2>1, <2>2
<1> HIDE DEF d
<1>3. /\ e = d \/ /\ Elapsed(d.pendingPAFunctionTime, now)
                  /\ e.approvedProxyAdminFunctionHash = d.pendingPAFunctionHash
                  /\ e.pendingPAFunctionTime = 0
      /\ e.pendingRecoveryHashTime = d.pendingRecoveryHashTime
      /\ e.pendingRecoveryHash = d.pendingRecoveryHash
      /\ e.pendingGatewayTime = d.pendingGatewayTime
      /\ e.pendingBLSGateway = d.pendingBLSGateway
      /\ e.recoveryHash = d.recoveryHash
      /\ e.trustedBLSGateway = d.trustedBLSGateway
      /\ Deployed(e) <=> Deployed(d)
  BY <1>2 DEF Deployed, ApplyPAFunction, WalletStorage
<1> HIDE DEF e
<1>4. WalletAsAsked(e, w, history, now)
  BY <1>1, <1>2, <1>3 DEF WalletAsAsked, AsAsked, ZeroAsAsked, Elapsed
<1>5. GuardedFrom(b, e, w)
  <2>1. e.recoveryHash = b.recoveryHash
        \/ Waited(history.askedHash[w], e.recoveryHash)
    BY <1>1, <1>2, <1>3 DEF WalletAsAsked, AsAsked, Elapsed, Waited
  <2>2. e.trustedBLSGateway = b.trustedBLSGateway
        \/ Waited(history.askedGateway[w], e.trustedBLSGateway)
    BY <1>1, <1>2, <1>3 DEF WalletAsAsked, AsAsked, Elapsed, Waited
  <2>3. e.approvedProxyAdminFunctionHash = b.approvedProxyAdminFunctionHash
        \/ Waited(history.askedCall[w], e.approvedProxyAdminFunctionHash)
    BY <1>1, <1>2, <1>3 DEF WalletAsAsked, AsAsked, Elapsed, Waited
  <2> QED
    BY <2>1, <2>2, <2>3 DEF GuardedFrom
<1>6. SetAnyPending(b, now) = e
  BY DEF SetAnyPending, c, d, e
<1> QED
  BY <1>4, <1>5, <1>6

-----------------------------------------------------------------------------
(* Storage and the storage the stack saves                                  *)

LEMMA PopAsked ==
  ASSUME stack \in Seq(GoodFrames), SavedAsAsked(stack, now), NEW n \in Nat
  PROVE  SavedAsAsked(Pop(n), now)
<1>1. Depth \in Nat /\ DOMAIN stack = 1..Depth
  BY LenProperties DEF Depth
<1>2. /\ DOMAIN Pop(n) \subseteq DOMAIN stack
      /\ \A i \in DOMAIN Pop(n) : Pop(n)[i] = stack[i]
  <2>1. CASE Depth - n >= 1
    BY <1>1, <2>1, SubSeqProperties DEF Pop, Depth
  <2>2. CASE ~(Depth - n >= 1)
    BY <1>1, <2>2 DEF Pop
  <2> QED
    BY <2>1, <2>2
<1> QED
  BY <1>2 DEF SavedAsAsked

LEMMA CalledAsked ==
  ASSUME SavedAsAsked(stack, now)
  PROVE  SavedAsAsked(Called, now)
  BY DEF SavedAsAsked, Called

LEMMA EnteredAsked ==
  ASSUME SavedAsAsked(stack, now)
  PROVE  SavedAsAsked(Entered, now)
  BY CalledAsked DEF Entered, SavedAsAsked

LEMMA RemainingOpsAsked ==
  ASSUME SavedAsAsked(stack, now)
  PROVE  SavedAsAsked(RemainingOps, now)
  BY DEF SavedAsAsked, RemainingOps

LEMMA CallByAsked ==
  ASSUME SavedAsAsked(stack, now), NEW w, CallBy(w)
  PROVE  SavedAsAsked(stack', now)
  BY CalledAsked DEF CallBy

LEMMA CallFromAsked ==
  ASSUME SavedAsAsked(stack, now), NEW sender, CallFrom(sender)
  PROVE  SavedAsAsked(stack', now)
  BY CallByAsked DEF CallFrom

\* A new frame saves the storage there is.
LEMMA AppendAsked ==
  ASSUME NEW s \in Seq(GoodFrames), SavedAsAsked(s, now), NEW f,
         StorageAsAsked(f.saved.gateway, f.saved.wallet, f.saved.history, now)
  PROVE  SavedAsAsked(Append(s, f), now)
<1>1. /\ Len(s) \in Nat /\ DOMAIN s = 1..Len(s)
      /\ DOMAIN Append(s, f) = 1..(Len(s) + 1)
      /\ \A i \in 1..Len(s) : Append(s, f)[i] = s[i]
      /\ Append(s, f)[Len(s) + 1] = f
  BY LenProperties
<1>2. \A i \in DOMAIN Append(s, f) : i \in DOMAIN s \/ i = Len(s) + 1
  BY <1>1
<1> QED
  BY <1>1, <1>2 DEF SavedAsAsked

-----------------------------------------------------------------------------
(* Each step keeps the invariant and makes only changes that waited         *)

\* A call of a wallet changes that wallet, and perhaps its own requests.
LEMMA WalletStepWaits ==
  ASSUME IInv, StorageAsAsked(gateway, wallet, history, now),
         NEW w \in Wallets, NEW c,
         wallet' = [wallet EXCEPT ![w] = c],
         gateway' = gateway,
         history'.askedKey = history.askedKey,
         \A u \in Wallets \ {w} :
             /\ history'.askedHash[u] = history.askedHash[u]
             /\ history'.askedGateway[u] = history.askedGateway[u]
             /\ history'.askedCall[u] = history.askedCall[u],
         WalletAsAsked(c, w, history', now),
         GuardedFrom(wallet[w], c, w)
  PROVE  /\ StorageAsAsked(gateway', wallet', history', now)
         /\ Waits
<1>1. \A u \in Wallets : wallet'[u] = IF u = w THEN c ELSE wallet[u]
  BY DEF IInv, StorageOK
<1>2. \A u \in Wallets : WalletAsAsked(wallet'[u], u, history', now)
  <2> SUFFICES ASSUME NEW u \in Wallets
               PROVE  WalletAsAsked(wallet'[u], u, history', now)
    OBVIOUS
  <2>1. CASE u = w
    BY <1>1, <2>1
  <2>2. CASE u # w
    BY <1>1, <2>2 DEF StorageAsAsked, WalletAsAsked
  <2> QED
    BY <2>1, <2>2
<1>3. \A k \in Keys : KeyAsAsked(gateway', k, history')
  BY DEF StorageAsAsked, KeyAsAsked
<1>4. \A u \in Wallets : GuardedChange(u) /\ KeyChangeOf(u)
  <2> SUFFICES ASSUME NEW u \in Wallets
               PROVE  GuardedChange(u) /\ KeyChangeOf(u)
    OBVIOUS
  <2>1. CASE u = w
    BY <1>1, <2>1 DEF GuardedFrom, GuardedChange, KeyChangeOf
  <2>2. CASE u # w
    BY <1>1, <2>2 DEF GuardedChange, KeyChangeOf
  <2> QED
    BY <2>1, <2>2
<1> QED
  BY <1>2, <1>3, <1>4 DEF StorageAsAsked, Waits

LEMMA ProcessBundleWaits ==
  ASSUME WaitInv, NEW bundle \in Bundles, ProcessBundle(bundle)
  PROVE  WaitInv' /\ Waits
<1> DEFINE f == BundleFrame(bundle)
<1>1. IInv'
  BY ProcessBundleOK DEF WaitInv
<1>2. StorageAsAsked(f.saved.gateway, f.saved.wallet, f.saved.history, now)
  BY DEF WaitInv, BundleFrame, Snapshot
<1>3. SavedAsAsked(stack', now)
  BY <1>2, EnteredOK, EnteredAsked, AppendAsked DEF ProcessBundle, IInv, WaitInv
<1> QED
  BY <1>1, <1>3 DEF WaitInv, ProcessBundle, Waits, GuardedChange, KeyChangeOf

\* Getting a wallet asks for nothing; only an unregistered one gets a key.
LEMMA GetOrCreateWaits ==
  ASSUME IInv, StorageAsAsked(gateway, wallet, history, now),
         NEW key \in Keys, MayGetOrCreate(key)
  PROVE  LET got == GetOrCreateWallet(key) IN
         /\ \A w \in Wallets : Quiet(wallet[w], got.wallet[w])
         /\ \A k \in Keys : KeyAsAsked(got.gateway, k, history)
         /\ \A w \in Wallets :
               \/ got.gateway.hashFromWallet[w] = gateway.hashFromWallet[w]
               \/ gateway.hashFromWallet[w] = NoKey
<1> DEFINE w == SignedWallet(key)
           g == UpdateWalletHashMappings(gateway, key, w)
           c == Initialize(wallet[w], This)
           b == [wallet EXCEPT ![w] = c]
<1>1. w \in Wallets
  BY GatewayAssumption DEF SignedWallet, IInv, StorageOK, GatewayStorage
<1>2. CASE gateway.walletFromHash[key] # NoWallet
  BY <1>2, QuietReflexive DEF GetOrCreateWallet, StorageAsAsked
<1>3. CASE gateway.walletFromHash[key] = NoWallet
  <2>1. w = Create2[key] /\ ~Deployed(wallet[w])
    BY <1>3 DEF MayGetOrCreate, SignedWallet
  <2>2. gateway.hashFromWallet[w] = NoKey
    BY <1>1, <2>1 DEF IInv, StorageOK, Registrations
  <2>3. Quiet(wallet[w], c)
    BY <1>1, <2>1, InitializeIsQuiet DEF IInv, StorageOK
  <2>4. /\ g.hashFromWallet = [gateway.hashFromWallet EXCEPT ![w] = key]
        /\ g.pendingBLSPublicKeyFromHash = gateway.pendingBLSPublicKeyFromHash
        /\ g.pendingBLSPublicKeyTimeFromHash
               = gateway.pendingBLSPublicKeyTimeFromHash
    BY <1>1, UpdateEffect DEF IInv, StorageOK
  <2>5. GetOrCreateWallet(key) = [to |-> w, gateway |-> g, wallet |-> b]
    BY <1>3 DEF GetOrCreateWallet
  <2> HIDE DEF w, g, c
  <2>6. \A u \in Wallets : b[u] = IF u = w THEN c ELSE wallet[u]
    BY <1>1 DEF IInv, StorageOK
  <2> HIDE DEF b
  <2>7. \A u \in Wallets : Quiet(wallet[u], b[u])
    BY <2>3, <2>6, QuietReflexive
  <2>8. \A k \in Keys : KeyAsAsked(g, k, history)
    BY <2>4 DEF StorageAsAsked, KeyAsAsked
  <2>9. \A u \in Wallets :
            \/ g.hashFromWallet[u] = gateway.hashFromWallet[u]
            \/ gateway.hashFromWallet[u] = NoKey
    BY <2>2, <2>4 DEF IInv, StorageOK, GatewayStorage
  <2> QED
    BY <2>5, <2>7, <2>8, <2>9
<1> QED
  BY <1>2, <1>3

\* Quiet steps of all wallets, with keys given only to unregistered ones.
LEMMA QuietStepWaits ==
  ASSUME StorageAsAsked(gateway, wallet, history, now),
         \A w \in Wallets : Quiet(wallet[w], wallet'[w]),
         \A k \in Keys : KeyAsAsked(gateway', k, history),
         \A w \in Wallets :
             \/ gateway'.hashFromWallet[w] = gateway.hashFromWallet[w]
             \/ gateway.hashFromWallet[w] = NoKey
  PROVE  /\ StorageAsAsked(gateway', wallet', history, now)
         /\ Waits
<1>1. \A w \in Wallets : /\ WalletAsAsked(wallet'[w], w, history, now)
                         /\ GuardedFrom(wallet[w], wallet'[w], w)
  BY QuietWaits DEF StorageAsAsked
<1>2. \A w \in Wallets : GuardedChange(w)
  BY <1>1 DEF GuardedFrom, GuardedChange
<1>3. \A w \in Wallets : KeyChangeOf(w)
  BY DEF KeyChangeOf
<1> QED
  BY <1>1, <1>2, <1>3 DEF StorageAsAsked, Waits

LEMMA SkipOperationWaits ==
  ASSUME WaitInv, SkipOperation
  PROVE  WaitInv' /\ Waits
<1> DEFINE op == Head(Top.ops)
           got == GetOrCreateWallet(op.key)
<1>1. IInv' /\ op.key \in Keys
  BY SkipOperationOK, RemainingOpsOK
     DEF WaitInv, SkipOperation, InBundle, IInv, Operations
<1>2. /\ MayGetOrCreate(op.key)
      /\ gateway' = got.gateway /\ wallet' = got.wallet
      /\ history' = history /\ stack' = RemainingOps /\ now' = now
  BY DEF SkipOperation
<1>3. StorageAsAsked(gateway', wallet', history', now) /\ Waits
  BY <1>1, <1>2, GetOrCreateWaits, QuietStepWaits DEF WaitInv
<1> QED
  BY <1>1, <1>2, <1>3, RemainingOpsAsked DEF WaitInv

\* The history of requests is not the history of nonces.
LEMMA PerformedAsksNothing ==
  ASSUME NEW w, NEW n, history \in History, NEW b, NEW g,
         StorageAsAsked(g, b, history, now)
  PROVE  StorageAsAsked(g, b, Performed(w, n), now)
<1> DEFINE h == Performed(w, n)
<1>1. /\ h.askedHash = history.askedHash
      /\ h.askedGateway = history.askedGateway
      /\ h.askedCall = history.askedCall
      /\ h.askedKey = history.askedKey
  BY DEF Performed, History
<1> HIDE DEF h
<1>2. StorageAsAsked(g, b, h, now)
  BY <1>1 DEF StorageAsAsked, WalletAsAsked, KeyAsAsked
<1> QED
  BY <1>2 DEF h

LEMMA PerformOperationWaits ==
  ASSUME WaitInv, PerformOperation
  PROVE  WaitInv' /\ Waits
<1> DEFINE op == Head(Top.ops)
           got == GetOrCreateWallet(op.key)
           b == got.wallet[got.to]
           f == [ wallet |-> got.to, signed |-> op.wallet, ops |-> <<>>,
                  calls |-> 0,
                  saved |-> [gateway |-> gateway', wallet |-> wallet',
                             proxyAdmin |-> proxyAdmin, history |-> history'] ]
<1>1. /\ IInv' /\ IInv /\ op.key \in Keys
      /\ RemainingOps \in Seq(GoodFrames)
  BY PerformOperationOK, RemainingOpsOK
     DEF WaitInv, PerformOperation, InBundle, IInv, Operations
<1>2. /\ MayGetOrCreate(op.key)
      /\ gateway' = got.gateway
      /\ wallet' = [got.wallet EXCEPT ![got.to] = IncrementNonce(b)]
      /\ history' = Performed(got.to, op.nonce)
      /\ stack' = Append(RemainingOps, f) /\ now' = now
  BY DEF PerformOperation
<1> HIDE DEF op
<1>3. /\ \A w \in Wallets : Quiet(wallet[w], got.wallet[w])
      /\ \A k \in Keys : KeyAsAsked(got.gateway, k, history)
      /\ \A w \in Wallets :
            \/ got.gateway.hashFromWallet[w] = gateway.hashFromWallet[w]
            \/ gateway.hashFromWallet[w] = NoKey
  BY <1>1, <1>2, GetOrCreateWaits DEF WaitInv
<1>4. got.to \in Wallets /\ got.wallet \in [Wallets -> WalletStorage]
  BY <1>1, <1>2, GetOrCreateOK DEF IInv, StorageOK
<1> HIDE DEF got
<1>5. \A w \in Wallets : wallet'[w] = got.wallet[w]
                         \/ wallet'[w] = IncrementNonce(got.wallet[w])
  BY <1>2, <1>4
<1>6. \A w \in Wallets : Quiet(wallet[w], wallet'[w])
  BY <1>3, <1>4, <1>5, IncrementNonceIsQuiet, QuietTransitive
<1>7. StorageAsAsked(gateway', wallet', history, now) /\ Waits
  BY <1>2, <1>3, <1>6, QuietStepWaits DEF WaitInv
<1>8. StorageAsAsked(gateway', wallet', history', now)
  BY <1>1, <1>2, <1>7, PerformedAsksNothing DEF IInv, StorageOK
<1>9. StorageAsAsked(f.saved.gateway, f.saved.wallet, f.saved.history, now)
  BY <1>8
<1> HIDE DEF f
<1>10. SavedAsAsked(stack', now)
  BY <1>1, <1>2, <1>9, RemainingOpsAsked, AppendAsked DEF WaitInv
<1> QED
  BY <1>1, <1>2, <1>7, <1>8, <1>10 DEF WaitInv

LEMMA ForeignOperationWaits ==
  ASSUME WaitInv, NEW w \in Wallets, ForeignOperation(w)
  PROVE  WaitInv' /\ Waits
<1> DEFINE f == [ wallet |-> w, signed |-> w, ops |-> <<>>, calls |-> 0,
                  saved |-> [gateway |-> gateway, wallet |-> wallet',
                             proxyAdmin |-> proxyAdmin, history |-> history'] ]
<1>1. /\ wallet' = [wallet EXCEPT ![w] = IncrementNonce(wallet[w])]
      /\ history' = Performed(w, wallet[w].nonce)
      /\ stack' = Append(Entered, f) /\ MayEnter
      /\ gateway' = gateway /\ now' = now
  BY DEF ForeignOperation
<1>2. IInv' /\ IInv
  BY ForeignOperationOK DEF WaitInv
<1>3. \A u \in Wallets : wallet[u] \in WalletStorage
                         /\ (\/ wallet'[u] = wallet[u]
                             \/ wallet'[u] = IncrementNonce(wallet[u]))
  BY <1>1, <1>2 DEF IInv, StorageOK
<1>4. \A u \in Wallets : Quiet(wallet[u], wallet'[u])
  BY <1>3, IncrementNonceIsQuiet, QuietReflexive
<1>5. StorageAsAsked(gateway', wallet', history, now) /\ Waits
  BY <1>1, <1>4, QuietStepWaits DEF WaitInv, StorageAsAsked
<1>6. StorageAsAsked(gateway', wallet', history', now)
  BY <1>1, <1>2, <1>5, PerformedAsksNothing DEF IInv, StorageOK
<1>7. StorageAsAsked(f.saved.gateway, f.saved.wallet, f.saved.history, now)
  BY <1>1, <1>6
<1> HIDE DEF f
<1>8. SavedAsAsked(stack', now)
  BY <1>1, <1>2, <1>7, EnteredOK, EnteredAsked, AppendAsked DEF IInv, WaitInv
<1> QED
  BY <1>1, <1>2, <1>5, <1>6, <1>8 DEF WaitInv

\* A rollback returns to storage that was as asked for.
LEMMA RevertsOK ==
  ASSUME WaitInv, OperationReverts \/ BundleReverts
  PROVE  WaitInv' /\ RollsBack
<1>1. IInv' /\ stack \in Seq(GoodFrames) /\ stack # <<>>
  BY OperationRevertsOK, BundleRevertsOK
     DEF WaitInv, IInv, OperationReverts, BundleReverts, InOperation, InBundle
<1>2. /\ Depth = Len(stack) /\ Depth \in Nat /\ Depth \in 1..Depth
      /\ DOMAIN stack = 1..Depth
      /\ now' = now
  BY <1>1, TopOK, LenProperties DEF Depth, OperationReverts, BundleReverts
<1> HIDE DEF Depth
<1>3. ASSUME NEW n \in Nat, n \in 1..2, n <= Depth, stack' = Pop(n)
      PROVE  SavedAsAsked(stack', now) /\ RollsBack
  <2>1. SavedAsAsked(stack', now)
    BY <1>1, <1>3, PopAsked DEF WaitInv
  <2>2. Len(stack') = Depth - n
    BY <1>1, <1>2, <1>3, SubSeqProperties DEF Pop
  <2> QED
    BY <1>2, <1>3, <2>1, <2>2 DEF RollsBack
<1>4. ASSUME NEW i \in 1..Depth, RevertTo(stack[i].saved)
      PROVE  StorageAsAsked(gateway', wallet', history', now)
  BY <1>2, <1>4 DEF WaitInv, SavedAsAsked, RevertTo
<1>5. CASE OperationReverts
  <2>1. RevertTo(stack[Depth].saved) /\ stack' = Pop(1)
    BY <1>5 DEF OperationReverts, Top
  <2> QED
    BY <1>1, <1>2, <1>3, <1>4, <2>1 DEF WaitInv
<1>6. CASE BundleReverts
  <2>1. CASE RevertTo(stack[Depth].saved) /\ stack' = Pop(1)
    BY <1>1, <1>2, <1>3, <1>4, <2>1 DEF WaitInv
  <2>2. CASE /\ Depth > 1
             /\ RevertTo(stack[Depth - 1].saved) /\ stack' = Pop(2)
    <3>1. Depth - 1 \in 1..Depth /\ 2 <= Depth
      BY <1>2, <2>2
    <3> QED
      BY <1>1, <1>2, <1>3, <1>4, <2>2, <3>1 DEF WaitInv
  <2> QED
    BY <1>6, <2>1, <2>2 DEF BundleReverts, Top
<1> QED
  BY <1>5, <1>6

LEMMA PopsWait ==
  ASSUME WaitInv, OperationSucceeds \/ BundleEnds
  PROVE  WaitInv' /\ Waits
<1>1. IInv' /\ stack' = Pop(1) /\ UNCHANGED <<gateway, wallet, history, now>>
  BY PopsOK DEF WaitInv, OperationSucceeds, BundleEnds
<1>2. SavedAsAsked(stack', now)
  BY <1>1, PopAsked DEF WaitInv, IInv
<1> QED
  BY <1>1, <1>2 DEF WaitInv, Waits, GuardedChange, KeyChangeOf

\* What is asked for under a key waits a week from now.
LEMMA SetBLSKeyForWalletWaits ==
  ASSUME WaitInv, NEW w \in Wallets, NEW signature \in Signatures,
         NEW key \in Keys \union {NoKey}, SetBLSKeyForWallet(w, signature, key)
  PROVE  WaitInv' /\ Waits
<1> DEFINE hash == gateway.hashFromWallet[w]
<1>1. IInv' /\ IInv /\ hash \in Keys
  BY SetBLSKeyForWalletOK
     DEF WaitInv, IInv, StorageOK, GatewayStorage, SetBLSKeyForWallet
<1>2. /\ gateway' = [gateway EXCEPT
            !.pendingMessageSenderSignatureFromHash[hash] = signature,
            !.pendingBLSPublicKeyFromHash[hash] = key,
            !.pendingBLSPublicKeyTimeFromHash[hash] = now + WEEK]
      /\ history' = [history EXCEPT !.askedKey[hash] = Request(key)]
      /\ wallet' = wallet /\ CallBy(w) /\ now' = now
  BY DEF SetBLSKeyForWallet
<1> HIDE DEF hash
<1>3. /\ gateway'.hashFromWallet = gateway.hashFromWallet
      /\ \A k \in Keys :
            /\ gateway'.pendingBLSPublicKeyFromHash[k] =
                  IF k = hash THEN key
                  ELSE gateway.pendingBLSPublicKeyFromHash[k]
            /\ gateway'.pendingBLSPublicKeyTimeFromHash[k] =
                  IF k = hash THEN now + WEEK
                  ELSE gateway.pendingBLSPublicKeyTimeFromHash[k]
  BY <1>1, <1>2 DEF IInv, StorageOK, GatewayStorage
<1>4. /\ history'.askedHash = history.askedHash
      /\ history'.askedGateway = history.askedGateway
      /\ history'.askedCall = history.askedCall
      /\ \A k \in Keys : history'.askedKey[k] =
            IF k = hash THEN Request(key) ELSE history.askedKey[k]
  BY <1>1, <1>2 DEF IInv, StorageOK, History
<1>5. \A k \in Keys : KeyAsAsked(gateway', k, history')
  BY <1>3, <1>4 DEF WaitInv, StorageAsAsked, KeyAsAsked, AsAsked, Request
<1>6. \A u \in Wallets : WalletAsAsked(wallet'[u], u, history', now)
  BY <1>2, <1>4 DEF WaitInv, StorageAsAsked, WalletAsAsked
<1>7. SavedAsAsked(stack', now)
  BY <1>2, CallByAsked DEF WaitInv
<1>8. Waits
  BY <1>2, <1>3 DEF Waits, GuardedChange, KeyChangeOf
<1> QED
  BY <1>1, <1>2, <1>5, <1>6, <1>7, <1>8 DEF WaitInv, StorageAsAsked

\* The key that replaces another is the one asked for under that other key.
LEMMA SetPendingBLSKeyForWalletWaits ==
  ASSUME WaitInv, NEW w \in Wallets, NEW expiry \in Expiries,
         SetPendingBLSKeyForWallet(w, expiry)
  PROVE  WaitInv' /\ Waits
<1> DEFINE hash == gateway.hashFromWallet[w]
           key == gateway.pendingBLSPublicKeyFromHash[hash]
           g == UpdateWalletHashMappings(gateway, key, w)
<1>1. IInv' /\ IInv /\ hash \in Keys
  BY SetPendingBLSKeyForWalletOK
     DEF WaitInv, IInv, StorageOK, GatewayStorage, SetPendingBLSKeyForWallet
<1>2. key \in Keys
  <2>1. gateway.pendingBLSPublicKeyTimeFromHash[hash] # 0
    BY DEF SetPendingBLSKeyForWallet, Elapsed
  <2> QED
    BY <1>1, <2>1 DEF IInv, StorageOK, PendingKeys, GatewayStorage
<1>3. /\ gateway' = ClearPendingKey(g, hash)
      /\ history' = [history EXCEPT !.askedKey[hash].live = FALSE]
      /\ wallet' = wallet /\ CallBy(w) /\ now' = now
      /\ Elapsed(gateway.pendingBLSPublicKeyTimeFromHash[hash], now)
  BY DEF SetPendingBLSKeyForWallet
<1>4. /\ g \in GatewayStorage
      /\ g.hashFromWallet = [gateway.hashFromWallet EXCEPT ![w] = key]
      /\ g.pendingBLSPublicKeyFromHash = gateway.pendingBLSPublicKeyFromHash
      /\ g.pendingBLSPublicKeyTimeFromHash
             = gateway.pendingBLSPublicKeyTimeFromHash
  <2>1. gateway \in GatewayStorage
    BY <1>1 DEF IInv, StorageOK
  <2> HIDE DEF key, hash
  <2> QED
    BY <1>2, <2>1, UpdateKeepsType, UpdateEffect
<1>5. KeyAsAsked(gateway, hash, history)
  BY <1>1 DEF WaitInv, StorageAsAsked
<1> HIDE DEF g
<1>6. Waited(history.askedKey[hash], key)
  BY <1>3, <1>5 DEF KeyAsAsked, AsAsked, Elapsed, Waited
<1> HIDE DEF key, hash
<1>7. /\ gateway'.hashFromWallet = g.hashFromWallet
      /\ \A k \in Keys :
            /\ k = hash => gateway'.pendingBLSPublicKeyTimeFromHash[k] = 0
            /\ k # hash =>
                  /\ gateway'.pendingBLSPublicKeyTimeFromHash[k] =
                        g.pendingBLSPublicKeyTimeFromHash[k]
                  /\ gateway'.pendingBLSPublicKeyFromHash[k] =
                        g.pendingBLSPublicKeyFromHash[k]
  BY <1>1, <1>3, <1>4 DEF ClearPendingKey, GatewayStorage
<1>8. /\ history'.askedHash = history.askedHash
      /\ history'.askedGateway = history.askedGateway
      /\ history'.askedCall = history.askedCall
      /\ \A k \in Keys : k # hash => history'.askedKey[k] = history.askedKey[k]
  BY <1>1, <1>3 DEF IInv, StorageOK, History
<1>9. \A k \in Keys : KeyAsAsked(gateway', k, history')
  BY <1>4, <1>7, <1>8 DEF WaitInv, StorageAsAsked, KeyAsAsked, AsAsked
<1>10. \A u \in Wallets : WalletAsAsked(wallet'[u], u, history', now)
  BY <1>3, <1>8 DEF WaitInv, StorageAsAsked, WalletAsAsked
<1>11. SavedAsAsked(stack', now)
  BY <1>3, CallByAsked DEF WaitInv
<1>12. \A u \in Wallets : KeyChangeOf(u)
  <2>1. \A u \in Wallets : gateway'.hashFromWallet[u] =
            IF u = w THEN key ELSE gateway.hashFromWallet[u]
    BY <1>1, <1>4, <1>7 DEF IInv, StorageOK, GatewayStorage
  <2> QED
    BY <1>6, <2>1 DEF KeyChangeOf, hash
<1>13. \A u \in Wallets : GuardedChange(u)
  BY <1>3 DEF GuardedChange
<1> QED
  BY <1>1, <1>3, <1>9, <1>10, <1>11, <1>12, <1>13
     DEF WaitInv, StorageAsAsked, Waits

\* A recovery leaves the wallet with nothing pending, and the hash it used
\* commits to the key the wallet had.
LEMMA RecoverWalletWaits ==
  ASSUME WaitInv, NEW sender \in Wallets \union Accounts,
         NEW signature \in Signatures, NEW key \in Keys, NEW newKey \in Keys,
         NEW expiry \in Expiries,
         RecoverWallet(sender, signature, key, newKey, expiry)
  PROVE  WaitInv' /\ Waits
<1> DEFINE w == gateway.walletFromHash[key]
           g == UpdateWalletHashMappings(gateway, newKey, w)
           c == Recover(wallet[w])
<1>1. IInv' /\ IInv
  BY RecoverWalletOK DEF WaitInv
<1>2. /\ w # NoWallet
      /\ wallet[w].recoveryHash = <<sender, key>>
      /\ gateway' = g
      /\ wallet' = [wallet EXCEPT ![w] = c]
      /\ history' = Revoked(w)
      /\ wallet[w].trustedBLSGateway = This
      /\ CallFrom(sender) /\ now' = now
  BY DEF RecoverWallet, OnlyTrustedGateway
<1>3. w \in Wallets
  BY <1>1, <1>2 DEF IInv, StorageOK, GatewayStorage
<1>4. gateway.hashFromWallet[w] = key
  BY <1>1, <1>3 DEF IInv, StorageOK, RoutesAgree
<1>5. /\ g.hashFromWallet = [gateway.hashFromWallet EXCEPT ![w] = newKey]
      /\ g.pendingBLSPublicKeyFromHash = gateway.pendingBLSPublicKeyFromHash
      /\ g.pendingBLSPublicKeyTimeFromHash
             = gateway.pendingBLSPublicKeyTimeFromHash
  <2>1. gateway \in GatewayStorage
    BY <1>1 DEF IInv, StorageOK
  <2> HIDE DEF w
  <2> QED
    BY <1>3, <2>1, UpdateEffect
<1>6. /\ Quiet(wallet[w], c)
      /\ c.pendingRecoveryHashTime = 0
      /\ c.pendingGatewayTime = 0
      /\ c.pendingPAFunctionTime = 0
      /\ c.trustedBLSGateway # NoGateway
  <2>1. wallet[w] \in WalletStorage
    BY <1>1, <1>3 DEF IInv, StorageOK
  <2>2. wallet[w].trustedBLSGateway \in Gateways
    BY <1>2, GatewayAssumption
  <2>3. c.trustedBLSGateway = wallet[w].trustedBLSGateway
    BY <2>1 DEF Recover, ClearPendingRecoveryHash, WalletStorage
  <2> QED
    BY <2>1, <2>2, <2>3, RecoverDropsAll, WalletAssumption
<1> HIDE DEF g, c, w
<1>7. /\ history'.askedKey = history.askedKey
      /\ \A u \in Wallets \ {w} :
            /\ history'.askedHash[u] = history.askedHash[u]
            /\ history'.askedGateway[u] = history.askedGateway[u]
            /\ history'.askedCall[u] = history.askedCall[u]
  BY <1>1, <1>2 DEF Revoked, IInv, StorageOK, History
<1>8. \A u \in Wallets : wallet'[u] = IF u = w THEN c ELSE wallet[u]
  BY <1>1, <1>2 DEF IInv, StorageOK
<1>9. \A u \in Wallets : WalletAsAsked(wallet'[u], u, history', now)
  <2> SUFFICES ASSUME NEW u \in Wallets
               PROVE  WalletAsAsked(wallet'[u], u, history', now)
    OBVIOUS
  <2>1. CASE u = w
    BY <1>6, <1>8, <2>1 DEF WalletAsAsked, AsAsked, ZeroAsAsked
  <2>2. CASE u # w
    BY <1>7, <1>8, <2>2 DEF WaitInv, StorageAsAsked, WalletAsAsked
  <2> QED
    BY <2>1, <2>2
<1>10. \A k \in Keys : KeyAsAsked(gateway', k, history')
  BY <1>2, <1>5, <1>7 DEF WaitInv, StorageAsAsked, KeyAsAsked
<1>11. SavedAsAsked(stack', now)
  BY <1>2, CallFromAsked DEF WaitInv
<1>12. \A u \in Wallets : GuardedChange(u)
  BY <1>6, <1>8, QuietWaits DEF GuardedFrom, GuardedChange
<1>13. \A u \in Wallets : KeyChangeOf(u)
  <2>1. RecoverableFrom(w, key)
    BY <1>2 DEF RecoverableFrom
  <2>2. \A u \in Wallets : u # w =>
            gateway'.hashFromWallet[u] = gateway.hashFromWallet[u]
    BY <1>1, <1>2, <1>5 DEF IInv, StorageOK, GatewayStorage
  <2> QED
    BY <1>4, <2>1, <2>2 DEF KeyChangeOf
<1> QED
  BY <1>1, <1>2, <1>9, <1>10, <1>11, <1>12, <1>13
     DEF WaitInv, StorageAsAsked, Waits

\* The call is approved after its week, and asked for anew once it was made.
LEMMA WalletAdminCallWaits ==
  ASSUME WaitInv, NEW w \in Wallets, NEW key \in Keys, NEW call \in AdminCalls,
         WalletAdminCall(w, key, call)
  PROVE  WaitInv' /\ Waits
<1> DEFINE b == SetAnyPending(wallet[w], now)
           c == ClearApprovedProxyAdminFunctionHash(b)
           d == SetProxyAdminFunctionHash(b, call, now)
<1>1. IInv' /\ IInv /\ wallet[w] \in WalletStorage
  BY WalletAdminCallOK DEF WaitInv, IInv, StorageOK
<1>2. b \in WalletStorage
  BY <1>1, SetAnyPendingSettles DEF IInv, StorageOK, Registrations, Settles
<1>3. WalletAsAsked(b, w, history, now) /\ GuardedFrom(wallet[w], b, w)
  BY <1>1, SetAnyPendingWaits DEF WaitInv, StorageAsAsked
<1>4. gateway' = gateway /\ CallBy(w) /\ now' = now
  BY DEF WalletAdminCall
<1>5. SavedAsAsked(stack', now)
  BY <1>4, CallByAsked DEF WaitInv
<1>6. CASE wallet' = [wallet EXCEPT ![w] = c] /\ history' = history
  <2> HIDE DEF b
  <2>1. Quiet(b, c)
    BY <1>2, ClearApprovedIsQuiet
  <2>2. WalletAsAsked(c, w, history, now)
    BY <1>3, <2>1, QuietWaits
  <2>3. /\ c.recoveryHash = b.recoveryHash
        /\ c.trustedBLSGateway = b.trustedBLSGateway
        /\ c.approvedProxyAdminFunctionHash = NoCall
    BY <1>2 DEF ClearApprovedProxyAdminFunctionHash, WalletStorage
  <2>4. GuardedFrom(wallet[w], c, w)
    BY <1>3, <2>3 DEF GuardedFrom
  <2> HIDE DEF c
  <2>5. StorageAsAsked(gateway', wallet', history', now) /\ Waits
    BY <1>1, <1>4, <1>6, <2>2, <2>4, WalletStepWaits DEF WaitInv
  <2> QED
    BY <1>1, <1>4, <1>5, <2>5 DEF WaitInv
<1>7. CASE /\ wallet' = [wallet EXCEPT ![w] = d]
           /\ history' = [history EXCEPT !.askedCall[w] = Request(call)]
  <2> HIDE DEF b
  <2>1. /\ d.pendingRecoveryHash = b.pendingRecoveryHash
        /\ d.pendingRecoveryHashTime = b.pendingRecoveryHashTime
        /\ d.pendingBLSGateway = b.pendingBLSGateway
        /\ d.pendingGatewayTime = b.pendingGatewayTime
        /\ d.pendingPAFunctionHash = call
        /\ d.pendingPAFunctionTime = now + WEEK
        /\ d.recoveryHash = b.recoveryHash
        /\ d.trustedBLSGateway = b.trustedBLSGateway
        /\ Deployed(d) <=> Deployed(b)
        /\ d.approvedProxyAdminFunctionHash = b.approvedProxyAdminFunctionHash
    BY <1>2 DEF Deployed, SetProxyAdminFunctionHash, WalletStorage
  <2> HIDE DEF d
  <2>2. /\ history'.askedKey = history.askedKey
        /\ history'.askedHash = history.askedHash
        /\ history'.askedGateway = history.askedGateway
        /\ history'.askedCall[w] = Request(call)
        /\ \A u \in Wallets \ {w} : history'.askedCall[u] = history.askedCall[u]
    BY <1>1, <1>7 DEF IInv, StorageOK, History
  <2>3. WalletAsAsked(d, w, history', now)
    BY <1>3, <2>1, <2>2 DEF WalletAsAsked, AsAsked, ZeroAsAsked, Request
  <2>4. GuardedFrom(wallet[w], d, w)
    BY <1>3, <2>1 DEF GuardedFrom
  <2>5. StorageAsAsked(gateway', wallet', history', now) /\ Waits
    BY <1>1, <1>4, <1>7, <2>2, <2>3, <2>4, WalletStepWaits DEF WaitInv
  <2> QED
    BY <1>1, <1>4, <1>5, <2>5 DEF WaitInv
<1> QED
  BY <1>6, <1>7 DEF WalletAdminCall

LEMMA SetTrustedBLSGatewayWaits ==
  ASSUME WaitInv, NEW w \in Wallets, NEW key \in Keys, NEW new \in Gateways,
         SetTrustedBLSGateway(w, key, new)
  PROVE  WaitInv' /\ Waits
<1> DEFINE c == SetTrustedGateway(wallet[w], new, now)
<1>1. IInv' /\ IInv /\ wallet[w] \in WalletStorage
  BY SetTrustedBLSGatewayOK DEF WaitInv, IInv, StorageOK
<1>2. /\ wallet' = [wallet EXCEPT ![w] = c]
      /\ history' = [history EXCEPT !.askedGateway[w] = Request(new)]
      /\ gateway' = gateway /\ CallBy(w) /\ now' = now
      /\ wallet[w].trustedBLSGateway # NoGateway
  BY GatewayAssumption, WalletAssumption
     DEF SetTrustedBLSGateway, OnlyTrustedGateway
<1>3. /\ c.pendingRecoveryHash = wallet[w].pendingRecoveryHash
      /\ c.pendingRecoveryHashTime = wallet[w].pendingRecoveryHashTime
      /\ c.pendingBLSGateway = new
      /\ c.pendingGatewayTime = now + WEEK
      /\ c.pendingPAFunctionHash = wallet[w].pendingPAFunctionHash
      /\ c.pendingPAFunctionTime = wallet[w].pendingPAFunctionTime
      /\ c.recoveryHash = wallet[w].recoveryHash
      /\ c.trustedBLSGateway = wallet[w].trustedBLSGateway
      /\ c.approvedProxyAdminFunctionHash
             = wallet[w].approvedProxyAdminFunctionHash
  BY <1>1 DEF SetTrustedGateway, WalletStorage
<1> HIDE DEF c
<1>4. /\ history'.askedKey = history.askedKey
      /\ history'.askedHash = history.askedHash
      /\ history'.askedCall = history.askedCall
      /\ history'.askedGateway[w] = Request(new)
      /\ \A u \in Wallets \ {w} :
            history'.askedGateway[u] = history.askedGateway[u]
  BY <1>1, <1>2 DEF IInv, StorageOK, History
<1>5. WalletAsAsked(c, w, history', now)
  BY <1>2, <1>3, <1>4
     DEF WaitInv, StorageAsAsked, WalletAsAsked, AsAsked, ZeroAsAsked, Request
<1>6. GuardedFrom(wallet[w], c, w)
  BY <1>3 DEF GuardedFrom
<1>7. StorageAsAsked(gateway', wallet', history', now) /\ Waits
  BY <1>1, <1>2, <1>4, <1>5, <1>6, WalletStepWaits DEF WaitInv
<1> QED
  BY <1>1, <1>2, <1>7, CallByAsked DEF WaitInv

\* What another gateway asks for waits like what this one asks for.
LEMMA ForeignCallWaits ==
  ASSUME WaitInv, NEW w \in Wallets, ForeignCall(w)
  PROVE  WaitInv' /\ Waits
<1> DEFINE b == wallet[w]
<1>1. IInv' /\ IInv /\ b \in WalletStorage
  BY ForeignCallOK DEF WaitInv, IInv, StorageOK
<1>2. /\ gateway' = gateway /\ now' = now
      /\ SavedAsAsked(stack', now)
      /\ b.trustedBLSGateway # NoGateway
  BY EnteredAsked, WalletAssumption DEF ForeignCall, WaitInv
<1>3. WalletAsAsked(b, w, history, now)
  BY DEF WaitInv, StorageAsAsked
<1>4. ASSUME NEW c, wallet' = [wallet EXCEPT ![w] = c],
             history'.askedKey = history.askedKey,
             \A u \in Wallets \ {w} :
                 /\ history'.askedHash[u] = history.askedHash[u]
                 /\ history'.askedGateway[u] = history.askedGateway[u]
                 /\ history'.askedCall[u] = history.askedCall[u],
             WalletAsAsked(c, w, history', now), GuardedFrom(b, c, w)
      PROVE  WaitInv' /\ Waits
  <2>1. StorageAsAsked(gateway', wallet', history', now) /\ Waits
    BY <1>1, <1>2, <1>4, WalletStepWaits DEF WaitInv
  <2> QED
    BY <1>1, <1>2, <2>1 DEF WaitInv
<1>5. ASSUME NEW new \in Gateways \union {NoGateway},
             wallet' = [wallet EXCEPT ![w] = SetTrustedGateway(b, new, now)],
             history' = [history EXCEPT !.askedGateway[w] = Request(new)]
      PROVE  WaitInv' /\ Waits
  <2> DEFINE c == SetTrustedGateway(b, new, now)
  <2>1. /\ c.pendingRecoveryHash = b.pendingRecoveryHash
        /\ c.pendingRecoveryHashTime = b.pendingRecoveryHashTime
        /\ c.pendingBLSGateway = new
        /\ c.pendingGatewayTime = now + WEEK
        /\ c.pendingPAFunctionHash = b.pendingPAFunctionHash
        /\ c.pendingPAFunctionTime = b.pendingPAFunctionTime
        /\ c.recoveryHash = b.recoveryHash
        /\ c.trustedBLSGateway = b.trustedBLSGateway
        /\ c.approvedProxyAdminFunctionHash = b.approvedProxyAdminFunctionHash
    BY <1>1 DEF SetTrustedGateway, WalletStorage
  <2> HIDE DEF c
  <2>2. /\ history'.askedKey = history.askedKey
        /\ history'.askedHash = history.askedHash
        /\ history'.askedCall = history.askedCall
        /\ history'.askedGateway[w] = Request(new)
        /\ \A u \in Wallets \ {w} :
              history'.askedGateway[u] = history.askedGateway[u]
    BY <1>1, <1>5 DEF IInv, StorageOK, History
  <2>3. WalletAsAsked(c, w, history', now)
    BY <1>2, <1>3, <2>1, <2>2 DEF WalletAsAsked, AsAsked, ZeroAsAsked, Request
  <2>4. GuardedFrom(b, c, w)
    BY <2>1 DEF GuardedFrom
  <2> QED
    BY <1>4, <1>5, <2>2, <2>3, <2>4 DEF c
<1>6. ASSUME NEW call \in AdminCalls \union {NoCall},
             wallet' = [wallet EXCEPT
                 ![w] = SetProxyAdminFunctionHash(b, call, now)],
             history' = [history EXCEPT !.askedCall[w] = Request(call)]
      PROVE  WaitInv' /\ Waits
  <2> DEFINE c == SetProxyAdminFunctionHash(b, call, now)
  <2>1. /\ c.pendingRecoveryHash = b.pendingRecoveryHash
        /\ c.pendingRecoveryHashTime = b.pendingRecoveryHashTime
        /\ c.pendingBLSGateway = b.pendingBLSGateway
        /\ c.pendingGatewayTime = b.pendingGatewayTime
        /\ c.pendingPAFunctionHash = call
        /\ c.pendingPAFunctionTime = now + WEEK
        /\ c.recoveryHash = b.recoveryHash
        /\ c.trustedBLSGateway = b.trustedBLSGateway
        /\ c.approvedProxyAdminFunctionHash = b.approvedProxyAdminFunctionHash
    BY <1>1 DEF SetProxyAdminFunctionHash, WalletStorage
  <2> HIDE DEF c
  <2>2. /\ history'.askedKey = history.askedKey
        /\ history'.askedHash = history.askedHash
        /\ history'.askedGateway = history.askedGateway
        /\ history'.askedCall[w] = Request(call)
        /\ \A u \in Wallets \ {w} : history'.askedCall[u] = history.askedCall[u]
    BY <1>1, <1>6 DEF IInv, StorageOK, History
  <2>3. WalletAsAsked(c, w, history', now)
    BY <1>2, <1>3, <2>1, <2>2 DEF WalletAsAsked, AsAsked, ZeroAsAsked, Request
  <2>4. GuardedFrom(b, c, w)
    BY <2>1 DEF GuardedFrom
  <2> QED
    BY <1>4, <1>6, <2>2, <2>3, <2>4 DEF c
<1>7. CASE wallet' = [wallet EXCEPT ![w] = Recover(b)] /\ history' = Revoked(w)
  <2> DEFINE c == Recover(b)
  <2>1. /\ Quiet(b, c)
        /\ c.pendingRecoveryHashTime = 0
        /\ c.pendingGatewayTime = 0
        /\ c.pendingPAFunctionTime = 0
        /\ c.trustedBLSGateway # NoGateway
    BY <1>1, <1>2, RecoverDropsAll DEF Quiet
  <2> HIDE DEF c
  <2>2. /\ history'.askedKey = history.askedKey
        /\ \A u \in Wallets \ {w} :
              /\ history'.askedHash[u] = history.askedHash[u]
              /\ history'.askedGateway[u] = history.askedGateway[u]
              /\ history'.askedCall[u] = history.askedCall[u]
    BY <1>1, <1>7 DEF Revoked, IInv, StorageOK, History
  <2>3. WalletAsAsked(c, w, history', now)
    BY <2>1 DEF WalletAsAsked, AsAsked, ZeroAsAsked
  <2>4. GuardedFrom(b, c, w)
    BY <2>1, QuietWaits
  <2> QED
    BY <1>4, <1>7, <2>2, <2>3, <2>4 DEF c
<1>8. CASE /\ wallet' = [wallet EXCEPT
                ![w] = ClearApprovedProxyAdminFunctionHash(b)]
           /\ history' = history
  <2> DEFINE c == ClearApprovedProxyAdminFunctionHash(b)
  <2>1. WalletAsAsked(c, w, history', now) /\ GuardedFrom(b, c, w)
    BY <1>1, <1>3, <1>8, ClearApprovedIsQuiet, QuietWaits
  <2> QED
    BY <1>4, <1>8, <2>1
<1> QED
  BY <1>5, <1>6, <1>7, <1>8 DEF ForeignCall

\* The first recovery hash is set at once, and then nothing waits.
LEMMA SetRecoveryHashOfWaits ==
  ASSUME WaitInv, NEW w \in Wallets, NEW hash \in RecoveryHashes \union {NoHash},
         SetRecoveryHashOf(w, hash)
  PROVE  WaitInv' /\ Waits
<1> DEFINE c == SetRecoveryHash(wallet[w], hash, now)
<1>1. IInv' /\ IInv /\ wallet[w] \in WalletStorage
  BY SetRecoveryHashOfOK DEF WaitInv, IInv, StorageOK
<1>2. /\ wallet' = [wallet EXCEPT ![w] = c]
      /\ history' = [history EXCEPT !.askedHash[w] = Request(hash)]
      /\ gateway' = gateway /\ CallBy(w) /\ now' = now
  BY DEF SetRecoveryHashOf
<1>3. /\ \/ c.pendingRecoveryHashTime = 0 /\ wallet[w].recoveryHash = NoHash
         \/ /\ c.pendingRecoveryHash = hash
            /\ c.pendingRecoveryHashTime = now + WEEK
            /\ c.recoveryHash = wallet[w].recoveryHash
      /\ c.pendingBLSGateway = wallet[w].pendingBLSGateway
      /\ c.pendingGatewayTime = wallet[w].pendingGatewayTime
      /\ c.pendingPAFunctionHash = wallet[w].pendingPAFunctionHash
      /\ c.pendingPAFunctionTime = wallet[w].pendingPAFunctionTime
      /\ c.trustedBLSGateway = wallet[w].trustedBLSGateway
      /\ Deployed(c) <=> Deployed(wallet[w])
      /\ c.approvedProxyAdminFunctionHash
             = wallet[w].approvedProxyAdminFunctionHash
  BY <1>1 DEF Deployed, SetRecoveryHash, ClearPendingRecoveryHash, WalletStorage
<1> HIDE DEF c
<1>4. /\ history'.askedKey = history.askedKey
      /\ history'.askedGateway = history.askedGateway
      /\ history'.askedCall = history.askedCall
      /\ history'.askedHash[w] = Request(hash)
      /\ \A u \in Wallets \ {w} : history'.askedHash[u] = history.askedHash[u]
  BY <1>1, <1>2 DEF IInv, StorageOK, History
<1>5. WalletAsAsked(c, w, history', now)
  BY <1>2, <1>3, <1>4
     DEF WaitInv, StorageAsAsked, WalletAsAsked, AsAsked, ZeroAsAsked, Request
<1>6. GuardedFrom(wallet[w], c, w)
  BY <1>3 DEF GuardedFrom
<1>7. StorageAsAsked(gateway', wallet', history', now) /\ Waits
  BY <1>1, <1>2, <1>4, <1>5, <1>6, WalletStepWaits DEF WaitInv
<1> QED
  BY <1>1, <1>2, <1>7, CallByAsked DEF WaitInv

LEMMA SetAnyPendingOfWaits ==
  ASSUME WaitInv, NEW sender, NEW w \in Wallets, SetAnyPendingOf(sender, w)
  PROVE  WaitInv' /\ Waits
<1> DEFINE c == SetAnyPending(wallet[w], now)
<1>1. IInv' /\ IInv /\ wallet[w] \in WalletStorage
  BY SetAnyPendingOfOK DEF WaitInv, IInv, StorageOK
<1>2. /\ wallet' = [wallet EXCEPT ![w] = c]
      /\ gateway' = gateway /\ history' = history /\ CallFrom(sender)
      /\ now' = now
  BY DEF SetAnyPendingOf
<1>3. WalletAsAsked(c, w, history, now) /\ GuardedFrom(wallet[w], c, w)
  BY <1>1, SetAnyPendingWaits DEF WaitInv, StorageAsAsked
<1> HIDE DEF c
<1>4. StorageAsAsked(gateway', wallet', history', now) /\ Waits
  BY <1>1, <1>2, <1>3, WalletStepWaits DEF WaitInv
<1> QED
  BY <1>1, <1>2, <1>4, CallFromAsked DEF WaitInv

LEMMA TickWaits ==
  ASSUME WaitInv, Tick
  PROVE  WaitInv' /\ Waits
<1>1. IInv' /\ IInv /\ stack' = <<>> /\ now' = now + 1
      /\ UNCHANGED <<gateway, wallet, history>>
  BY TickOK DEF WaitInv, Tick
<1>2. \A w \in Wallets : WalletAsAsked(wallet[w], w, history, now + 1)
  <2> SUFFICES ASSUME NEW w \in Wallets
               PROVE  WalletAsAsked(wallet[w], w, history, now + 1)
    OBVIOUS
  <2>1. history.askedGateway[w] \in Requests(Gateways \union {NoGateway})
    BY <1>1 DEF IInv, StorageOK, History
  <2>2. /\ history.askedGateway[w].at + WEEK \in Nat
        /\ now \in Nat
    BY <1>1, <2>1, WalletAssumption DEF IInv, Requests
  <2> QED
    BY <2>2 DEF WaitInv, StorageAsAsked, WalletAsAsked, ZeroAsAsked
<1>3. StorageAsAsked(gateway', wallet', history', now')
  BY <1>1, <1>2 DEF WaitInv, StorageAsAsked
<1>4. SavedAsAsked(stack', now')
  BY <1>1 DEF SavedAsAsked
<1> QED
  BY <1>1, <1>3, <1>4 DEF WaitInv, Waits, GuardedChange, KeyChangeOf

LEMMA InitAsAsked == Init => WaitInv
<1> SUFFICES ASSUME Init PROVE WaitInv
  OBVIOUS
<1>1. \A w \in Wallets : WalletAsAsked(wallet[w], w, history, now)
  BY DEF Init, NotDeployed, Deployed, WalletAsAsked, AsAsked, ZeroAsAsked
<1>2. \A k \in Keys : KeyAsAsked(gateway, k, history)
  BY DEF Init, KeyAsAsked, AsAsked
<1>3. SavedAsAsked(stack, now)
  BY DEF Init, SavedAsAsked
<1> QED
  BY <1>1, <1>2, <1>3, InitOK DEF WaitInv, StorageAsAsked

LEMMA NextWaits ==
  ASSUME WaitInv, Next
  PROVE  WaitInv' /\ (RollsBack \/ Waits)
<1>1. CASE Bundle
  BY <1>1, ProcessBundleWaits, SkipOperationWaits, PerformOperationWaits,
     ForeignOperationWaits, RevertsOK, PopsWait DEF Bundle
<1>2. CASE KeyChange
  BY <1>2, SetBLSKeyForWalletWaits, SetPendingBLSKeyForWalletWaits,
     RecoverWalletWaits DEF KeyChange
<1>3. CASE WalletChange
  BY <1>3, WalletAdminCallWaits, SetTrustedBLSGatewayWaits,
     ForeignCallWaits, SetRecoveryHashOfWaits, SetAnyPendingOfWaits DEF WalletChange
<1>4. CASE Tick
  BY <1>4, TickWaits
<1> QED
  BY <1>1, <1>2, <1>3, <1>4 DEF Next

LEMMA StutterKeepsWaitInv ==
  ASSUME WaitInv, UNCHANGED vars
  PROVE  WaitInv'
  BY NextOK DEF WaitInv, vars

\* Whatever waits in a reachable storage, or in one a rollback would return
\* to, is the last request for it, made a week before its time (setAnyPending,
\* recover, setBLSKeyForWallet).
THEOREM WaitingInvariance == Spec => []WaitInv
  BY InitAsAsked, NextWaits, StutterKeepsWaitInv, PTL DEF Spec

\* A proxy exists exactly when it is registered (getOrCreateWallet), and only
\* a request of a gateway the wallet had moved to, a week old and the last
\* one, leaves it trusting the zero address (setAnyPending, setTrustedGateway).
THEOREM Registered == Spec => []DeployedIffRegistered
<1>1. WaitInv => DeployedIffRegistered
  BY DEF WaitInv, IInv, StorageOK, Registrations, StorageAsAsked,
         WalletAsAsked, ZeroAsAsked, Waited, DeployedIffRegistered
<1> QED
  BY <1>1, WaitingInvariance, PTL

\* No recovery hash is replaced, no gateway trusted and no admin call approved
\* within a week of the wallet's last request for it, in any interleaving of
\* requests, recoveries and rollbacks (setAnyPending, recover).
THEOREM GuardedChangesAreSlow == Spec => GuardedChangesWait
<1>1. WaitInv /\ [Next]_vars
        => [RollsBack \/ \A w \in Wallets : GuardedChange(w)]_vars
  BY NextWaits DEF Waits
<1> QED
  BY <1>1, WaitingInvariance, PTL DEF Spec, GuardedChangesWait

\* A wallet's key is replaced by one asked for under it a week before, or by a
\* recovery whose hash commits to it (setPendingBLSKeyForWallet,
\* recoverWallet).
THEOREM KeyChangesAreSlow == Spec => KeyChangesWait
<1>1. WaitInv /\ [Next]_vars
        => [RollsBack \/ \A w \in Wallets : KeyChangeOf(w)]_vars
  BY NextWaits DEF Waits
<1> QED
  BY <1>1, WaitingInvariance, PTL DEF Spec, KeyChangesWait
=============================================================================
