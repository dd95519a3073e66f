--------------------------- MODULE MCWalletChanges ---------------------------
(* Two scenarios of VerificationGateway, each deep where the other is not:   *)
(* keys change hands inside nested bundles, or a wallet that keeps its key   *)
(* changes its settings again and again.                                     *)
EXTENDS MCVerificationGateway

VARIABLE scenario

allVars == <<vars, scenario>>

\* Two recovery hashes of wallet 1: with the account, or with itself.
RecoverBySelf == {<<a1, k1>>, <<w1, k1>>}
RecoverAnyhow == RecoverByAny \union RecoverBySelf

Call(selector, to) == [selector |-> selector, proxy |-> w1, to |-> to]
AdminCallsOfW1 == {Call("changeProxyAdmin", otherAdmin), Call("upgrade", ownAdmin)}

WalletChangesInit == Init /\ scenario \in {"keys", "settings"}

\* Each of two operations of a wallet, with its nonce, that may take a key away.
KeysScenario ==
    /\ scenario = "keys"
    /\ \/ \E bundle \in Bundles : bundle[1].nonce < 2 /\ ProcessBundle(bundle)
       \/ SkipOperation \/ PerformOperation
       \/ OperationSucceeds \/ OperationReverts \/ BundleEnds \/ BundleReverts
       \/ KeyChange
       \/ \E w \in Wallets, hash \in RecoverByAny : SetRecoveryHashOf(w, hash)
       \/ now < 2 /\ Tick

\* Bundles of key 1, which call no other bundle, and recoveries of its wallet.
SettingsScenario ==
    /\ scenario = "settings"
    /\ \/ \E bundle \in Bundles :
              stack = <<>> /\ bundle[1].key = k1 /\ ProcessBundle(bundle)
       \/ SkipOperation \/ PerformOperation
       \/ \E w \in Wallets : ForeignOperation(w)
       \/ OperationSucceeds \/ OperationReverts \/ BundleEnds \/ BundleReverts
       \/ \E sender \in Accounts, signature \in Signatures, expiry \in Expiries :
              RecoverWallet(sender, signature, k1, k1, expiry)
       \/ \E w \in Wallets, key \in Keys, call \in AdminCalls :
              WalletAdminCall(w, key, call)
       \/ \E w \in Wallets, key \in Keys, blsGateway \in Gateways :
              SetTrustedBLSGateway(w, key, blsGateway)
       \/ \E w \in Wallets : ForeignCall(w)
       \/ \E w \in Wallets, hash \in RecoverBySelf \union {NoHash} :
              SetRecoveryHashOf(w, hash)
       \/ \E sender \in Wallets \union Accounts, w \in Wallets :
              SetAnyPendingOf(sender, w)
       \/ Tick

WalletChangesNext == (KeysScenario \/ SettingsScenario) /\ UNCHANGED scenario

WalletChangesSpec == WalletChangesInit /\ [][WalletChangesNext]_allVars
=============================================================================
