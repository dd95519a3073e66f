------------------------ MODULE MCVerificationGateway ------------------------
(* Constants of VerificationGateway for TLC, and the part of its next-state  *)
(* relation in which keys change hands.                                     *)
EXTENDS VerificationGateway, TLC

CONSTANTS k1, k2, w1, w2, a1, own, other, ownAdmin, otherAdmin

TwoWallets == k1 :> w1 @@ k2 :> w2

\* Each gateway has a ProxyAdmin of its own.
OwnAdmins == own :> ownAdmin @@ other :> otherAdmin

\* Wallet 1 may be recovered from key 1, by an account or by wallet 2.
RecoverByAny == {<<a1, k1>>, <<w2, k1>>}

\* Keys change hands, and operations process bundles: no admin calls, no other gateway.
KeysNext ==
    \/ Bundle
    \/ KeyChange
    \/ \E w \in Wallets, hash \in RecoveryHashes : SetRecoveryHashOf(w, hash)
    \/ Tick

KeysSpec == Init /\ [][KeysNext]_vars
=============================================================================
