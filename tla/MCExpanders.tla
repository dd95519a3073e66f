---------------------------- MODULE MCExpanders ----------------------------
(* Constants of Expanders for TLC.                                          *)
EXTENDS Expanders

CONSTANTS k1, k2, a1, a2

Token(method, words, value) == Action(0, a1, Call(method, words, value))

Pay(n) == Action(n, aggregatorUtilities, SendEthToTxOrigin)

RegisterAction(key) == Action(0, blsRegistration, Register(key))

Send(n, to) == Action(n, to, Call("none", <<>>, 0))

\* Bundles of two operations, one for each path of each compressor, with
\* numbers around the limits of the formats.
TokenBundle ==
    << By(k1, 0, 1000, <<Token("transfer", <<a2>>, 300), Pay(7)>>),
       By(k2, 128, 1023, <<Token("approve", <<a2>>, MaxUint),
                           Token("approve", <<a2>>, 127)>>) >>

TokenBundle2 ==
    << By(k1, 16383, 1024, <<Token("transferFrom", <<a2, blsRegistration>>, 16384)>>),
       By(k1, 16384, 0, <<Token("mint", <<a1>>, 129)>>) >>

RegistrationBundle ==
    << By(k1, 127, 30000, <<RegisterAction(k1), Pay(90)>>),
       By(k2, 1, 8, <<RegisterAction(k2)>>) >>

UnusualRegistrationBundle ==
    << By(k1, 2, 9, <<RegisterAction(k1), Pay(0)>>),
       By(k1, 3, 10, <<RegisterAction(k2), Pay(1)>>) >>

FallbackBundle ==
    << By(k1, 4, 80, <<Send(30000, a2), Pay(10), Send(0, a1)>>),
       By(k2, 5, 7, <<Pay(1000)>>) >>

EmptyBundle == << By(k2, 6, 1, <<>>) >>

AllBundles == { TokenBundle, TokenBundle2, RegistrationBundle,
                UnusualRegistrationBundle, FallbackBundle, EmptyBundle }

\* A transfer of tokens that also sends ether.
PayingBundles == { << By(k1, 0, 1, <<Action(1, a1, Call("transfer", <<a2>>, 1))>>) >> }

\* Ether is burnt: sent to the address zero.
BurningBundles == { << By(k1, 0, 1, <<Send(1, zero)>>) >> }

ASSUME OnlyTheseDoNotFit == BundlesFit <=> Bundles \notin {PayingBundles, BurningBundles}
=============================================================================
