----------------------------- MODULE MCServer ------------------------------
(***************************************************************************)
(* Small instances of Server for TLC. The cfg files choose the sets and    *)
(* which of the constants below they use.                                  *)
(***************************************************************************)
EXTENDS Server, TLC

CONSTANTS c1, c2, c3, c4, d1, d2, k1, k2

\* Four connections over two devices: three of them compete on one port.
FourOverTwo == (c1 :> d1) @@ (c2 :> d1) @@ (c3 :> d1) @@ (c4 :> d2)

\* Those three may change places.
Competitors == Permutations({c1, c2, c3})

TwoOverTwo == (c1 :> d1) @@ (c2 :> d2)

TwoOverOne == (c1 :> d1) @@ (c2 :> d1)

OneOverOne == c1 :> d1

RefuseSecond == (d1 :> "normal") @@ (d2 :> "refuse")

HangAndCut == (d1 :> "hang") @@ (d2 :> "disconnect")

HangOnly == d1 :> "hang"

\* d1 is a Cisco IOS device, d2 a TL1 one, which challenges in band.
CiscoAndTL1 == (d1 :> TRUE) @@ (d2 :> FALSE)

CiscoOnly == d1 :> TRUE
=============================================================================
