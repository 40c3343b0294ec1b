------------------------------ MODULE MCWallet ------------------------------
(***************************************************************************)
(* Instances of Wallet for TLC.                                            *)
(***************************************************************************)
EXTENDS Wallet, TLC

CONSTANTS s1, s2, r1, r2

TwoSessions == {s1, s2}
TwoRefs == {r1, r2}
SessionAndRefSymmetry == Permutations(TwoSessions) \cup Permutations(TwoRefs)

(* Accounts 1 and 2 are seeded like alice and bob; account 3, if there is  *)
(* one, is created by the first Credit or Transfer to it.                  *)
SeedTwo == 1 :> 20 @@ 2 :> 10

(* Balances from which two transfers reach what float64 cannot keep *)
SeedLarge == 1 :> 96 @@ 2 :> 48

=============================================================================
