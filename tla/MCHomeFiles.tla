---------------------------- MODULE MCHomeFiles ----------------------------
(* HomeFiles on a small instance: two tabs, four networks, two wallets.     *)
EXTENDS HomeFiles, TLC

\* A space is new, or was migrated with a wallet of index 0 or of index 1.
MCLegacy == {{0}, {1}}

\* The one secp256k1 key that is imported was exported from the space's seed.
MCSecpKeys == {DerivedKey("evm", 0)}

\* Tabs are interchangeable.
MCSymmetry == Permutations(Pages)
=============================================================================
