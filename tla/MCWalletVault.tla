--------------------------- MODULE MCWalletVault ---------------------------
(* Small instances of WalletVault for TLC.                                 *)
EXTENDS WalletVault

\* Enough mnemonics for every part of three interrupted provisionings, a cache
\* and a wiped wallet to differ, and one more.
MCSeeds      == 1..5
MCIdentities == 1..2
=============================================================================
