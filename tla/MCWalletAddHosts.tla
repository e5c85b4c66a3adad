--------------------------- MODULE MCWalletAddHosts ---------------------------
EXTENDS WalletAddHosts, TLC

Symmetry == Permutations(Wallets)
=============================================================================
