----------------------------- MODULE MCWalletAuth -----------------------------
EXTENDS WalletAuth, TLC

\* Wallets are interchangeable, and so are requests served at once.
Symmetry == Permutations(Wallets) \cup Permutations(Requests)
===============================================================================
