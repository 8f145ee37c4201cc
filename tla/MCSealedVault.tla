---------------------------- MODULE MCSealedVault ----------------------------
EXTENDS SealedVault, TLC

CONSTANTS a,       \* an account
          forged   \* an account nobody enrolled

MCContents == {VaultData(s) : s \in SUBSET Item}
MCGarbage == VaultData({forged})
\* No definition singles out an instance or a secret.
MCSymmetry == Permutations(Instance) \cup Permutations(Secret)
=============================================================================
