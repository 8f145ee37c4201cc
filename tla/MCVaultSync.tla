----------------------------- MODULE MCVaultSync -----------------------------
EXTENDS VaultSync, TLC

CONSTANTS a, b   \* account ids

MCEnrollable == {[id |-> a, hotp |-> TRUE, counter |-> 0],
                 [id |-> b, hotp |-> FALSE, counter |-> 0]}
\* No definition singles out a device, an id or a password.
MCSymmetry == Permutations(Device) \cup Permutations(DeviceId)
              \cup Permutations(Password)
=============================================================================
