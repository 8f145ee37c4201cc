-------------------------- MODULE MCSecureBluetooth --------------------------
EXTENDS SecureBluetooth, TLC

\* No definition singles out a device or a text.
MCSymmetry == Permutations(Device) \cup Permutations(Text)
=============================================================================
