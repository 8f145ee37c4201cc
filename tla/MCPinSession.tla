----------------------------- MODULE MCPinSession -----------------------------
EXTENDS PinSession, TLC

CONSTANTS alice, bob   \* accounts; a run may give Account only one of them

\* The shape of backoff_secs, 0 0 0 5 30 60 300, in units of its own.
ScaledBackoff == <<0, 0, 0, 1, 2, 3, 4>>
MCSymmetry == Permutations({alice, bob})
=============================================================================
