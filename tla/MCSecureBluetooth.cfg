SPECIFICATION Spec
CONSTANTS Device = {d1, d2}
          Text = {m1, m2}
          ConfirmationTimeout = 1
          SessionLifetime = 0
          MaxFrames = 2
          Forged = {0, 1}
          MaxPairings = 4
INVARIANTS ReceivedIsPrefixOfSent NoncesAreFresh ActiveHasPeer
PROPERTY NoStaleFrameIsAccepted
SYMMETRY MCSymmetry
