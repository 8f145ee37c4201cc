SPECIFICATION Spec
CONSTANTS a = a
          None = None
          forged = forged
          Garbage <- MCGarbage
          Instance = {i1, i2}
          Secret = {s1, s2}
          Item = {a}
          Contents <- MCContents
          MaxDraws = 2
SYMMETRY MCSymmetry
INVARIANTS OpenVaultReopens OnlyItsPasscodeOpens
PROPERTY ImplementsSafe
