SPECIFICATION FactorsSpec
CONSTANTS Second = 2
          IdleTimeout = 4
          MaxSession = 10
          Horizon = 13
          UnlockFactors = 1
          ExtendFactors = 2
          Proofs <- MCProofs
          Digits = {c1, c2}
          Nothing = Nothing
          MaxTyped = 3
SYMMETRY MCSymmetry
INVARIANTS CapCountsFromUnlock IdleCountsFromLastUse CountdownMatchesPoll
INVARIANTS ExtensionFactorIsDistinct SubmissionProvesOnce RecordingsGoStale
