SPECIFICATION Spec
CONSTANTS a = a
          b = b
          None = None
          Device = {d1, d2}
          DeviceId = {i1, i2, i3}
          Password = {p1, p2}
          Id = {a, b}
          Enrollable <- MCEnrollable
          MaxAccounts = 1
          MaxCounter = 1
          MaxAttempts = 2
          MaxEntries = 2
          MaxPushes = 2
          MaxLate = 2
INVARIANTS AckedStaysOnServer TwoRoundsConverge
PROPERTIES LocalNeverLosesGround SyncAddsAnIdOnce BlobPasswordIsKept OverfullVectorFreezes
SYMMETRY MCSymmetry
