SPECIFICATION Spec
CONSTANTS a = a
          b = b
          None = None
          PasscodeLength = 2
          ExtendFactors = 1
          Id = {a, b}
          NewAccounts <- MCNewAccounts
          MaxAccounts = 3
          MaxCounter = 3
          RemoteVaults <- MCRemoteVaults
          WriteOutcomes = {TRUE, FALSE}
          StartupReads = {TRUE}
          KeepOpen = TRUE
          Second = 1
          IdleTimeout = 1
          MaxSession = 2
          Horizon = 3
          MaxGeneration = 4
INVARIANTS MaterialIffUnlocked FileIsSealedData SpentStaysSpent
PROPERTY DiskNeverLosesGround
