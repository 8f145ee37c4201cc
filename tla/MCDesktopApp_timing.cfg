SPECIFICATION FairSpec
CONSTANTS a = a
          b = b
          None = None
          PasscodeLength = 2
          ExtendFactors = 1
          Id = {a, b}
          NewAccounts = {}
          MaxAccounts = 1
          MaxCounter = 1
          RemoteVaults = {}
          WriteOutcomes = {TRUE}
          StartupReads = {TRUE}
          KeepOpen = FALSE
          Second = 2
          IdleTimeout = 4
          MaxSession = 10
          Horizon = 14
          MaxGeneration = 4
INVARIANT ExposureIsBounded
PROPERTY VaultRelocks
