SPECIFICATION Spec
CONSTANTS alice = alice
          bob = bob
          None = None
          Account = {alice}
          Happens = {"weak"}
          MaxPinFailures = 4
          MaxTries = 5
          BackoffTable <- ScaledBackoff
          MaxSetBack = 0
INVARIANT PinKeepsWorking
