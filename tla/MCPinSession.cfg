SPECIFICATION Spec
CONSTANTS alice = alice
          bob = bob
          None = None
          Account = {alice, bob}
          Happens = {"crash", "offline", "answer", "revoke", "seal", "unsealed", "count", "clock", "weak"}
          MaxPinFailures = 10
          MaxTries = 11
          BackoffTable <- ScaledBackoff
          MaxSetBack = 1
SYMMETRY MCSymmetry
INVARIANTS WrongPinsAreBounded BackoffEnds SealedTokenWorks TokenIsOfLastSignIn
PROPERTY BackoffIsKept
