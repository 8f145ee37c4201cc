SPECIFICATION Spec
CONSTANTS seed = seed
          Text = {"", "acme", "alice", "other", "old", "bob"}
          Seed = {seed}
          None = None
          IntMax = 31
          Uri <- MCUri
          Synced <- MCSynced
          Empty = Empty
          Foreign = Foreign
          ClearAfter = 2
          MaxCopies = 3
          Horizon = 4
INVARIANTS EnrolledAsWritten CountdownIsHonest CopiesAreCurrent CodeHasATimer
PROPERTY CodeLeaves
