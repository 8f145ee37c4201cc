SPECIFICATION WriteSpec
CONSTANTS Process = {p1, p2}
          Value = {old, new}
          Absent = Absent
INVARIANT NeverTruncated
PROPERTY ImplementsRegister
