SPECIFICATION MemSpec
CONSTANTS
  a1 = a1  a2 = a2  v1 = v1  v2 = v2
  Assistants = {a1, a2}
  NumKeys = 2
  Values = {v1, v2}
  MaxRemembers = 5
  MaxCrashes = 1
SYMMETRY Interchangeable
INVARIANT FactsAreKept
