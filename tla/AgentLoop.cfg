SPECIFICATION SpecLlmMayHang
CONSTANTS
  a = a  b = b  w1 = w1  w2 = w2  w3 = w3  None = None
  ToolCalls <- MCToolCalls
  Workers <- MCWorkers
  MaxBatch = 2
  PlanningEnabled = TRUE
  MaxToolCalls = 3
  MaxIdenticalRepeats = 2
  MaxToolFailures = 2
  MaxLlmRetries = 1
INVARIANTS UnverifiedAnswersAreFlagged EventsMatchResult LateWorkBounded NoForeignAnswer
PROPERTIES   ImplementsTurn
