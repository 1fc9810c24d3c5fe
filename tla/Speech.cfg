SPECIFICATION FairSpec
CONSTANTS
  MaxQueuedNarration = 2
  MaxChunks = 2
  MaxEvents = 4
INVARIANTS
  SpeechIsOver
  PendingCounts
PROPERTY
  PromptReturns
CHECK_DEADLOCK FALSE
