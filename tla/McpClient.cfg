\* The client ends with its assistant.
CHECK_DEADLOCK FALSE
SPECIFICATION FairMcpSpec
CONSTANTS
  MaxId = 3
  MaxLines = 3
INVARIANT AnswersAreOwn
PROPERTY RequestEnds
