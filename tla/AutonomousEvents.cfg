SPECIFICATION FairSpec
CONSTANTS
  p1 = p1  p2 = p2  low = low  joined = joined  left = left  None = None
  Publishers <- MCPublishers
  Occurrences = {low, joined, left}
  ActOn = {low}
  Capacity = 2
  MaxEvents = 4
INVARIANTS HandledInOrder NoLostWakeup
PROPERTY AcceptedEventsAreSettled
CHECK_DEADLOCK FALSE
