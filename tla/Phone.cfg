\* A destroyed service stops.
CHECK_DEADLOCK FALSE
SPECIFICATION FairSpec
CONSTANTS
  MaxEvents = 3
  MaxSaves = 1
  MaxScreens = 1
INVARIANTS DestroyedStaysQuiet CoreFallsSilent
PROPERTIES StatusSettles
