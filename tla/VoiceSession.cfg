SPECIFICATION FairSpec
CONSTANTS
  t1 = t1  t2 = t2  c1 = c1  c2 = c2  None = None
  Turns <- MCTurns
  Conns <- MCConns
  MaxClips = 2
  TTL = 0
  MaxEvents <- MCMaxEvents
  NalaFaults = {"closed", "unreadable"}
INVARIANTS TurnsHearTheirOwn HeardInOrder
PROPERTIES NothingStaleIsSpoken NoClipVanishes TurnsFinish WaitingClipsGoOut
