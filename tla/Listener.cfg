SPECIFICATION FairSpec
CONSTANTS
  Hangover = 2  FollowUpWindow = 2  MaxUtterance = 6  MinUtterance = 2
  Settle = 1  ColdStart = 2
  WakePriming = 1  WakePreRoll = 1  FollowUpPreRoll = 2
  EnterChunks = 2  CheckInterval = 2
INVARIANTS NothingMissing EnoughSpeech NoFalseAlarm
PROPERTIES ChecksKeepComing FollowUpEndsInSilence
