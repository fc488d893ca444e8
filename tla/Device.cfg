SPECIFICATION Spec
CONSTANTS
  QueueSize = 3
  Codecs = {"MSBC"}
  CallsSuspendMusic = TRUE
  MaxPresses = 2
  EarlyCost = 2
INVARIANTS
  TypeOK
  CurrentRuns
  CodecServesCall
  MusicSinkRestored
  ReconfigurationFails
  
PROPERTY ImplementsHandover
CHECK_DEADLOCK FALSE
