SPECIFICATION FairSpec
CONSTANTS
  MaxGen = 4
  MaxEvents = 3
  MaxFrames = 3
  Drained = TRUE
INVARIANTS DisconnectFinal WakeCarried 
PROPERTIES NoUnwantedTraffic ConnectionSettles
CHECK_DEADLOCK FALSE
