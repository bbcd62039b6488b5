SPECIFICATION FairSpec
CONSTANTS
  Length = 2
  MaxFrames = 1
  AutoStop = 1
  MaxSpoken = 3
  MaxTakes = 2
  MaxInFlight = 3
  Faults = {"lag", "silence", "autoplay", "provider", "store", "limit", "network", "refused"}
  MaxFaults = 2
INVARIANTS TypeOK AnswersItsQuestion NoStandoff ErrorIsAboutThisAnswer PageTellsTheTruth
PROPERTIES KeepsPromises EverySessionSettles
CHECK_DEADLOCK FALSE
